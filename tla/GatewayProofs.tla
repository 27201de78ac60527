--------------------------- MODULE GatewayProofs ---------------------------
(***************************************************************************)
(* Theorems about HttpGateway: the OAuth provider's tables, admission, and *)
(* the sessions of revoked connections; then about ClientRegistry, where   *)
(* the provider's process may end and start again at any point.            *)
(***************************************************************************)
EXTENDS OAuthProofs, ClientRegistry

(* The steps of the gateway itself, which leave the provider alone. *)
GatewayNext ==
    \/ \E p \in Posts : Request(p) \/ Admission(p) \/ Handling(p)
    \/ \E i \in PeerIds : SessionEnds(i) \/ SessionCloses(i) \/ Watching(i)

LEMMA FourKinds ==
    [Next]_vars =>
        \/ OAuthNext /\ UNCHANGED gatewayVars
        \/ GatewayNext /\ UNCHANGED oauthVars
        \/ \E v \in Revokers : TellGateway(v)
        \/ UNCHANGED vars
  <1> DEFINE Kinds == \/ OAuthNext /\ UNCHANGED gatewayVars
                      \/ GatewayNext /\ UNCHANGED oauthVars
                      \/ \E v \in Revokers : TellGateway(v)
                      \/ UNCHANGED vars
  <1>1. ASSUME NEW p \in Posts, Request(p) PROVE UNCHANGED oauthVars
    BY <1>1 DEF Request, PostInitialize, PostCall
  <1>2. ASSUME NEW p \in Posts, Admission(p) PROVE UNCHANGED oauthVars
    BY <1>2 DEF Admission, Reserve, Overload, Abandon, Create, Open, OpenFails
  <1>3. ASSUME NEW p \in Posts, Handling(p) PROVE UNCHANGED oauthVars
    BY <1>3 DEF Handling, Serve, Refuse, Return
  <1>4. ASSUME NEW i \in PeerIds, SessionEnds(i) \/ SessionCloses(i) \/ Watching(i)
        PROVE  UNCHANGED oauthVars
    BY <1>4 DEF SessionEnds, SessionCloses, Watching, WatchReady, WatchGiveUp, WatchStop,
                WatchDone, RemovePeer, Disconnect
  <1>5. QED
    BY <1>1, <1>2, <1>3, <1>4 DEF Next, GatewayNext

LEMMA GatewayNextType ==
    ASSUME TypeOK, GatewayNext
    PROVE  GatewayTypeOK'
  <1> USE DEF TypeOK
  <1>1. ASSUME NEW p \in Posts, NEW c \in Conns \cup {None}, PostInitialize(p, c)
        PROVE  GatewayTypeOK'
    BY <1>1 DEF PostInitialize, GatewayTypeOK, Requests, PostStates, Admitting, Calling, peerVars
  <1>2. ASSUME NEW p \in Posts, NEW i \in PeerIds, PostCall(p, i)
        PROVE  GatewayTypeOK'
    BY <1>2 DEF PostCall, GatewayTypeOK, Requests, PostStates, Admitting, Calling, peerVars
  <1>3. ASSUME NEW p \in Posts, NEW i \in PeerIds, Reserve(p, i)
        PROVE  GatewayTypeOK'
    <2>1. IsMap(peers', PeerIds, {"reserved", "peer"})
      BY <1>3, PutMap DEF Reserve, GatewayTypeOK
    <2>2. post' \in [Posts -> Requests]
      <3>1. post[p] \in Requests /\ "reserved" \in PostStates
        BY DEF GatewayTypeOK, PostStates, Admitting
      <3>2. [post[p] EXCEPT !.stage = "reserved", !.peer = i] \in Requests
        BY <3>1 DEF Requests
      <3>3. post' = [post EXCEPT ![p] = [post[p] EXCEPT !.stage = "reserved", !.peer = i]]
        BY <1>3, <3>1 DEF Reserve, GatewayTypeOK, Requests
      <3>4. QED
        BY <3>2, <3>3 DEF GatewayTypeOK
    <2>3. \A q \in Posts : post'[q].stage \in Admitting \cup Calling => post'[q].peer \in PeerIds
      BY <1>3 DEF Reserve, GatewayTypeOK, Requests
    <2>4. QED
      BY <1>3, <2>1, <2>2, <2>3 DEF Reserve, GatewayTypeOK, WatcherStates
  <1>4. ASSUME NEW p \in Posts,
               Overload(p) \/ OpenFails(p) \/ Refuse(p) \/ Return(p)
        PROVE  GatewayTypeOK'
    BY <1>4 DEF Overload, OpenFails, Refuse, Return, Finish, Idle, GatewayTypeOK, Requests,
                PostStates, Admitting, Calling, peerVars
  <1>5. ASSUME NEW p \in Posts, Abandon(p)
        PROVE  GatewayTypeOK'
    <2>1. IsMap(peers', PeerIds, {"reserved", "peer"})
      <3>1. DOMAIN peers \ {post[p].peer} \in SUBSET DOMAIN peers
        OBVIOUS
      <3>2. QED
        BY <1>5, <3>1, RestrictMap DEF Abandon, GatewayTypeOK
    <2>2. QED
      BY <1>5, <2>1 DEF Abandon, Finish, Idle, GatewayTypeOK, Requests,
                        PostStates, Admitting, Calling
  <1>6. ASSUME NEW p \in Posts, Create(p)
        PROVE  GatewayTypeOK'
    <2>1. post[p].peer \in PeerIds /\ post[p].principal \in Conns \cup {None}
      BY <1>6 DEF Create, At, GatewayTypeOK, Requests, Admitting
    <2>2. IsMap(peers', PeerIds, {"reserved", "peer"})
      <3> DEFINE i == post[p].peer
      <3>1. i \in PeerIds /\ peers' = Put(peers, i, "peer")
        BY <1>6, <2>1 DEF Create
      <3> HIDE DEF i
      <3>2. QED
        BY <3>1, PutMap DEF GatewayTypeOK
    <2>3. post' \in [Posts -> Requests]
      BY <1>6 DEF Create, Goto, GatewayTypeOK, Requests, PostStates, Admitting
    <2>4. \A q \in Posts : post'[q].stage \in Admitting \cup Calling => post'[q].peer \in PeerIds
      BY <1>6, <2>1 DEF Create, Goto, GatewayTypeOK, Requests
    <2>5. QED
      BY <1>6, <2>1, <2>2, <2>3, <2>4 DEF Create, GatewayTypeOK, WatcherStates
  <1>7. ASSUME NEW p \in Posts, Open(p)
        PROVE  GatewayTypeOK'
    BY <1>7 DEF Open, Finish, Idle, GatewayTypeOK, Requests, PostStates, Admitting, Calling
  <1>8. ASSUME NEW p \in Posts, Serve(p)
        PROVE  GatewayTypeOK'
    <2>1. post[p].peer \in PeerIds
      BY <1>8 DEF Serve, At, GatewayTypeOK, Requests, Calling
    <2>2. post' \in [Posts -> Requests]
      BY <1>8 DEF Serve, Goto, GatewayTypeOK, Requests, PostStates, Calling
    <2>3. \A q \in Posts : post'[q].stage \in Admitting \cup Calling => post'[q].peer \in PeerIds
      BY <1>8, <2>1 DEF Serve, Goto, GatewayTypeOK, Requests
    <2>4. QED
      BY <1>8, <2>1, <2>2, <2>3 DEF Serve, GatewayTypeOK
  <1>9. ASSUME NEW i \in PeerIds, SessionEnds(i) \/ SessionCloses(i)
        PROVE  GatewayTypeOK'
    BY <1>9 DEF SessionEnds, SessionCloses, GatewayTypeOK
  <1>10. ASSUME NEW i \in PeerIds, WatchReady(i) \/ WatchGiveUp(i) \/ WatchStop(i) \/ WatchDone(i)
         PROVE  GatewayTypeOK'
    BY <1>10 DEF WatchReady, WatchGiveUp, WatchStop, WatchDone, Watch, Close, GatewayTypeOK,
                 WatcherStates
  <1>11. ASSUME NEW i \in PeerIds, RemovePeer(i)
         PROVE  GatewayTypeOK'
    <2>1. DOMAIN peers \ {i} \in SUBSET DOMAIN peers
      OBVIOUS
    <2>2. IsMap(peers', PeerIds, {"reserved", "peer"})
      BY <1>11, <2>1, RestrictMap DEF RemovePeer, GatewayTypeOK
    <2>3. QED
      BY <1>11, <2>2 DEF RemovePeer, Watch, GatewayTypeOK, WatcherStates
  <1>12. ASSUME NEW i \in PeerIds, Disconnect(i)
         PROVE  GatewayTypeOK'
    BY <1>12 DEF Disconnect, Watch, GatewayTypeOK, WatcherStates
  <1>13. QED
    BY <1>1, <1>2, <1>3, <1>4, <1>5, <1>6, <1>7, <1>8, <1>9, <1>10, <1>11, <1>12
    DEF GatewayNext, Request, Admission, Handling, Watching

LEMMA TellType ==
    ASSUME TypeOK, NEW v \in Revokers, TellGateway(v)
    PROVE  TypeOK'
  <1>1. OAuthTypeOK'
    BY DEF TypeOK, TellGateway, Told, OAuthTypeOK, tableVars, worldVars
  <1>2. GatewayTypeOK'
    BY DEF TypeOK, TellGateway, GatewayTypeOK, IsMap
  <1>3. QED
    BY <1>1, <1>2 DEF TypeOK

LEMMA InitType == Init => TypeOK
  <1>1. SUFFICES ASSUME Init PROVE TypeOK
    OBVIOUS
  <1>2. OAuthTypeOK
    BY <1>1, OAuthInitType DEF Init
  <1>3. GatewayTypeOK
    BY <1>1 DEF Init, GatewayTypeOK, IsMap, Empty, Idle, Requests, PostStates, WatcherStates,
                Admitting, Calling
  <1>4. QED
    BY <1>2, <1>3 DEF TypeOK

LEMMA NextType == TypeOK /\ [Next]_vars => TypeOK'
  <1>1. ASSUME TypeOK, OAuthNext, UNCHANGED gatewayVars PROVE TypeOK'
    <2>1. GatewayTypeOK'
      BY <1>1 DEF TypeOK, gatewayVars, peerVars, GatewayTypeOK
    <2>2. QED
      BY <1>1, <2>1, OAuthNextType DEF TypeOK
  <1>2. ASSUME TypeOK, UNCHANGED oauthVars PROVE OAuthTypeOK'
    BY <1>2 DEF TypeOK, oauthVars, tableVars, worldVars, OAuthTypeOK
  <1>3. ASSUME TypeOK, GatewayNext, UNCHANGED oauthVars PROVE TypeOK'
    BY <1>2, <1>3, GatewayNextType DEF TypeOK
  <1>4. ASSUME TypeOK, UNCHANGED vars PROVE TypeOK'
    <2>1. GatewayTypeOK'
      BY <1>4 DEF TypeOK, vars, gatewayVars, peerVars, GatewayTypeOK
    <2>2. QED
      BY <1>2, <1>4, <2>1 DEF TypeOK, vars
  <1>5. QED
    BY <1>1, <1>3, <1>4, TellType, FourKinds

LEMMA ProviderKept ==
    ASSUME TypeOK, OAuthInv, Paired, [Next]_vars
    PROVE  OAuthInv' /\ Paired'
  <1>1. CASE OAuthNext
    BY <1>1, OAuthStep DEF TypeOK
  <1>2. ASSUME UNCHANGED <<tableVars, worldVars>>,
               \A v \in Revokers : revoker'[v] \in {revoker[v], None}
        PROVE  OAuthInv' /\ Paired'
    <2>1. FamiliesKnown'
      BY <1>2 DEF tableVars, worldVars, OAuthInv, FamiliesKnown
    <2>2. DrawnOnce' /\ NoResurrection' /\ CodeYieldsOneConnection' /\ OneLiveRefresh'
      BY <1>2 DEF tableVars, worldVars, OAuthInv, DrawnOnce, NoResurrection,
                  CodeYieldsOneConnection, OneLiveRefresh
    <2>3. Paired'
      BY <1>2 DEF tableVars, worldVars, Paired
    <2>4. QED
      BY <2>1, <2>2, <2>3 DEF OAuthInv
  <1>3. CASE UNCHANGED oauthVars
    BY <1>2, <1>3 DEF oauthVars
  <1>4. ASSUME NEW v \in Revokers, TellGateway(v) PROVE OAuthInv' /\ Paired'
    BY <1>2, <1>4 DEF TellGateway, Told, TypeOK, OAuthTypeOK
  <1>5. QED
    BY <1>1, <1>3, <1>4, FourKinds DEF vars

(* Every variable stays in its type: tokens and pending requests refer to  *)
(* clients and connections that exist.                                     *)
THEOREM TypeCorrect == Spec => []TypeOK
  <1>1. QED
    BY InitType, NextType, PTL DEF Spec

LEMMA ProviderInvariant == Spec => [](TypeOK /\ OAuthInv /\ Paired)
  <1>1. Init => OAuthInv /\ Paired
    BY OAuthStart DEF Init
  <1>2. TypeOK /\ OAuthInv /\ Paired /\ [Next]_vars => (OAuthInv /\ Paired)'
    BY ProviderKept
  <1>3. QED
    BY <1>1, <1>2, InitType, NextType, PTL DEF Spec

(* No exchange and no refresh, whenever it runs, leaves a token of a       *)
(* connection whose family revokeConnection has deleted.                   *)
THEOREM NoTokenAfterRevocation == Spec => []NoResurrection
  BY ProviderInvariant, PTL DEF OAuthInv

(* An approval at the console makes one connection at most.                *)
THEOREM OneConnectionPerApproval == Spec => []CodeYieldsOneConnection
  BY ProviderInvariant, PTL DEF OAuthInv

(* Rotation leaves a connection one unused refresh token at most.          *)
THEOREM RotationIsStrict == Spec => []OneLiveRefresh
  BY ProviderInvariant, PTL DEF OAuthInv

LEMMA PairedWithin == TypeOK /\ Paired => RefreshWithinAccess
  <1>1. SUFFICES ASSUME TypeOK, Paired PROVE RefreshWithinAccess
    OBVIOUS
  <1>2. PICK m \in Injection(DOMAIN refresh, DOMAIN tokens) :
           \A f \in DOMAIN refresh : tokens[m[f]] = refresh[f].conn
    BY <1>1 DEF Paired
  <1>3. /\ m \in [DOMAIN refresh -> DOMAIN tokens]
        /\ \A f, g \in DOMAIN refresh : m[f] = m[g] => f = g
    BY <1>2 DEF Injection, IsInjective
  <1>4. IsFiniteSet(DOMAIN tokens)
    <2>1. DOMAIN tokens \subseteq Drawable
      BY <1>1 DEF TypeOK, OAuthTypeOK, IsMap, Drawable
    <2>2. QED
      BY <2>1, FS_Subset, OAuthAssumption
  <1>5. \A f \in DOMAIN refresh : \E x \in DOMAIN tokens : tokens[x] = refresh[f].conn
    BY <1>2, <1>3
  <1>6. Cardinality(DOMAIN refresh) <= Cardinality(DOMAIN tokens)
    BY <1>3, <1>4, FS_Injection DEF Injection, IsInjective
  <1>7. QED
    BY <1>5, <1>6 DEF RefreshWithinAccess

(* The refresh history is never longer than the list of access tokens.     *)
THEOREM RefreshBounded == Spec => []RefreshWithinAccess
  BY PairedWithin, ProviderInvariant, PTL
-----------------------------------------------------------------------------
(* What the actions that change h.peers do, in terms of keys and values.   *)
LEMMA PlaceTaken ==
    ASSUME TypeOK, NEW p \in Posts, NEW i \in PeerIds, Reserve(p, i)
    PROVE  /\ DOMAIN peers' = DOMAIN peers \cup {i}
           /\ peers'[i] = "reserved"
           /\ \A j \in DOMAIN peers \ {i} : peers'[j] = peers[j]
  BY DEF Reserve, Put

LEMMA PlaceFilled ==
    ASSUME TypeOK, NEW p \in Posts, Create(p)
    PROVE  /\ post[p].peer \in PeerIds
           /\ DOMAIN peers' = DOMAIN peers \cup {post[p].peer}
           /\ peers'[post[p].peer] = "peer"
           /\ \A j \in DOMAIN peers \ {post[p].peer} : peers'[j] = peers[j]
  <1>1. PICK i \in PeerIds : i = post[p].peer /\ peers' = Put(peers, i, "peer")
    BY DEF Create, At, TypeOK, GatewayTypeOK, Requests, Admitting
  <1>2. /\ DOMAIN peers' = DOMAIN peers \cup {i}
        /\ peers'[i] = "peer"
        /\ \A j \in DOMAIN peers \ {i} : peers'[j] = peers[j]
    BY <1>1 DEF Put
  <1>3. QED
    BY <1>1, <1>2

LEMMA PlaceGiven ==
    ASSUME TypeOK, NEW i, peers' = Restrict(peers, DOMAIN peers \ {i})
    PROVE  /\ DOMAIN peers' = DOMAIN peers \ {i}
           /\ \A j \in DOMAIN peers \ {i} : peers'[j] = peers[j]
  BY RestrictMap DEF TypeOK, GatewayTypeOK

LEMMA PlacesStep ==
    ASSUME TypeOK, PlacesInv, GatewayNext
    PROVE  PlacesInv'
  <1> USE DEF TypeOK, At, Admits, Watched, Admitting
  <1> USE DEF PlacesInv, AdmittedApart, AdmittedPlace, PlaceOwner, WatchedPlace
  <1>0. DOMAIN peers \subseteq PeerIds /\ DOMAIN peers' \subseteq PeerIds
    BY GatewayNextType DEF GatewayTypeOK, IsMap
  (* A request that opens no session comes, moves or goes. *)
  <1>1. ASSUME NEW p \in Posts, post[p].stage \notin Admitting,
               post'[p].stage \notin Admitting, \A q \in Posts \ {p} : post'[q] = post[q],
               UNCHANGED <<peers, watcher, session>>
        PROVE  PlacesInv'
    BY <1>1 DEF GatewayTypeOK
  <1>2. ASSUME NEW p \in Posts, NEW c, PostInitialize(p, c) PROVE PlacesInv'
    BY <1>1, <1>2 DEF PostInitialize, peerVars, GatewayTypeOK
  <1>3. ASSUME NEW p \in Posts, NEW i \in PeerIds, PostCall(p, i) PROVE PlacesInv'
    BY <1>1, <1>3 DEF PostCall, peerVars, GatewayTypeOK
  <1>4. ASSUME NEW p \in Posts, Overload(p) \/ Refuse(p) \/ Return(p) PROVE PlacesInv'
    BY <1>1, <1>4 DEF Overload, Refuse, Return, Finish, Idle, peerVars, GatewayTypeOK
  <1>5. ASSUME NEW p \in Posts, Serve(p) PROVE PlacesInv'
    <2>1. post'[p].stage = "serving" /\ \A q \in Posts \ {p} : post'[q] = post[q]
      BY <1>5 DEF Serve, Goto, GatewayTypeOK, Requests
    <2>2. QED
      BY <1>1, <1>5, <2>1 DEF Serve, Calling
  <1>6. ASSUME NEW p \in Posts, NEW i \in PeerIds, Reserve(p, i) PROVE PlacesInv'
    <2>1. /\ post'[p].stage = "reserved" /\ post'[p].peer = i
          /\ \A q \in Posts \ {p} : post'[q] = post[q] /\ post[q].peer # i
      BY <1>6 DEF Reserve, FreshPeer, GatewayTypeOK, Requests
    <2>2. /\ watcher'[i] = "none" /\ session'[i] = "none"
          /\ \A j \in PeerIds \ {i} : watcher'[j] = watcher[j] /\ session'[j] = session[j]
      BY <1>6 DEF Reserve, GatewayTypeOK
    <2>3. /\ DOMAIN peers' = DOMAIN peers \cup {i} /\ i \notin DOMAIN peers
          /\ peers'[i] = "reserved"
          /\ \A j \in DOMAIN peers \ {i} : peers'[j] = peers[j]
          /\ ~At(p, "reserved")
      BY <1>6, PlaceTaken DEF Reserve, FreshPeer
    <2>4. AdmittedApart'
      BY <1>0, <2>1, <2>2, <2>3
    <2>5. AdmittedPlace'
      BY <1>0, <2>1, <2>2, <2>3
    <2>6. PlaceOwner'
      <3>1. \A j \in DOMAIN peers' \ {i} : peers[j] = "reserved" =>
                \E q \in Posts \ {p} : At(q, "reserved") /\ Admits(q, j)
        BY <2>1, <2>3
      <3>2. QED
        BY <1>0, <2>1, <2>2, <2>3, <3>1
    <2>7. WatchedPlace'
      BY <1>0, <2>1, <2>2, <2>3
    <2>8. QED
      BY <2>4, <2>5, <2>6, <2>7
  <1>7. ASSUME NEW p \in Posts, Abandon(p) PROVE PlacesInv'
    <2> DEFINE i == post[p].peer
    <2>1. /\ At(p, "reserved") /\ Admits(p, i) /\ i \in PeerIds /\ watcher[i] = "none"
          /\ \A q \in Posts \ {p} : ~Admits(q, i)
      BY <1>7 DEF Abandon, GatewayTypeOK
    <2>2. /\ post'[p].stage = "idle"
          /\ \A q \in Posts \ {p} : post'[q] = post[q]
      BY <1>7 DEF Abandon, Finish, Idle, GatewayTypeOK
    <2>3. /\ DOMAIN peers' = DOMAIN peers \ {i}
          /\ \A j \in DOMAIN peers \ {i} : peers'[j] = peers[j]
      BY <1>7, PlaceGiven DEF Abandon
    <2>4. UNCHANGED <<watcher, session>>
      BY <1>7 DEF Abandon
    <2> HIDE DEF i
    <2>5. AdmittedApart'
      BY <1>0, <2>1, <2>2, <2>3, <2>4
    <2>6. AdmittedPlace'
      BY <1>0, <2>1, <2>2, <2>3, <2>4
    <2>7. PlaceOwner'
      <3>1. \A j \in DOMAIN peers' \ {i} : peers[j] = "reserved" =>
                \E q \in Posts \ {p} : At(q, "reserved") /\ Admits(q, j)
        BY <2>1, <2>3
      <3>2. QED
        BY <1>0, <2>1, <2>2, <2>3, <2>4, <3>1
    <2>8. WatchedPlace'
      BY <1>0, <2>1, <2>2, <2>3, <2>4
    <2>9. QED
      BY <2>5, <2>6, <2>7, <2>8
  <1>8. ASSUME NEW p \in Posts, Create(p) PROVE PlacesInv'
    <2> DEFINE i == post[p].peer
    <2>1. /\ At(p, "reserved") /\ Admits(p, i) /\ i \in PeerIds /\ session[i] = "none"
          /\ \A q \in Posts \ {p} : ~Admits(q, i)
      BY <1>8 DEF Create, GatewayTypeOK
    <2>2. /\ post'[p].stage = "created" /\ post'[p].peer = i
          /\ \A q \in Posts \ {p} : post'[q] = post[q]
      BY <1>8 DEF Create, Goto, GatewayTypeOK, Requests
    <2>3. /\ DOMAIN peers' = DOMAIN peers \cup {i}
          /\ peers'[i] = "peer"
          /\ \A j \in DOMAIN peers \ {i} : peers'[j] = peers[j]
      BY <1>8, PlaceFilled
    <2>4. /\ watcher'[i] = "waiting"
          /\ \A j \in PeerIds \ {i} : watcher'[j] = watcher[j]
          /\ UNCHANGED session
      BY <1>8, <2>1 DEF Create, GatewayTypeOK
    <2> HIDE DEF i
    <2>5. AdmittedApart'
      BY <1>0, <2>1, <2>2, <2>3, <2>4
    <2>6. AdmittedPlace'
      BY <1>0, <2>1, <2>2, <2>3, <2>4
    <2>7. PlaceOwner'
      <3>1. \A j \in DOMAIN peers' \ {i} : peers[j] = "reserved" =>
                \E q \in Posts \ {p} : At(q, "reserved") /\ Admits(q, j)
        BY <2>1, <2>3
      <3>2. QED
        BY <1>0, <2>1, <2>2, <2>3, <2>4, <3>1
    <2>8. WatchedPlace'
      BY <1>0, <2>1, <2>2, <2>3, <2>4
    <2>9. QED
      BY <2>5, <2>6, <2>7, <2>8
  <1>9. ASSUME NEW p \in Posts, Open(p) \/ OpenFails(p) PROVE PlacesInv'
    <2> DEFINE i == post[p].peer
    <2>1. /\ At(p, "created") /\ Admits(p, i) /\ i \in PeerIds
          /\ \A q \in Posts \ {p} : ~Admits(q, i)
      BY <1>9 DEF Open, OpenFails, GatewayTypeOK
    <2>2. /\ post'[p].stage = "idle"
          /\ \A q \in Posts \ {p} : post'[q] = post[q]
      BY <1>9 DEF Open, OpenFails, Finish, Idle, GatewayTypeOK
    <2>3. \A j \in PeerIds \ {i} : session'[j] = session[j]
      BY <1>9 DEF Open, OpenFails, GatewayTypeOK, peerVars
    <2>4. UNCHANGED <<peers, watcher>>
      BY <1>9 DEF Open, OpenFails, peerVars
    <2> HIDE DEF i
    <2>5. AdmittedApart'
      BY <1>0, <2>1, <2>2, <2>3, <2>4
    <2>6. AdmittedPlace'
      BY <1>0, <2>1, <2>2, <2>3, <2>4
    <2>7. PlaceOwner'
      <3>1. \A j \in DOMAIN peers' \ {i} : peers[j] = "reserved" =>
                \E q \in Posts \ {p} : At(q, "reserved") /\ Admits(q, j)
        BY <2>1, <2>4
      <3>2. QED
        BY <1>0, <2>1, <2>2, <2>3, <2>4, <3>1
    <2>8. WatchedPlace'
      BY <1>0, <2>1, <2>2, <2>3, <2>4
    <2>9. QED
      BY <2>5, <2>6, <2>7, <2>8
  (* A watcher or the library moves; an admitted request has no session. *)
  <1>10. ASSUME NEW i \in PeerIds, peers' = peers, watcher' \in [PeerIds -> WatcherStates],
                Watched(i), Watched(i)' \/ watcher'[i] = "remove",
                \A j \in PeerIds \ {i} : watcher'[j] = watcher[j],
                \A j \in PeerIds : session[j] = "none" => session'[j] = "none",
                UNCHANGED post
         PROVE  PlacesInv'
    <2>1. \A p \in Posts : ~(At(p, "reserved") /\ Admits(p, i))
      BY <1>10
    <2>2. AdmittedApart' /\ AdmittedPlace'
      BY <1>0, <1>10, <2>1
    <2>3. PlaceOwner'
      BY <1>0, <1>10, <2>1
    <2>4. WatchedPlace'
      BY <1>0, <1>10, <2>1
    <2>5. QED
      BY <2>2, <2>3, <2>4
  <1>11. ASSUME NEW i \in PeerIds, SessionEnds(i) \/ SessionCloses(i) PROVE PlacesInv'
    BY <1>11 DEF SessionEnds, SessionCloses, GatewayTypeOK
  <1>12. ASSUME NEW i \in PeerIds, WatchReady(i) \/ WatchGiveUp(i) \/ WatchStop(i) \/ WatchDone(i)
         PROVE  PlacesInv'
    BY <1>10, <1>12 DEF WatchReady, WatchGiveUp, WatchStop, WatchDone, Watch, Close,
                        GatewayTypeOK, WatcherStates
  <1>13. ASSUME NEW i \in PeerIds, RemovePeer(i) PROVE PlacesInv'
    <2>1. /\ DOMAIN peers' = DOMAIN peers \ {i}
          /\ \A j \in DOMAIN peers \ {i} : peers'[j] = peers[j]
      BY <1>13, PlaceGiven DEF RemovePeer
    <2>2. /\ watcher[i] = "remove" /\ watcher'[i] = "disconnect"
          /\ \A j \in PeerIds \ {i} : watcher'[j] = watcher[j]
      BY <1>13 DEF RemovePeer, Watch, GatewayTypeOK
    <2>3. UNCHANGED <<session, post>>
      BY <1>13 DEF RemovePeer
    <2>4. AdmittedApart'
      BY <1>0, <2>1, <2>2, <2>3
    <2>5. AdmittedPlace'
      BY <1>0, <2>1, <2>2, <2>3
    <2>6. PlaceOwner'
      BY <1>0, <2>1, <2>2, <2>3
    <2>7. WatchedPlace'
      BY <1>0, <2>1, <2>2, <2>3
    <2>8. QED
      BY <2>4, <2>5, <2>6, <2>7
  <1>14. ASSUME NEW i \in PeerIds, Disconnect(i) PROVE PlacesInv'
    BY <1>14 DEF Disconnect, Watch, GatewayTypeOK, WatcherStates
  <1>15. QED
    BY <1>2, <1>3, <1>4, <1>5, <1>6, <1>7, <1>8, <1>9, <1>11, <1>12, <1>13, <1>14
    DEF GatewayNext, Request, Admission, Handling, Watching

LEMMA SessionsStep ==
    ASSUME TypeOK, PlacesInv, SessionsInv, NoResurrection, GatewayNext, UNCHANGED oauthVars
    PROVE  SessionsInv'
  <1> USE DEF TypeOK, At, Admits, Calls, Watched, Past, Admitting, Calling, SessionsInv
  <1> USE DEF CancelledRevoked, Unmade, Orphans, CallsKeepSession, ActivatedOnce, RecipientsStay
  <1>0. revoked' = revoked
    BY DEF oauthVars, worldVars
  (* A request ends, or is still without a peer. *)
  <1>1. ASSUME NEW p \in Posts, post'[p].stage \in {"idle", "verified"},
               \A q \in Posts \ {p} : post'[q] = post[q],
               UNCHANGED <<owner, watcher, cancelled, activated, session, recipients>>
        PROVE  SessionsInv'
    <2>1. CancelledRevoked' /\ Unmade' /\ ActivatedOnce' /\ RecipientsStay'
      BY <1>0, <1>1
    <2>2. Orphans'
      BY <1>0, <1>1
    <2>3. CallsKeepSession'
      BY <1>0, <1>1
    <2>4. QED
      BY <2>1, <2>2, <2>3
  <1>2. ASSUME NEW p \in Posts, NEW c, PostInitialize(p, c) PROVE SessionsInv'
    BY <1>1, <1>2 DEF PostInitialize, peerVars, GatewayTypeOK
  <1>3. ASSUME NEW p \in Posts,
               Overload(p) \/ Abandon(p) \/ OpenFails(p) \/ Refuse(p) \/ Return(p)
        PROVE  SessionsInv'
    BY <1>1, <1>3 DEF Overload, Abandon, OpenFails, Refuse, Return, Finish, Idle, peerVars,
                      GatewayTypeOK
  <1>4. ASSUME NEW p \in Posts, NEW i \in PeerIds, PostCall(p, i) PROVE SessionsInv'
    <2>1. owner[i] \notin revoked
      BY <1>4, OAuthAssumption DEF PostCall, Principals, Valid, NoResurrection, OAuthTypeOK, Drawable
    <2>2. /\ post'[p].stage = "calling" /\ post'[p].peer = i
          /\ \A q \in Posts \ {p} : post'[q] = post[q]
      BY <1>4 DEF PostCall, GatewayTypeOK
    <2>3. UNCHANGED <<owner, watcher, cancelled, activated, session, recipients>>
      BY <1>4 DEF PostCall, peerVars
    <2>4. session[i] = "open" /\ ~Past(i)
      BY <1>4, <2>1 DEF PostCall
    <2>5. CancelledRevoked' /\ Unmade' /\ ActivatedOnce' /\ RecipientsStay'
      BY <1>0, <2>3
    <2>6. Orphans'
      BY <1>0, <2>2, <2>3
    <2>7. CallsKeepSession'
      BY <2>2, <2>3, <2>4
    <2>8. QED
      BY <2>5, <2>6, <2>7
  <1>5. ASSUME NEW p \in Posts, NEW i \in PeerIds, Reserve(p, i) PROVE SessionsInv'
    <2>1. /\ post'[p].stage = "reserved" /\ post'[p].peer = i
          /\ \A q \in Posts \ {p} : post'[q] = post[q] /\ post[q].peer # i
      BY <1>5 DEF Reserve, FreshPeer, GatewayTypeOK, Requests
    <2>2. /\ watcher'[i] = "none" /\ session'[i] = "none"
          /\ \A j \in PeerIds \ {i} : /\ watcher'[j] = watcher[j]
                                      /\ session'[j] = session[j]
                                      /\ owner'[j] = owner[j]
      BY <1>5 DEF Reserve, GatewayTypeOK
    <2>3. /\ cancelled' = cancelled \ {i}
          /\ activated' = activated \ {i}
          /\ recipients' = recipients /\ i \notin recipients
      BY <1>5 DEF Reserve, FreshPeer
    <2>4. cancelled \cup activated \cup recipients \subseteq PeerIds
      BY DEF GatewayTypeOK
    <2>5. CancelledRevoked' /\ Unmade' /\ ActivatedOnce' /\ RecipientsStay'
      BY <1>0, <2>2, <2>3, <2>4
    <2>6. Orphans'
      BY <1>0, <2>1, <2>2
    <2>7. CallsKeepSession'
      BY <2>1, <2>2, <2>3
    <2>8. QED
      BY <2>5, <2>6, <2>7
  <1>6. ASSUME NEW p \in Posts, Create(p) PROVE SessionsInv'
    <2>1. PICK i \in PeerIds : i = post[p].peer /\ Admits(p, i)
      BY <1>6 DEF Create, GatewayTypeOK
    <2>2. watcher[i] = "none" /\ session[i] = "none"
      BY <1>6, <2>1 DEF Create, PlacesInv, AdmittedPlace
    <2>3. /\ post'[p].stage = "created" /\ post'[p].peer = i
          /\ \A q \in Posts \ {p} : post'[q] = post[q]
      BY <1>6, <2>1 DEF Create, Goto, GatewayTypeOK, Requests
    <2>4. /\ watcher'[i] = "waiting"
          /\ \A j \in PeerIds \ {i} : watcher'[j] = watcher[j] /\ owner'[j] = owner[j]
          /\ UNCHANGED <<session, cancelled, activated, recipients>>
      BY <1>6, <2>1 DEF Create, GatewayTypeOK
    <2>5. cancelled \cup activated \cup recipients \subseteq PeerIds
      BY DEF GatewayTypeOK
    <2>6. CancelledRevoked' /\ Unmade' /\ ActivatedOnce' /\ RecipientsStay'
      BY <1>0, <2>2, <2>4, <2>5
    <2>7. Orphans'
      BY <1>0, <2>1, <2>2, <2>3, <2>4
    <2>8. CallsKeepSession'
      BY <2>1, <2>2, <2>3, <2>4
    <2>9. QED
      BY <2>6, <2>7, <2>8
  <1>7. ASSUME NEW p \in Posts, Open(p) PROVE SessionsInv'
    <2>1. PICK i \in PeerIds : i = post[p].peer /\ Admits(p, i)
      BY <1>7 DEF Open, GatewayTypeOK
    <2>2. watcher[i] # "none" /\ session[i] = "none"
      BY <1>7, <2>1 DEF Open, PlacesInv, AdmittedPlace
    <2>3. /\ post'[p].stage = "idle"
          /\ \A q \in Posts \ {p} : post'[q] = post[q]
      BY <1>7 DEF Open, Finish, Idle, GatewayTypeOK
    <2>4. /\ session'[i] = "open"
          /\ \A j \in PeerIds \ {i} : session'[j] = session[j]
          /\ UNCHANGED <<owner, watcher, cancelled, activated, recipients>>
      BY <1>7, <2>1 DEF Open, GatewayTypeOK
    <2>5. CancelledRevoked' /\ Unmade' /\ ActivatedOnce' /\ RecipientsStay'
      BY <1>0, <2>2, <2>4
    <2>6. Orphans'
      BY <1>0, <2>1, <2>3, <2>4
    <2>7. CallsKeepSession'
      BY <2>2, <2>3, <2>4
    <2>8. QED
      BY <2>5, <2>6, <2>7
  <1>8. ASSUME NEW p \in Posts, Serve(p) PROVE SessionsInv'
    <2>1. PICK i \in PeerIds : i = post[p].peer /\ Calls(p, i)
      BY <1>8 DEF Serve, GatewayTypeOK
    <2>2. session[i] = "open" /\ ~Past(i) /\ watcher[i] # "none"
      BY <1>8, <2>1 DEF Serve
    <2>3. /\ post'[p].stage = "serving" /\ post'[p].peer = i
          /\ \A q \in Posts \ {p} : post'[q] = post[q]
      BY <1>8, <2>1 DEF Serve, Goto, GatewayTypeOK, Requests
    <2>4. /\ activated' = activated \cup {i}
          /\ recipients' = recipients \cup {i}
          /\ UNCHANGED <<owner, watcher, cancelled, session>>
      BY <1>8, <2>1, <2>2 DEF Serve
    <2>5. CancelledRevoked' /\ Unmade' /\ ActivatedOnce' /\ RecipientsStay'
      BY <1>0, <2>2, <2>4
    <2>6. Orphans'
      BY <1>0, <2>3, <2>4
    <2>7. CallsKeepSession'
      BY <2>2, <2>3, <2>4
    <2>8. QED
      BY <2>5, <2>6, <2>7
  <1>9. ASSUME NEW i \in PeerIds, SessionEnds(i) \/ SessionCloses(i) PROVE SessionsInv'
    <2>1. /\ session[i] \in {"open", "closing"} /\ session'[i] \in {"closing", "closed"}
          /\ session'[i] = "closed" => \A p \in Posts : At(p, "serving") => post[p].peer # i
          /\ \A j \in PeerIds \ {i} : session'[j] = session[j]
          /\ UNCHANGED <<owner, watcher, cancelled, activated, recipients, post>>
      BY <1>9 DEF SessionEnds, SessionCloses, GatewayTypeOK
    <2>2. CancelledRevoked' /\ Unmade' /\ ActivatedOnce' /\ RecipientsStay'
      BY <1>0, <2>1
    <2>3. Orphans'
      BY <1>0, <2>1
    <2>4. CallsKeepSession'
      BY <2>1
    <2>5. QED
      BY <2>2, <2>3, <2>4
  (* The watcher moves on, and starts to close the session or finds it over. *)
  <1>10. ASSUME NEW i \in PeerIds, Watched(i),
                watcher'[i] \in {"watching", "closing", "remove"},
                session'[i] = session[i] \/ (session[i] = "open" /\ session'[i] = "closing"),
                watcher'[i] = "remove" =>
                    \/ session[i] = "none" /\ (i \in cancelled \/ \A p \in Posts : ~Admits(p, i))
                    \/ session[i] = "closed",
                \A j \in PeerIds \ {i} : watcher'[j] = watcher[j] /\ session'[j] = session[j],
                UNCHANGED <<owner, cancelled, activated, recipients, post>>
         PROVE  SessionsInv'
    <2>1. CancelledRevoked' /\ Unmade' /\ ActivatedOnce' /\ RecipientsStay'
      BY <1>0, <1>10 DEF GatewayTypeOK
    <2>2. Orphans'
      <3>1. ASSUME NEW p \in Posts, Admits(p, i) PROVE session[i] = "none"
        BY <3>1 DEF PlacesInv, AdmittedPlace
      <3>2. QED
        BY <1>0, <1>10, <3>1
    <2>3. CallsKeepSession'
      BY <1>10
    <2>4. QED
      BY <2>1, <2>2, <2>3
  <1>11. ASSUME NEW i \in PeerIds, WatchReady(i) \/ WatchStop(i) \/ WatchDone(i)
         PROVE  SessionsInv'
    BY <1>10, <1>11 DEF WatchReady, WatchStop, WatchDone, Watch, Close, GatewayTypeOK
  <1>12. ASSUME NEW i \in PeerIds, WatchGiveUp(i) PROVE SessionsInv'
    <2>1. watcher[i] = "waiting"
      BY <1>12 DEF WatchGiveUp, Watch
    <2>2. i \in cancelled \/ \A p \in Posts : ~Admits(p, i)
      BY <1>12, <2>1 DEF WatchGiveUp, PlacesInv, AdmittedPlace
    <2>3. QED
      BY <1>10, <1>12, <2>1, <2>2 DEF WatchGiveUp, Watch, Close, GatewayTypeOK
  <1>13. ASSUME NEW i \in PeerIds, RemovePeer(i) PROVE SessionsInv'
    <2>1. /\ watcher[i] = "remove" /\ watcher'[i] = "disconnect"
          /\ \A j \in PeerIds \ {i} : watcher'[j] = watcher[j]
          /\ UNCHANGED <<owner, cancelled, activated, session, recipients, post>>
      BY <1>13 DEF RemovePeer, Watch, GatewayTypeOK
    <2>2. CancelledRevoked' /\ Unmade' /\ ActivatedOnce' /\ RecipientsStay'
      BY <1>0, <2>1 DEF GatewayTypeOK
    <2>3. Orphans'
      BY <1>0, <2>1
    <2>4. CallsKeepSession'
      BY <2>1
    <2>5. QED
      BY <2>2, <2>3, <2>4
  <1>14. ASSUME NEW i \in PeerIds, Disconnect(i) PROVE SessionsInv'
    <2>1. /\ watcher[i] = "disconnect" /\ watcher'[i] = "done"
          /\ \A j \in PeerIds \ {i} : watcher'[j] = watcher[j]
          /\ recipients' = recipients \ {i}
          /\ UNCHANGED <<owner, cancelled, activated, session, post>>
      BY <1>14 DEF Disconnect, Watch, GatewayTypeOK
    <2>2. CancelledRevoked' /\ Unmade' /\ ActivatedOnce' /\ RecipientsStay'
      BY <1>0, <2>1 DEF GatewayTypeOK
    <2>3. Orphans'
      BY <1>0, <2>1
    <2>4. CallsKeepSession'
      BY <2>1
    <2>5. QED
      BY <2>2, <2>3, <2>4
  <1>15. QED
    BY <1>2, <1>3, <1>4, <1>5, <1>6, <1>7, <1>8, <1>9, <1>11, <1>12, <1>13, <1>14
    DEF GatewayNext, Request, Admission, Handling, Watching

LEMMA MissedStep ==
    ASSUME TypeOK, PlacesInv, SessionsInv, MissedInv, NoResurrection, GatewayNext, UNCHANGED oauthVars
    PROVE  MissedInv'
  <1> USE DEF TypeOK, At, Admits, Calls, Watched, Admitting, Calling, MissedInv
  <1>0. UNCHANGED <<revoked, revoker>> /\ (\A c : Telling(c)' <=> Telling(c))
    BY DEF oauthVars, worldVars, Telling
  (* No peer is made and no call comes. *)
  <1>1. ASSUME \A i \in PeerIds : Watched(i)' => Watched(i) /\ owner'[i] = owner[i],
               cancelled \subseteq cancelled', recipients' \subseteq recipients,
               \A p \in Posts : \A i \in PeerIds : Calls(p, i)' => Calls(p, i)
        PROVE  MissedInv'
    BY <1>0, <1>1
  <1>2. ASSUME NEW p \in Posts, NEW c, PostInitialize(p, c) PROVE MissedInv'
    BY <1>1, <1>2 DEF PostInitialize, peerVars, GatewayTypeOK
  <1>3. ASSUME NEW p \in Posts,
               Overload(p) \/ Abandon(p) \/ Open(p) \/ OpenFails(p) \/ Refuse(p) \/ Return(p)
        PROVE  MissedInv'
    BY <1>1, <1>3 DEF Overload, Abandon, Open, OpenFails, Refuse, Return, Finish, Idle, peerVars,
                      GatewayTypeOK
  <1>4. ASSUME NEW p \in Posts, NEW i \in PeerIds, PostCall(p, i) PROVE MissedInv'
    <2>1. owner[i] \notin revoked
      BY <1>4, OAuthAssumption DEF PostCall, Principals, Valid, NoResurrection, OAuthTypeOK, Drawable
    <2>2. /\ post'[p].peer = i
          /\ \A q \in Posts \ {p} : post'[q] = post[q]
      BY <1>4 DEF PostCall, GatewayTypeOK
    <2>3. UNCHANGED <<owner, watcher, cancelled, recipients>>
      BY <1>4 DEF PostCall, peerVars
    <2>4. QED
      BY <1>0, <2>1, <2>2, <2>3
  <1>5. ASSUME NEW p \in Posts, NEW i \in PeerIds, Reserve(p, i) PROVE MissedInv'
    <2>1. /\ post'[p].stage = "reserved"
          /\ \A q \in Posts \ {p} : post'[q] = post[q]
      BY <1>5 DEF Reserve, GatewayTypeOK, Requests
    <2>2. /\ watcher'[i] = "none"
          /\ \A j \in PeerIds \ {i} : watcher'[j] = watcher[j] /\ owner'[j] = owner[j]
          /\ cancelled' = cancelled \ {i}
          /\ recipients' = recipients
      BY <1>5 DEF Reserve, GatewayTypeOK
    <2>3. QED
      BY <1>0, <2>1, <2>2
  <1>6. ASSUME NEW p \in Posts, Create(p) PROVE MissedInv'
    <2>1. PICK i \in PeerIds : i = post[p].peer /\ Admits(p, i)
      BY <1>6 DEF Create, GatewayTypeOK
    <2>2. watcher[i] = "none" /\ session[i] = "none"
      BY <1>6, <2>1 DEF Create, PlacesInv, AdmittedPlace
    <2>3. i \notin recipients /\ \A q \in Posts : ~Calls(q, i)
      BY <2>2 DEF SessionsInv, Unmade, CallsKeepSession
    <2>4. /\ post'[p].stage = "created"
          /\ \A q \in Posts \ {p} : post'[q] = post[q]
      BY <1>6, <2>1 DEF Create, Goto, GatewayTypeOK, Requests
    <2>5. /\ \A j \in PeerIds \ {i} : watcher'[j] = watcher[j] /\ owner'[j] = owner[j]
          /\ UNCHANGED <<cancelled, recipients>>
      BY <1>6, <2>1 DEF Create, GatewayTypeOK
    <2>6. QED
      BY <1>0, <2>1, <2>3, <2>4, <2>5
  <1>7. ASSUME NEW p \in Posts, Serve(p) PROVE MissedInv'
    <2>1. PICK i \in PeerIds : i = post[p].peer /\ Calls(p, i)
      BY <1>7 DEF Serve, GatewayTypeOK
    <2>2. /\ post'[p].peer = i
          /\ \A q \in Posts \ {p} : post'[q] = post[q]
      BY <1>7, <2>1 DEF Serve, Goto, GatewayTypeOK, Requests
    <2>3. /\ recipients' \subseteq recipients \cup {i}
          /\ UNCHANGED <<owner, watcher, cancelled>>
      BY <1>7, <2>1 DEF Serve
    <2>4. QED
      BY <1>0, <2>1, <2>2, <2>3
  <1>8. ASSUME NEW i \in PeerIds, SessionEnds(i) \/ SessionCloses(i) PROVE MissedInv'
    BY <1>1, <1>8 DEF SessionEnds, SessionCloses
  <1>9. ASSUME NEW i \in PeerIds, Watching(i) PROVE MissedInv'
    <2>1. /\ watcher[i] = "waiting" \/ watcher[i] = "watching" \/ ~Watched(i)' \/ Watched(i)
          /\ \A j \in PeerIds \ {i} : watcher'[j] = watcher[j]
          /\ Watched(i)' => Watched(i)
          /\ UNCHANGED <<owner, cancelled, post>>
          /\ recipients' \subseteq recipients
      BY <1>9 DEF Watching, WatchReady, WatchGiveUp, WatchStop, WatchDone, RemovePeer, Disconnect,
                  Watch, GatewayTypeOK
    <2>2. QED
      BY <1>1, <2>1
  <1>10. QED
    BY <1>2, <1>3, <1>4, <1>5, <1>6, <1>7, <1>8, <1>9
    DEF GatewayNext, Request, Admission, Handling

(* What a step of the provider does to revocations.                        *)
LEMMA RevocationStep ==
    ASSUME OAuthTypeOK, OAuthNext
    PROVE  /\ revoked \subseteq revoked'
           /\ \A c : Telling(c) => Telling(c)'
           /\ \A c \in revoked' \ revoked : Telling(c)'
  <1> DEFINE Goal == /\ revoked \subseteq revoked'
                     /\ \A c : Telling(c) => Telling(c)'
                     /\ \A c \in revoked' \ revoked : Telling(c)'
  <1>1. ASSUME UNCHANGED <<revoker, revoked>> PROVE Goal
    BY <1>1 DEF Telling
  <1>2. ASSUME NEW v \in Revokers, NEW id, Start(v, id), UNCHANGED revoked PROVE Goal
    BY <1>2 DEF Start, Telling, OAuthTypeOK
  <1>3. ASSUME NEW v \in Revokers, DropFamily(v) PROVE Goal
    <2>1. revoker[v] # None /\ revoker[v] \in Revocations
      BY <1>3 DEF DropFamily, OAuthTypeOK
    <2>2. /\ revoked' = revoked \cup {revoker[v].id}
          /\ revoker' = [revoker EXCEPT ![v].stage = "tell"]
      BY <1>3 DEF DropFamily
    <2>3. revoker'[v] \in Revocations /\ revoker'[v].id = revoker[v].id
      BY <2>1, <2>2 DEF OAuthTypeOK, Revocations
    <2>4. revoker'[v] # None
      BY <2>3, OAuthAssumption
    <2>5. \A w \in Revokers \ {v} : revoker'[w] = revoker[w]
      BY <2>2 DEF OAuthTypeOK
    <2>6. QED
      BY <2>1, <2>2, <2>3, <2>4, <2>5 DEF Telling
  <1> HIDE DEF Goal
  <1>4. ASSUME NEW v \in Revokers, NEW f \in Refreshes, Reuse(v, f) PROVE Goal
    BY <1>4, <1>2 DEF Reuse, worldVars
  <1>5. ASSUME NEW v \in Revokers, NEW c \in Conns, Revoke(v, c) PROVE Goal
    BY <1>5, <1>2 DEF Revoke, worldVars
  <1>6. Goal
    BY <1>1, <1>3, <1>4, <1>5
    DEF OAuthNext, Register, CleanUp, Authorize, Deny, Approve, Continue, Exchange, Refresh, Age,
        worldVars
  <1>7. QED
    BY <1>6 DEF Goal

LEMMA TellStep ==
    ASSUME TypeOK, PlacesInv, SessionsInv, MissedInv, FamiliesKnown,
           NEW v \in Revokers, TellGateway(v)
    PROVE  PlacesInv' /\ SessionsInv' /\ MissedInv'
  <1> USE DEF TypeOK
  <1>1. /\ revoker[v] # None /\ revoker[v].stage = "tell" /\ revoker[v].id \in revoked
        /\ revoker'[v] = None /\ \A w \in Revokers \ {v} : revoker'[w] = revoker[w]
    BY DEF TellGateway, Told, FamiliesKnown, OAuthTypeOK
  <1>2. UNCHANGED <<peers, owner, watcher, activated, session, recipients, post, revoked>>
    BY DEF TellGateway, worldVars
  <1>3. \A i \in PeerIds :
           i \in cancelled' <=>
               i \in cancelled \/ (i \in DOMAIN peers /\ peers[i] = "peer" /\ owner[i] = revoker[v].id)
    BY DEF TellGateway
  <1>4. PlacesInv'
    BY <1>2 DEF PlacesInv, AdmittedApart, AdmittedPlace, PlaceOwner, WatchedPlace, Watched, Admits, At
  <1>5. SessionsInv'
    <2>1. CancelledRevoked'
      <3>1. cancelled' \subseteq PeerIds
        BY TellType DEF GatewayTypeOK
      <3>2. QED
        BY <1>1, <1>2, <1>3, <3>1 DEF SessionsInv, CancelledRevoked
    <2>2. Unmade'
      <3>1. \A i \in DOMAIN peers : watcher[i] = "none" => peers[i] # "peer"
        BY DEF PlacesInv, PlaceOwner, Watched
      <3>2. QED
        BY <1>2, <1>3, <3>1 DEF SessionsInv, Unmade
    <2>3. Orphans' /\ CallsKeepSession' /\ ActivatedOnce' /\ RecipientsStay'
      BY <1>2 DEF SessionsInv, Orphans, CallsKeepSession, ActivatedOnce, RecipientsStay, Past,
                  Admits, Calls, At
    <2>4. QED
      BY <2>1, <2>2, <2>3 DEF SessionsInv
  <1>6. MissedInv'
    <2>1. \A c : Telling(c) => Telling(c)' \/ c = revoker[v].id
      BY <1>1 DEF Telling
    <2>2. \A i \in PeerIds : Watched(i) => i \in DOMAIN peers /\ peers[i] = "peer"
      BY DEF PlacesInv, WatchedPlace
    <2>3. QED
      BY <1>2, <1>3, <2>1, <2>2 DEF MissedInv, Watched, Calls
  <1>7. QED
    BY <1>4, <1>5, <1>6

LEMMA ProviderStep ==
    ASSUME TypeOK, PlacesInv, SessionsInv, MissedInv, OAuthNext, UNCHANGED gatewayVars
    PROVE  PlacesInv' /\ SessionsInv' /\ MissedInv'
  <1>1. /\ revoked \subseteq revoked'
        /\ \A c : Telling(c) => Telling(c)'
        /\ \A c \in revoked' \ revoked : Telling(c)'
    BY RevocationStep DEF TypeOK
  <1>2. UNCHANGED <<peers, owner, watcher, cancelled, activated, session, recipients, post>>
    BY DEF gatewayVars, peerVars
  <1>3. PlacesInv'
    BY <1>2 DEF PlacesInv, AdmittedApart, AdmittedPlace, PlaceOwner, WatchedPlace, Watched, Admits, At
  <1>4. SessionsInv'
    BY <1>1, <1>2 DEF SessionsInv, CancelledRevoked, Unmade, Orphans, CallsKeepSession,
                      ActivatedOnce, RecipientsStay, Past, Admits, Calls, At
  <1>5. MissedInv'
    BY <1>1, <1>2 DEF MissedInv, Watched, Calls
  <1>6. QED
    BY <1>3, <1>4, <1>5

LEMMA GatewayStart == Init => GatewayInv
  BY DEF Init, OAuthInit, Empty, Idle, GatewayInv, PlacesInv, AdmittedApart, AdmittedPlace, PlaceOwner,
         WatchedPlace, SessionsInv, CancelledRevoked, Unmade, Orphans, CallsKeepSession,
         ActivatedOnce, RecipientsStay, MissedInv, Watched, Past, Admits, Calls, At, Admitting, Calling

LEMMA GatewayStep ==
    ASSUME TypeOK, OAuthInv, GatewayInv, [Next]_vars
    PROVE  GatewayInv'
  <1> USE DEF GatewayInv
  <1>1. CASE OAuthNext /\ UNCHANGED gatewayVars
    BY <1>1, ProviderStep
  <1>2. CASE GatewayNext /\ UNCHANGED oauthVars
    BY <1>2, PlacesStep, SessionsStep, MissedStep DEF OAuthInv
  <1>3. ASSUME NEW v \in Revokers, TellGateway(v) PROVE GatewayInv'
    BY <1>3, TellStep DEF OAuthInv
  <1>4. CASE UNCHANGED vars
    <2>1. UNCHANGED <<peers, owner, watcher, cancelled, activated, session, recipients, post,
                      revoked, revoker>>
      BY <1>4 DEF vars, oauthVars, worldVars, gatewayVars, peerVars
    <2>2. PlacesInv'
      BY <2>1 DEF PlacesInv, AdmittedApart, AdmittedPlace, PlaceOwner, WatchedPlace, Watched,
                  Admits, At
    <2>3. SessionsInv'
      BY <2>1 DEF SessionsInv, CancelledRevoked, Unmade, Orphans, CallsKeepSession,
                  ActivatedOnce, RecipientsStay, Past, Admits, Calls, At
    <2>4. MissedInv'
      BY <2>1 DEF MissedInv, Watched, Calls, Telling
    <2>5. QED
      BY <2>2, <2>3, <2>4
  <1>5. QED
    BY <1>1, <1>2, <1>3, <1>4, FourKinds

LEMMA GatewayInvariant == Spec => [](TypeOK /\ OAuthInv /\ GatewayInv)
  <1>1. TypeOK /\ OAuthInv /\ GatewayInv /\ [Next]_vars => GatewayInv'
    BY GatewayStep
  <1>2. QED
    BY <1>1, GatewayStart, ProviderInvariant, PTL DEF Spec
-----------------------------------------------------------------------------
(* The bounds.                                                             *)

LEMMA Shrunk ==
    ASSUME NEW S, IsFiniteSet(S), NEW R \in SUBSET S, NEW n \in Nat, Cardinality(S) <= n
    PROVE  Cardinality(R) <= n
  BY FS_Subset, FS_CardinalityType

LEMMA Grown ==
    ASSUME NEW S, IsFiniteSet(S), NEW k, NEW n \in Nat, Cardinality(S) < n
    PROVE  Cardinality(S \cup {k}) <= n
  <1>1. Cardinality(S) \in Nat
    BY FS_CardinalityType
  <1>2. Cardinality(S \cup {k}) \in {Cardinality(S), Cardinality(S) + 1}
    BY FS_AddElement
  <1>3. QED
    BY <1>1, <1>2

LEMMA TablesFinite ==
    ASSUME OAuthTypeOK
    PROVE  /\ IsFiniteSet(DOMAIN apps)
           /\ IsFiniteSet(DOMAIN pending) /\ IsFiniteSet(DOMAIN LivePending)
           /\ IsFiniteSet(DOMAIN codes) /\ IsFiniteSet(DOMAIN LiveCodes)
           /\ IsFiniteSet(DOMAIN tokens) /\ IsFiniteSet(DOMAIN LiveTokens)
  <1>1. /\ DOMAIN apps \subseteq Apps
        /\ DOMAIN pending \subseteq Drawable /\ DOMAIN LivePending \subseteq Drawable
        /\ DOMAIN codes \subseteq Drawable /\ DOMAIN LiveCodes \subseteq Drawable
        /\ DOMAIN tokens \subseteq Drawable /\ DOMAIN LiveTokens \subseteq Drawable
    BY LiveMap DEF OAuthTypeOK, IsMap, Drawable
  <1>2. QED
    BY <1>1, FS_Subset, OAuthAssumption

LEMMA LimitsStep ==
    ASSUME OAuthTypeOK, LimitsHold, OAuthNext
    PROVE  LimitsHold'
  <1> USE OAuthAssumption, TablesFinite DEF LimitsHold
  <1>1. Cardinality(DOMAIN apps') <= MaxApps
    <2>1. ASSUME NEW a \in Apps, NEW b \in BOOLEAN, Register(a, b)
          PROVE  Cardinality(DOMAIN apps') <= MaxApps
      <3>1. DOMAIN apps' = DOMAIN apps \cup {a} /\ Cardinality(DOMAIN apps) < MaxApps
        BY <2>1 DEF Register, Put
      <3>2. QED
        BY <3>1, Grown
    <2>2. CASE UNCHANGED apps
      BY <2>2
    <2>3. QED
      BY <2>1, <2>2
      DEF OAuthNext, CleanUp, Authorize, Deny, Approve, Continue, Exchange, Refresh, Reuse, Revoke,
          DropFamily, Age, tableVars
  <1> DEFINE Keeps == /\ Cardinality(DOMAIN pending') <= MaxPending
                      /\ Cardinality(DOMAIN codes') <= MaxCodes
  <1>2. Keeps
    <2>1. ASSUME DOMAIN pending' \subseteq DOMAIN pending, DOMAIN codes' \subseteq DOMAIN codes
          PROVE  Keeps
      BY <2>1, Shrunk
    <2>2. ASSUME NEW a \in Apps, Authorize(a) PROVE Keeps
      <3>1. PICK q : DOMAIN pending' = DOMAIN pending \cup {q}
        BY <2>2, AuthorizeMap
      <3>2. Cardinality(DOMAIN pending) < MaxPending /\ codes' = codes
        BY <2>2 DEF Authorize
      <3>3. Cardinality(DOMAIN pending') <= MaxPending
        BY <3>1, <3>2, Grown
      <3>4. QED
        BY <3>2, <3>3
    <2>3. ASSUME NEW q \in Auths, Approve(q) PROVE Keeps
      <3>1. PICK d : /\ DOMAIN pending' = DOMAIN LivePending
                     /\ DOMAIN codes' = DOMAIN LiveCodes \cup {d}
        BY <2>3, ApproveMap
      <3>2. Cardinality(DOMAIN LiveCodes) < MaxCodes
        BY <2>3 DEF Approve
      <3>3. DOMAIN LivePending \subseteq DOMAIN pending
        BY LiveMap
      <3>4. Cardinality(DOMAIN pending') <= MaxPending
        BY <3>1, <3>3, Shrunk
      <3>5. Cardinality(DOMAIN codes') <= MaxCodes
        BY <3>1, <3>2, Grown
      <3>6. QED
        BY <3>4, <3>5
    <2>4. ASSUME NEW d \in Codes, Exchange(d) PROVE Keeps
      <3>1. DOMAIN pending' \subseteq DOMAIN pending
        BY <2>4, LiveMap DEF Exchange
      <3>2. DOMAIN codes' \subseteq DOMAIN codes
        BY <2>4, ExchangeMap
      <3>3. QED
        BY <2>1, <3>1, <3>2
    <2> HIDE DEF Keeps
    <2>5. QED
      BY <2>1, <2>2, <2>3, <2>4, CodeSteps
  <1>3. Cardinality(DOMAIN tokens') <= MaxTokens
    <2>1. ASSUME NEW S, tokens' = TokensWithout(S)
          PROVE  Cardinality(DOMAIN tokens') <= MaxTokens
      <3>1. DOMAIN tokens' \subseteq DOMAIN tokens
        BY <2>1, WithoutMap
      <3>2. QED
        BY <3>1, Shrunk
    <2>2. ASSUME NEW n, NEW old, Issued(n, old), Cardinality(DOMAIN LiveTokens) < MaxTokens
          PROVE  Cardinality(DOMAIN tokens') <= MaxTokens
      <3>1. PICK x : DOMAIN tokens' = DOMAIN LiveTokens \cup {x}
        BY <2>2 DEF Issued
      <3>2. QED
        BY <2>2, <3>1, Grown
    <2>3. ASSUME NEW d \in Codes, Exchange(d) PROVE Cardinality(DOMAIN tokens') <= MaxTokens
      <3>1. Cardinality(DOMAIN LiveTokens) < MaxTokens
        BY <2>3 DEF Exchange
      <3>2. \E n : Issued(n, LiveRefresh)
        BY <2>3, ExchangeMap
      <3>3. QED
        BY <2>2, <3>1, <3>2
    <2>4. ASSUME NEW f \in Refreshes, Refresh(f) PROVE Cardinality(DOMAIN tokens') <= MaxTokens
      <3>1. Cardinality(DOMAIN LiveTokens) < MaxTokens
        BY <2>4 DEF Refresh
      <3>2. \E n, old : Issued(n, old)
        BY <2>4, RefreshMap
      <3>3. QED
        BY <2>2, <3>1, <3>2
    <2>5. QED
      BY <2>1, <2>3, <2>4, TokenSteps
  <1>4. QED
    BY <1>1, <1>2, <1>3

(* The documented bounds on registrations, authorizations, codes and       *)
(* access tokens hold whatever expires between the sections that look.     *)
THEOREM TablesBounded == Spec => []LimitsHold
  <1>1. Init => LimitsHold
    BY FS_EmptySet, OAuthAssumption DEF Init, OAuthInit, Empty, LimitsHold
  <1>2. TypeOK /\ LimitsHold /\ [Next]_vars => LimitsHold'
    <2>1. ASSUME TypeOK, LimitsHold, UNCHANGED tableVars PROVE LimitsHold'
      BY <2>1 DEF tableVars, LimitsHold
    <2>2. QED
      BY <2>1, LimitsStep, FourKinds DEF TypeOK, oauthVars, vars, TellGateway
  <1>3. QED
    BY <1>1, <1>2, TypeCorrect, PTL DEF Spec

(* There are never more than MaxPeers peers and reservations: newServer    *)
(* fills the place that admitMCP took.                                     *)
THEOREM PlacesBounded == Spec => []PeersBounded
  <1>1. Init => PeersBounded
    BY FS_EmptySet, GatewayAssumption DEF Init, Empty, PeersBounded
  <1>2. TypeOK /\ GatewayInv /\ PeersBounded /\ [Next]_vars => PeersBounded'
    <2>1. SUFFICES ASSUME TypeOK, GatewayInv, PeersBounded, [Next]_vars PROVE PeersBounded'
      OBVIOUS
    <2>2. IsFiniteSet(DOMAIN peers)
      <3>1. DOMAIN peers \subseteq PeerIds
        BY <2>1 DEF TypeOK, GatewayTypeOK, IsMap
      <3>2. QED
        BY <3>1, FS_Subset, GatewayAssumption
    <2>3. ASSUME DOMAIN peers' \subseteq DOMAIN peers PROVE PeersBounded'
      BY <2>1, <2>2, <2>3, Shrunk, GatewayAssumption DEF PeersBounded
    <2>4. ASSUME NEW p \in Posts, NEW i \in PeerIds, Reserve(p, i) PROVE PeersBounded'
      <3>1. DOMAIN peers' = DOMAIN peers \cup {i} /\ Cardinality(DOMAIN peers) < MaxPeers
        BY <2>1, <2>4, PlaceTaken DEF Reserve
      <3>2. QED
        BY <2>2, <3>1, Grown, GatewayAssumption DEF PeersBounded
    <2>5. ASSUME NEW p \in Posts, Create(p) PROVE PeersBounded'
      <3>1. PICK i \in PeerIds : i = post[p].peer /\ Admits(p, i)
        BY <2>1, <2>5 DEF Create, At, Admits, Admitting, TypeOK, GatewayTypeOK
      <3>2. i \in DOMAIN peers
        BY <2>1, <2>5, <3>1 DEF Create, GatewayInv, PlacesInv, AdmittedPlace
      <3>3. QED
        BY <2>1, <2>3, <2>5, <3>1, <3>2, PlaceFilled
    <2>6. ASSUME NEW i, peers' = Restrict(peers, DOMAIN peers \ {i}) PROVE PeersBounded'
      BY <2>1, <2>3, <2>6, PlaceGiven
    <2>7. CASE UNCHANGED peers
      BY <2>3, <2>7
    <2>8. QED
      BY <2>1, <2>4, <2>5, <2>6, <2>7
      DEF Next, Request, Admission, Handling, Watching, PostInitialize, PostCall, Overload, Abandon,
          Open, OpenFails, Serve, Refuse, Return, SessionEnds, SessionCloses, WatchReady, WatchGiveUp,
          WatchStop, WatchDone, RemovePeer, Disconnect, TellGateway, vars, gatewayVars, peerVars
  <1>3. QED
    BY <1>1, <1>2, GatewayInvariant, PTL DEF Spec
-----------------------------------------------------------------------------
LEMMA RecipientsLeave == TypeOK /\ GatewayInv => RevokedNotRecipients
  BY DEF TypeOK, GatewayTypeOK, GatewayInv, SessionsInv, Unmade, RecipientsStay, MissedInv,
         Watched, RevokedNotRecipients, WatcherStates

(* Once the revocation of a connection has returned, its clients that the  *)
(* broker still knows are on their way out.                                *)
THEOREM RevokedOnTheWayOut == Spec => []RevokedNotRecipients
  BY RecipientsLeave, GatewayInvariant, PTL

LEMMA ServedAreWatched == TypeOK /\ GatewayInv => RecipientsWatched
  <1>1. SUFFICES ASSUME TypeOK, GatewayInv PROVE RecipientsWatched
    OBVIOUS
  <1>2. ASSUME NEW p \in Posts, At(p, "serving")
        PROVE  post[p].peer \in recipients /\ Watched(post[p].peer)
    <2>1. PICK i \in PeerIds : i = post[p].peer /\ Calls(p, i)
      BY <1>1, <1>2 DEF TypeOK, GatewayTypeOK, At, Calls, Calling
    <2>2. session[i] # "none" /\ ~Past(i) /\ i \in activated
      BY <1>1, <1>2, <2>1 DEF GatewayInv, SessionsInv, CallsKeepSession, At
    <2>3. Watched(i)
      BY <1>1, <2>2 DEF GatewayInv, SessionsInv, Unmade, Past, Watched, TypeOK, GatewayTypeOK,
                        WatcherStates
    <2>4. i \in recipients
      BY <1>1, <2>2 DEF GatewayInv, SessionsInv, ActivatedOnce, Past
    <2>5. QED
      BY <2>1, <2>3, <2>4
  <1>3. QED
    BY <1>1, <1>2 DEF RecipientsWatched, Watched, GatewayInv, SessionsInv, Unmade, RecipientsStay,
                      TypeOK, GatewayTypeOK

(* A call that is being served has a client the broker knows, and a        *)
(* watcher that has yet to disconnect it.                                  *)
THEOREM ServedByClients == Spec => []RecipientsWatched
  BY ServedAreWatched, GatewayInvariant, PTL

LEMMA PlacesOwned == TypeOK /\ GatewayInv => EveryPlaceOwned
  <1>1. SUFFICES ASSUME TypeOK, GatewayInv, NEW i \in DOMAIN peers
                 PROVE  IF peers[i] = "reserved"
                        THEN \E p \in Posts : At(p, "reserved") /\ post[p].peer = i
                        ELSE watcher[i] \in {"waiting", "watching", "closing", "remove"}
    BY DEF EveryPlaceOwned
  <1>2. \/ peers[i] = "reserved" /\ \E p \in Posts : At(p, "reserved") /\ Admits(p, i)
        \/ peers[i] = "peer" /\ (Watched(i) \/ watcher[i] = "remove")
    BY <1>1 DEF GatewayInv, PlacesInv, PlaceOwner
  <1>3. QED
    BY <1>2 DEF Watched, Admits

(* No place of the 64 is lost.                                             *)
THEOREM NoPlaceLost == Spec => []EveryPlaceOwned
  BY PlacesOwned, GatewayInvariant, PTL

LEMMA EndsForCause == TypeOK /\ GatewayInv /\ [Next]_vars => EndedForCause
  <1>1. SUFFICES ASSUME TypeOK, GatewayInv, [Next]_vars, NEW i \in PeerIds,
                        watcher[i] = "watching", watcher'[i] = "closing"
                 PROVE  owner[i] \in revoked \cup over
    BY DEF EndedForCause
  <1>2. WatchStop(i)
    <2>1. CASE UNCHANGED watcher
      BY <1>1, <2>1
    <2>2. ASSUME NEW p \in Posts, NEW j \in PeerIds, Reserve(p, j) PROVE FALSE
      BY <1>1, <2>2 DEF Reserve, TypeOK, GatewayTypeOK
    <2>3. ASSUME NEW p \in Posts, Create(p) PROVE FALSE
      BY <1>1, <2>3 DEF Create, TypeOK, GatewayTypeOK
    <2>4. ASSUME NEW j \in PeerIds, Watching(j) PROVE WatchStop(i)
      BY <1>1, <2>4 DEF Watching, WatchReady, WatchGiveUp, WatchStop, WatchDone, RemovePeer,
                        Disconnect, Watch, TypeOK, GatewayTypeOK
    <2>5. QED
      BY <1>1, <2>1, <2>2, <2>3, <2>4
      DEF Next, Request, Admission, Handling, PostInitialize, PostCall, Overload, Abandon, Open,
          OpenFails, Serve, Refuse, Return, SessionEnds, SessionCloses, TellGateway,
          vars, gatewayVars, peerVars
  <1>3. QED
    BY <1>1, <1>2 DEF WatchStop, GatewayInv, SessionsInv, CancelledRevoked

(* Revoking one connection ends no session of another.                     *)
THEOREM RevocationIsSelective == Spec => OthersKeepTheirSessions
  BY EndsForCause, GatewayInvariant, PTL DEF OthersKeepTheirSessions, Spec

(* The gateway brings the broker its clients as ClientLifecycle says: a    *)
(* client is disconnected when none of its calls runs.                     *)
THEOREM RefinesLifecycle == Spec => ImplementsLifecycle
  <1> DEFINE busy == [p \in Posts |-> IF At(p, "serving") THEN post[p].peer ELSE None]
  <1>1. Init => Lifecycle!Init
    BY DEF Init, Lifecycle!Init, At, Idle
  <1>2. TypeOK /\ OAuthInv /\ GatewayInv /\ [Next]_vars => [Lifecycle!Next]_(Lifecycle!vars)
    <2>1. SUFFICES ASSUME TypeOK, OAuthInv, GatewayInv, [Next]_vars
                   PROVE  [Lifecycle!Next]_(Lifecycle!vars)
      OBVIOUS
    <2>2. ASSUME recipients' = recipients,
                 \A p \in Posts : /\ At(p, "serving")' <=> At(p, "serving")
                                  /\ At(p, "serving") => post'[p].peer = post[p].peer
          PROVE  UNCHANGED Lifecycle!vars
      <3>1. busy' = busy
        BY <2>2
      <3>2. QED
        BY <2>2, <3>1 DEF Lifecycle!vars
    <2>3. ASSUME UNCHANGED <<recipients, post>> PROVE UNCHANGED Lifecycle!vars
      BY <2>2, <2>3 DEF At
    <2>4. ASSUME NEW p \in Posts, post'[p].stage # "serving", post[p].stage # "serving",
                 \A q \in Posts \ {p} : post'[q] = post[q], recipients' = recipients
          PROVE  UNCHANGED Lifecycle!vars
      BY <2>2, <2>4 DEF At
    <2>5. ASSUME NEW p \in Posts, Request(p) \/ Admission(p) \/ Refuse(p)
          PROVE  UNCHANGED Lifecycle!vars
      <3>1. post'[p].stage # "serving" /\ post[p].stage # "serving"
        BY <2>1, <2>5 DEF Request, PostInitialize, PostCall, Admission, Reserve, Overload, Abandon,
                   Create, Open, OpenFails, Refuse, At, Goto, Finish, Idle, TypeOK, GatewayTypeOK,
                   Requests
      <3>2. /\ \A q \in Posts \ {p} : post'[q] = post[q]
            /\ recipients' = recipients
        BY <2>1, <2>5 DEF Request, PostInitialize, PostCall, Admission, Reserve, Overload, Abandon,
                   Create, Open, OpenFails, Refuse, Goto, Finish, TypeOK, GatewayTypeOK, peerVars
      <3>3. QED
        BY <2>4, <3>1, <3>2
    <2>6. ASSUME NEW p \in Posts, Serve(p) PROVE Lifecycle!Next
      <3>1. PICK i \in PeerIds : i = post[p].peer /\ Calls(p, i)
        BY <2>1, <2>6 DEF Serve, TypeOK, GatewayTypeOK, At, Calls, Calling
      <3>2. ~Past(i)
        BY <2>1, <2>6, <3>1 DEF Serve, GatewayInv, SessionsInv, CallsKeepSession
      <3>3. recipients' = recipients \cup {i}
        BY <2>1, <2>6, <3>1, <3>2 DEF Serve, GatewayInv, SessionsInv, ActivatedOnce, Past
      <3>4. /\ post[p].stage = "calling"
            /\ post'[p].stage = "serving" /\ post'[p].peer = i
            /\ \A q \in Posts \ {p} : post'[q] = post[q]
        BY <2>1, <2>6, <3>1 DEF Serve, Goto, At, TypeOK, GatewayTypeOK, Requests
      <3>5. busy[p] = None /\ busy' = [busy EXCEPT ![p] = i]
        BY <3>4 DEF At
      <3>6. Lifecycle!Begin(p, i)
        BY <3>3, <3>5 DEF Lifecycle!Begin
      <3>7. QED
        BY <3>6 DEF Lifecycle!Next
    <2>7. ASSUME NEW p \in Posts, Return(p) PROVE Lifecycle!Next
      <3>1. /\ post[p].stage = "serving" /\ post[p].peer \in PeerIds
            /\ post'[p].stage = "idle"
            /\ \A q \in Posts \ {p} : post'[q] = post[q]
            /\ recipients' = recipients
        BY <2>1, <2>7 DEF Return, Finish, Idle, At, TypeOK, GatewayTypeOK, Calling, peerVars
      <3>2. busy[p] # None /\ busy' = [busy EXCEPT ![p] = None]
        BY <3>1, GatewayAssumption DEF At
      <3>3. Lifecycle!End(p)
        BY <3>1, <3>2 DEF Lifecycle!End
      <3>4. QED
        BY <3>3 DEF Lifecycle!Next
    <2>8. ASSUME NEW i \in PeerIds, Disconnect(i)
          PROVE  Lifecycle!Next \/ UNCHANGED Lifecycle!vars
      <3>1. watcher[i] = "disconnect" /\ recipients' = recipients \ {i} /\ post' = post
        BY <2>8 DEF Disconnect, Watch
      <3>2. busy' = busy
        BY <3>1 DEF At
      <3>3. \A p \in Posts : busy[p] # i
        BY <2>1, <3>1, GatewayAssumption
        DEF GatewayInv, SessionsInv, CallsKeepSession, Calls, Calling, At, Past
      <3>4. CASE i \in recipients
        BY <3>1, <3>2, <3>3, <3>4 DEF Lifecycle!Disconnect, Lifecycle!Next
      <3>5. CASE i \notin recipients
        BY <2>3, <3>1, <3>5
      <3>6. QED
        BY <3>4, <3>5
    <2>9. ASSUME NEW i \in PeerIds,
                 \/ SessionEnds(i) \/ SessionCloses(i) \/ WatchReady(i) \/ WatchGiveUp(i)
                 \/ WatchStop(i) \/ WatchDone(i) \/ RemovePeer(i)
          PROVE  UNCHANGED Lifecycle!vars
      BY <2>3, <2>9 DEF SessionEnds, SessionCloses, WatchReady, WatchGiveUp, WatchStop, WatchDone,
                        RemovePeer
    <2>10. CASE UNCHANGED gatewayVars \/ \E v \in Revokers : TellGateway(v)
      BY <2>3, <2>10 DEF gatewayVars, peerVars, TellGateway
    <2>11. QED
      BY <2>1, <2>5, <2>6, <2>7, <2>8, <2>9, <2>10 DEF Next, Handling, Watching, vars
  <1>3. QED
    BY <1>1, <1>2, GatewayInvariant, PTL DEF ImplementsLifecycle, Lifecycle!Spec, Spec
-----------------------------------------------------------------------------
(* The provider and the gateway across restarts.                           *)

(* What is being written: the file has the other clients until the rename, *)
(* and all of them after it; who has been told is in the file.             *)
WritesKeepOthers ==
    /\ \A a \in DOMAIN told : a \in DOMAIN file /\ file[a] = told[a]
    /\ saving # None =>
          /\ saving.app \in DOMAIN apps
          /\ ~saving.renamed => file = Restrict(apps, DOMAIN apps \ {saving.app})
          /\ saving.renamed => file = apps

RegistryInv == RegistryTypeOK /\ WritesKeepOthers /\ RegistrationsSurvive

ProviderInv == TypeOK /\ OAuthInv /\ Paired /\ GatewayInv

(* What the steps of a save do to the rest of the provider. *)
LEMMA RegistryKinds ==
    RegistryNext =>
        \/ [Next]_vars
        \/ SaveFails
        \/ Restart
  <1>1. ASSUME NEW a \in Apps, NEW b \in BOOLEAN, BeginRegister(a, b) PROVE Next
    BY <1>1 DEF BeginRegister, Next, OAuthNext
  <1>2. QED
    BY <1>1 DEF RegistryNext, Rename, Answer, Otherwise

(* Taking a client back from the table, or everything from memory, breaks  *)
(* nothing that the provider and the gateway rely on: what was drawn, made *)
(* and revoked is still known, and no table refers to what is gone.        *)
LEMMA SaveFailsKeeps ==
    ASSUME ProviderInv, SaveFails
    PROVE  ProviderInv'
  <1>1. UNCHANGED <<pending, codes, tokens, refresh, revoker, worldVars, gatewayVars>>
    BY DEF SaveFails
  <1>2. OAuthTypeOK'
    <2>1. IsMap(apps', Apps, BOOLEAN)
      <3>1. DOMAIN apps \ {saving.app} \in SUBSET DOMAIN apps
        OBVIOUS
      <3>2. QED
        BY <3>1, RestrictMap DEF SaveFails, ProviderInv, TypeOK, OAuthTypeOK
    <2>2. QED
      BY <1>1, <2>1 DEF ProviderInv, TypeOK, OAuthTypeOK, worldVars
  <1>3. GatewayTypeOK'
    BY <1>1 DEF ProviderInv, TypeOK, gatewayVars, peerVars, GatewayTypeOK
  <1>4. OAuthInv' /\ Paired'
    BY <1>1 DEF ProviderInv, worldVars, OAuthInv, DrawnOnce, FamiliesKnown, NoResurrection,
                CodeYieldsOneConnection, OneLiveRefresh, Paired
  <1>5. UNCHANGED <<peers, owner, watcher, cancelled, activated, session, recipients, post,
                    revoked, revoker>>
    BY <1>1 DEF worldVars, gatewayVars, peerVars
  <1>6. PlacesInv'
    BY <1>5 DEF ProviderInv, GatewayInv, PlacesInv, AdmittedApart, AdmittedPlace, PlaceOwner,
                WatchedPlace, Watched, Admits, At
  <1>7. SessionsInv' /\ MissedInv'
    BY <1>5 DEF ProviderInv, GatewayInv, SessionsInv, CancelledRevoked, Unmade, Orphans,
                CallsKeepSession, ActivatedOnce, RecipientsStay, MissedInv, Watched, Past,
                Admits, Calls, At, Telling
  <1>8. QED
    BY <1>2, <1>3, <1>4, <1>6, <1>7 DEF ProviderInv, TypeOK, GatewayInv

LEMMA RestartKeeps ==
    ASSUME ProviderInv, RegistryTypeOK, Restart
    PROVE  ProviderInv'
  <1>1. OAuthTypeOK'
    BY DEF ProviderInv, TypeOK, OAuthTypeOK, RegistryTypeOK, Restart, Empty, IsMap, worldVars
  <1>2. GatewayTypeOK'
    BY DEF Restart, GatewayTypeOK, IsMap, Empty, Idle, Requests, PostStates, WatcherStates,
           Admitting, Calling
  <1>3. OAuthInv'
    BY DEF ProviderInv, OAuthInv, DrawnOnce, FamiliesKnown, NoResurrection,
           CodeYieldsOneConnection, OneLiveRefresh, Restart, Empty, worldVars
  <1>4. Paired'
    <2>1. DOMAIN refresh' = {} /\ DOMAIN tokens' = {}
      BY DEF Restart, Empty
    <2>2. refresh' \in Injection(DOMAIN refresh', DOMAIN tokens')
      BY <2>1 DEF Injection, IsInjective, Restart, Empty
    <2>3. QED
      BY <2>1, <2>2 DEF Paired
  <1>5. GatewayInv'
    BY DEF Restart, Empty, Idle, GatewayInv, PlacesInv, AdmittedApart, AdmittedPlace,
           PlaceOwner, WatchedPlace, SessionsInv, CancelledRevoked, Unmade, Orphans,
           CallsKeepSession, ActivatedOnce, RecipientsStay, MissedInv, Watched, Past, Admits,
           Calls, At, Admitting, Calling
  <1>6. QED
    BY <1>1, <1>2, <1>3, <1>4, <1>5 DEF ProviderInv, TypeOK

LEMMA RegistryStep ==
    ASSUME ProviderInv, RegistryInv, RegistryNext
    PROVE  RegistryInv'
  <1> USE DEF RegistryInv, RegistryTypeOK, WritesKeepOthers, RegistrationsSurvive
  <1>1. IsMap(apps, Apps, BOOLEAN)
    BY DEF ProviderInv, TypeOK, OAuthTypeOK
  <1>2. ASSUME NEW a \in Apps, NEW b \in BOOLEAN, BeginRegister(a, b) PROVE RegistryInv'
    <2>1. /\ a \notin DOMAIN apps /\ apps' = Put(apps, a, b) /\ apps = file
          /\ file' = file /\ told' = told
      BY <1>2 DEF BeginRegister, Register
    <2>2. /\ IsMap(apps', Apps, BOOLEAN)
          /\ DOMAIN apps' = DOMAIN apps \cup {a}
          /\ \A x \in DOMAIN apps : apps'[x] = apps[x]
      <3>1. /\ IsMap(Put(apps, a, b), Apps, BOOLEAN)
            /\ DOMAIN Put(apps, a, b) = DOMAIN apps \cup {a}
            /\ \A x \in DOMAIN apps \ {a} : Put(apps, a, b)[x] = apps[x]
        BY <1>1 DEF Put, IsMap
      <3>2. QED
        BY <2>1, <3>1
    <2>3. saving' \in Savings /\ saving' # None /\ saving'.app = a /\ ~saving'.renamed
      <3> DEFINE new == [app |-> a, renamed |-> FALSE]
      <3>1. new \in Savings /\ new.app = a /\ ~new.renamed
        BY DEF Savings
      <3>2. saving' = new
        BY <1>2 DEF BeginRegister
      <3> HIDE DEF new
      <3> QED BY <3>1, <3>2, RegistryAssumption
    <2>4. file' = Restrict(apps', DOMAIN apps' \ {a})
      <3>1. DOMAIN apps' \ {a} = DOMAIN apps
        BY <2>1, <2>2
      <3>2. apps = [x \in DOMAIN apps |-> apps[x]]
        BY <1>1 DEF IsMap
      <3>3. Restrict(apps', DOMAIN apps) = [x \in DOMAIN apps |-> apps[x]]
        BY <2>2 DEF Restrict
      <3>4. QED
        BY <2>1, <3>1, <3>2, <3>3
    <2>5. QED
      BY <2>1, <2>2, <2>3, <2>4
  <1>3. CASE Rename
    <2>1. /\ saving # None /\ saving \in Savings /\ file' = apps /\ apps' = apps /\ told' = told
          /\ saving' = [saving EXCEPT !.renamed = TRUE]
      BY <1>3 DEF Rename, vars, oauthVars, tableVars
    <2>2. saving' \in Savings /\ saving'.app = saving.app /\ saving'.renamed
      BY <2>1 DEF Savings
    <2>3. QED
      BY <1>1, <2>1, <2>2, RegistryAssumption
  <1>4. CASE Answer
    <2>1. /\ saving # None /\ saving \in Savings /\ file = apps /\ apps' = apps /\ file' = file
          /\ saving' = None /\ told' = Put(told, saving.app, apps[saving.app])
          /\ saving.app \in DOMAIN apps
      BY <1>4 DEF Answer, vars, oauthVars, tableVars
    <2>2. saving.app \in Apps /\ apps[saving.app] \in BOOLEAN
      BY <1>1, <2>1 DEF IsMap
    <2>3. /\ IsMap(told', Apps, BOOLEAN)
          /\ DOMAIN told' = DOMAIN told \cup {saving.app}
          /\ told'[saving.app] = apps[saving.app]
          /\ \A a \in DOMAIN told \ {saving.app} : told'[a] = told[a]
      <3> DEFINE k == saving.app
                 v == apps[saving.app]
      <3>1. IsMap(told, Apps, BOOLEAN) /\ k \in Apps /\ v \in BOOLEAN /\ told' = Put(told, k, v)
        BY <2>1, <2>2
      <3> HIDE DEF k, v
      <3>2. /\ IsMap(Put(told, k, v), Apps, BOOLEAN)
            /\ DOMAIN Put(told, k, v) = DOMAIN told \cup {k}
            /\ Put(told, k, v)[k] = v
            /\ \A a \in DOMAIN told \ {k} : Put(told, k, v)[a] = told[a]
        BY <3>1, PutMap
      <3> QED BY <3>1, <3>2 DEF k, v
    <2>4. \A a \in DOMAIN told' : a \in DOMAIN apps /\ told'[a] = apps[a]
      BY <2>1, <2>3
    <2>5. QED
      BY <2>1, <2>3, <2>4
  <1>5. CASE SaveFails
    <2>1. /\ saving # None /\ apps' = file /\ saving' = None
          /\ file' = file /\ told' = told
      BY <1>5 DEF SaveFails
    <2>2. QED
      BY <2>1
  <1>6. CASE Restart
    <2>1. apps' = file /\ saving' = None /\ file' = file /\ told' = told
      BY <1>6 DEF Restart
    <2>2. QED
      BY <2>1
  <1>7. CASE Otherwise
    BY <1>7 DEF Otherwise, registryVars
  <1>8. QED
    BY <1>2, <1>3, <1>4, <1>5, <1>6, <1>7 DEF RegistryNext

LEMMA RegistryInvariant == RegistrySpec => [](ProviderInv /\ RegistryInv)
  <1>1. RegistryInit => ProviderInv /\ RegistryInv
    <2>1. SUFFICES ASSUME RegistryInit PROVE ProviderInv /\ RegistryInv
      OBVIOUS
    <2>2. ProviderInv
      BY <2>1, InitType, OAuthStart, GatewayStart DEF RegistryInit, ProviderInv, Init
    <2>3. RegistryInv
      BY <2>1 DEF RegistryInit, Init, OAuthInit, Empty, IsMap, RegistryInv, RegistryTypeOK,
                  WritesKeepOthers, RegistrationsSurvive
    <2>4. QED
      BY <2>2, <2>3
  <1>2. ASSUME ProviderInv, RegistryInv, [RegistryNext]_allVars
        PROVE  (ProviderInv /\ RegistryInv)'
    <2>1. CASE RegistryNext
      <3>1. ASSUME [Next]_vars PROVE ProviderInv'
        BY <1>2, <3>1, NextType, ProviderKept, GatewayStep DEF ProviderInv
      <3>2. ProviderInv'
        BY <1>2, <2>1, <3>1, RegistryKinds, SaveFailsKeeps, RestartKeeps DEF RegistryInv
      <3>3. QED
        BY <1>2, <2>1, <3>2, RegistryStep
    <2>2. CASE UNCHANGED allVars
      <3>1. UNCHANGED <<vars, registryVars>>
        BY <2>2 DEF allVars
      <3>2. ProviderInv'
        BY <1>2, <3>1, NextType, ProviderKept, GatewayStep DEF ProviderInv
      <3>3. RegistryInv'
        BY <1>2, <3>1 DEF registryVars, vars, oauthVars, tableVars, RegistryInv, RegistryTypeOK,
                          WritesKeepOthers, RegistrationsSurvive
      <3>4. QED
        BY <3>2, <3>3
    <2>3. QED
      BY <1>2, <2>1, <2>2
  <1>3. QED
    BY <1>1, <1>2, PTL DEF RegistrySpec

(* A client that was told of its registration is registered, whichever     *)
(* write failed and wherever the broker ended, and a restart serves what   *)
(* was served (saveClientsLocked, newOAuthProvider).                       *)
THEOREM RegisteredForGood == RegistrySpec => []RegistrationsSurvive
  BY RegistryInvariant, PTL DEF RegistryInv

(* What the provider and the gateway promise they promise across restarts, *)
(* of tokens, codes and sessions that began before one as well.            *)
THEOREM PromisesOutliveProcess ==
    RegistrySpec => [](/\ NoResurrection /\ CodeYieldsOneConnection /\ OneLiveRefresh
                       /\ RefreshWithinAccess
                       /\ RevokedNotRecipients /\ RecipientsWatched /\ EveryPlaceOwned)
  BY RegistryInvariant, PairedWithin, RecipientsLeave, ServedAreWatched, PlacesOwned, PTL
  DEF ProviderInv, OAuthInv

(* A restart ends every session at once, and that is not the gateway       *)
(* ending one for the revocation of another.                               *)
THEOREM SelectiveAcrossRestarts == RegistrySpec => OthersKeepTheirSessions
  <1>1. ASSUME ProviderInv, [RegistryNext]_allVars PROVE [EndedForCause]_vars
    <2>1. CASE [Next]_vars
      BY <1>1, <2>1, EndsForCause DEF ProviderInv
    <2>2. CASE SaveFails
      BY <2>2 DEF SaveFails, gatewayVars, peerVars, EndedForCause
    <2>3. CASE Restart
      BY <2>3 DEF Restart, EndedForCause
    <2>4. QED
      BY <1>1, <2>1, <2>2, <2>3, RegistryKinds DEF allVars
  <1>2. QED
    BY <1>1, RegistryInvariant, PTL DEF RegistrySpec, OthersKeepTheirSessions
=============================================================================
