------------------------------- MODULE OAuth -------------------------------
(***************************************************************************)
(* The OAuth provider of internal/app (oauth.go, oauth_refresh.go): what   *)
(* it registers, approves, issues and revokes.                             *)
(*                                                                         *)
(* Every critical section under p.mu is one step.  A request the provider  *)
(* refuses for its form, its client, its redirect or its PKCE verifier     *)
(* changes nothing and is left out; secrets are the random values          *)
(* themselves, not their digests.  Time is abstract: the deadline of an    *)
(* authorization, a code or a connection passes by a step of the clock.    *)
(***************************************************************************)
EXTENDS Naturals, FiniteSets, Functions

CONSTANTS
    Apps,         \* IDs of registered clients
    Auths,        \* IDs of authorization requests
    Codes,        \* authorization codes
    Accesses,     \* access tokens
    Refreshes,    \* refresh tokens
    Conns,        \* connection IDs
    Revokers,     \* goroutines that may revoke: /token, /revoke, the console
    None,         \* "no value"; not a member of any other set
    MaxApps,      \* registrations (256)
    MaxPending,   \* authorization requests (16)
    MaxCodes,     \* codes (64)
    MaxTokens,    \* access tokens (256)
    MaxRefresh    \* refresh history (1024)

Drawable == Auths \cup Codes \cup Accesses \cup Refreshes \cup Conns

Revocations == [stage : {"drop", "tell"}, id : Conns]

ASSUME OAuthAssumption ==
    /\ None \notin Apps \cup Drawable \cup Revocations
    /\ Auths \cap (Codes \cup Conns) = {}
    /\ Codes \cap Conns = {}
    /\ IsFiniteSet(Apps) /\ IsFiniteSet(Drawable)
    /\ {MaxApps, MaxPending, MaxCodes, MaxTokens, MaxRefresh} \subseteq Nat

VARIABLES
    apps,      \* registered client -> does it use refresh tokens
    pending,   \* authorization -> [app, decision, code]
    codes,     \* unused code -> client
    tokens,    \* access token -> connection
    refresh,   \* refresh token -> [conn, used]
    revoker,   \* a revocation under way: [stage, id], or None
    \* The rest of the world.
    over,      \* authorizations, codes and connections past their deadline
    handed,    \* codes the browser has taken to their client
    drawn,     \* random values drawn so far
    revoked,   \* history: connections whose tokens have been deleted
    born       \* history: connection -> the code it was exchanged for

tableVars == <<apps, pending, codes, tokens, refresh>>
worldVars == <<over, handed, drawn, revoked, born>>
oauthVars == <<tableVars, revoker, worldVars>>
-----------------------------------------------------------------------------
Connections == [id : Conns, app : Apps]
Pendings == [app : Apps, decision : {"pending", "denied", "approved"},
             code : Codes \cup {None}]
RefreshTokens == [conn : Connections, used : BOOLEAN]

(* A Go map: a function whose domain is the keys present. *)
IsMap(f, Keys, Values) == DOMAIN f \subseteq Keys /\ f \in [DOMAIN f -> Values]

OAuthTypeOK ==
    /\ IsMap(apps, Apps, BOOLEAN)
    /\ IsMap(pending, Auths, Pendings)
    /\ IsMap(codes, Codes, Apps)
    /\ IsMap(tokens, Accesses, Connections)
    /\ IsMap(refresh, Refreshes, RefreshTokens)
    /\ revoker \in [Revokers -> Revocations \cup {None}]
    /\ over \subseteq Auths \cup Codes \cup Conns
    /\ handed \subseteq Codes
    /\ drawn \subseteq Drawable
    /\ revoked \subseteq Conns
    /\ IsMap(born, Conns, Codes)

Empty == [x \in {} |-> None]

(* newOAuthProvider without a registry file. *)
OAuthInit ==
    /\ apps = Empty
    /\ pending = Empty
    /\ codes = Empty
    /\ tokens = Empty
    /\ refresh = Empty
    /\ revoker = [v \in Revokers |-> None]
    /\ over = {}
    /\ handed = {}
    /\ drawn = {}
    /\ revoked = {}
    /\ born = Empty

(* 256 random bits are not drawn twice. *)
Fresh(S) == S \ drawn

Put(f, k, v) == [x \in DOMAIN f \cup {k} |-> IF x = k THEN v ELSE f[x]]

(* The tokens and the refresh tokens of connections outside S. *)
TokensWithout(S) == Restrict(tokens, {x \in DOMAIN tokens : tokens[x].id \notin S})
RefreshWithout(S) == Restrict(refresh, {f \in DOMAIN refresh : refresh[f].conn.id \notin S})

(* Faulty: refresh tokens are not cleaned up. *)
BadLiveRefresh == refresh

(* cleanupLocked, by table; refresh tokens end with their connection. *)
LivePending == Restrict(pending, DOMAIN pending \ over)
LiveCodes == Restrict(codes, DOMAIN codes \ over)
LiveTokens == TokensWithout(over)
LiveRefresh == RefreshWithout(over)
-----------------------------------------------------------------------------
(* register *)
Register(a, refreshing) ==
    /\ a \notin DOMAIN apps
    /\ Cardinality(DOMAIN apps) < MaxApps
    /\ apps' = Put(apps, a, refreshing)
    /\ UNCHANGED <<pending, codes, tokens, refresh, revoker, worldVars>>

(* cleanupLocked alone: the first section of authorize, a poll of the      *)
(* waiting page, the console's state, a refused request.                   *)
CleanUp ==
    /\ pending' = LivePending
    /\ codes' = LiveCodes
    /\ tokens' = LiveTokens
    /\ refresh' = LiveRefresh
    /\ UNCHANGED <<apps, revoker, worldVars>>

(* The second section of authorize, which does not clean up. *)
Authorize(a) ==
    /\ a \in DOMAIN apps
    /\ Cardinality(DOMAIN pending) < MaxPending
    /\ \E q \in Fresh(Auths) :
          /\ pending' = Put(pending, q, [app |-> a, decision |-> "pending", code |-> None])
          /\ drawn' = drawn \cup {q}
    /\ UNCHANGED <<apps, codes, tokens, refresh, revoker, over, handed, revoked, born>>

(* decide: the console denies or approves; approval issues the code. *)
Deny(q) ==
    /\ q \in DOMAIN LivePending /\ pending[q].decision = "pending"
    /\ pending' = [LivePending EXCEPT ![q].decision = "denied"]
    /\ codes' = LiveCodes
    /\ tokens' = LiveTokens
    /\ refresh' = LiveRefresh
    /\ UNCHANGED <<apps, revoker, worldVars>>

Approve(q) ==
    /\ q \in DOMAIN LivePending /\ pending[q].decision = "pending"
    /\ Cardinality(DOMAIN LiveCodes) < MaxCodes
    /\ \E d \in Fresh(Codes) :
          /\ pending' = [LivePending EXCEPT ![q].decision = "approved", ![q].code = d]
          /\ codes' = Put(LiveCodes, d, pending[q].app)
          /\ drawn' = drawn \cup {d}
    /\ tokens' = LiveTokens
    /\ refresh' = LiveRefresh
    /\ UNCHANGED <<apps, revoker, over, handed, revoked, born>>

(* continueAuth: the browser that asked takes the decision, once. *)
Continue(q) ==
    /\ q \in DOMAIN LivePending /\ pending[q].decision # "pending"
    /\ pending' = Restrict(LivePending, DOMAIN LivePending \ {q})
    /\ handed' = handed \cup ({pending[q].code} \ {None})
    /\ codes' = LiveCodes
    /\ tokens' = LiveTokens
    /\ refresh' = LiveRefresh
    /\ UNCHANGED <<apps, revoker, over, drawn, revoked, born>>

(* What a client gets for connection n: an access token, and a refresh     *)
(* token if it uses them.  The caller has looked at the limits.            *)
Issue(n, old, refreshing) ==
    \E x \in Fresh(Accesses) :
       /\ tokens' = Put(LiveTokens, x, n)
       /\ \/ /\ refreshing
             /\ \E f \in Fresh(Refreshes) :
                   /\ refresh' = Put(old, f, [conn |-> n, used |-> FALSE])
                   /\ drawn' = drawn \cup {x, f, n.id}
          \/ /\ ~refreshing
             /\ refresh' = old
             /\ drawn' = drawn \cup {x, n.id}

(* token with an authorization code. *)
Exchange(d) ==
    /\ d \in handed \cap DOMAIN LiveCodes
    /\ Cardinality(DOMAIN LiveTokens) < MaxTokens
    /\ \E c \in Fresh(Conns) :
          /\ Issue([id |-> c, app |-> codes[d]], LiveRefresh, apps[codes[d]])
          /\ born' = Put(born, c, d)
    /\ codes' = Restrict(LiveCodes, DOMAIN LiveCodes \ {d})
    /\ pending' = LivePending
    /\ UNCHANGED <<apps, revoker, over, handed, revoked>>

(* refreshToken: the old token stays, marked as used. *)
Refresh(f) ==
    /\ f \in DOMAIN LiveRefresh /\ ~refresh[f].used
    /\ Cardinality(DOMAIN LiveTokens) < MaxTokens
    /\ Cardinality(DOMAIN LiveRefresh) < MaxRefresh
    /\ Issue(refresh[f].conn, [LiveRefresh EXCEPT ![f].used = TRUE], TRUE)
    /\ codes' = LiveCodes
    /\ pending' = LivePending
    /\ UNCHANGED <<apps, revoker, over, handed, revoked, born>>
-----------------------------------------------------------------------------
(* Revocation: a handler learns the connection under the lock, releases    *)
(* it, deletes the family under the lock and then tells the gateway.       *)

Start(v, id) ==
    /\ revoker[v] = None
    /\ revoker' = [revoker EXCEPT ![v] = [stage |-> "drop", id |-> id]]

(* refreshToken with a token that was used before. *)
Reuse(v, f) ==
    /\ f \in DOMAIN LiveRefresh /\ refresh[f].used
    /\ Start(v, refresh[f].conn.id)
    /\ pending' = LivePending
    /\ codes' = LiveCodes
    /\ tokens' = LiveTokens
    /\ refresh' = LiveRefresh
    /\ UNCHANGED <<apps, worldVars>>

(* revokeToken, by an access or a refresh token; the console, by its ID,   *)
(* of a connection it may remember from an earlier look.                   *)
Revoke(v, id) ==
    /\ id \in DOMAIN born
    /\ Start(v, id)
    /\ UNCHANGED <<tableVars, worldVars>>

(* Faulty: the refresh tokens stay. *)
BadDropFamily(v) ==
    /\ revoker[v] # None /\ revoker[v].stage = "drop"
    /\ tokens' = TokensWithout({revoker[v].id})
    /\ revoked' = revoked \cup {revoker[v].id}
    /\ revoker' = [revoker EXCEPT ![v].stage = "tell"]
    /\ UNCHANGED <<apps, pending, codes, refresh, over, handed, drawn, born>>

(* revokeConnection's critical section. *)
DropFamily(v) ==
    /\ revoker[v] # None /\ revoker[v].stage = "drop"
    /\ refresh' = RefreshWithout({revoker[v].id})
    /\ tokens' = TokensWithout({revoker[v].id})
    /\ revoked' = revoked \cup {revoker[v].id}
    /\ revoker' = [revoker EXCEPT ![v].stage = "tell"]
    /\ UNCHANGED <<apps, pending, codes, over, handed, drawn, born>>

(* verify: the connections some access token stands for now. *)
Valid == {tokens[x].id : x \in DOMAIN tokens} \ over

(* The deadline of an authorization, a code or a connection passes. *)
Age(d) ==
    /\ d \in (DOMAIN pending \cup DOMAIN codes \cup DOMAIN born) \ over
    /\ over' = over \cup {d}
    /\ UNCHANGED <<tableVars, revoker, handed, drawn, revoked, born>>

OAuthNext ==
    \/ \E a \in Apps, b \in BOOLEAN : Register(a, b)
    \/ CleanUp
    \/ \E a \in Apps : Authorize(a)
    \/ \E q \in Auths : Deny(q) \/ Approve(q) \/ Continue(q)
    \/ \E d \in Codes : Exchange(d)
    \/ \E f \in Refreshes : Refresh(f)
    \/ \E v \in Revokers :
          \/ \E f \in Refreshes : Reuse(v, f)
          \/ \E c \in Conns : Revoke(v, c)
          \/ DropFamily(v)
    \/ \E d \in Auths \cup Codes \cup Conns : Age(d)
=============================================================================
