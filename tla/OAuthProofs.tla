---------------------------- MODULE OAuthProofs ----------------------------
(***************************************************************************)
(* Proofs about the OAuth provider's tables, as part of HttpGateway.       *)
(***************************************************************************)
EXTENDS HttpGatewayInvariant, FiniteSetTheorems, TLAPS

LEMMA PutMap ==
    ASSUME NEW D, NEW R, NEW f, IsMap(f, D, R), NEW k \in D, NEW v \in R
    PROVE  /\ IsMap(Put(f, k, v), D, R)
           /\ DOMAIN Put(f, k, v) = DOMAIN f \cup {k}
           /\ Put(f, k, v)[k] = v
           /\ \A x \in DOMAIN f \ {k} : Put(f, k, v)[x] = f[x]
  BY DEF IsMap, Put

LEMMA RestrictMap ==
    ASSUME NEW D, NEW R, NEW f, IsMap(f, D, R), NEW S \in SUBSET DOMAIN f
    PROVE  /\ IsMap(Restrict(f, S), D, R)
           /\ DOMAIN Restrict(f, S) = S
           /\ \A x \in S : Restrict(f, S)[x] = f[x]
  BY DEF IsMap, Restrict

LEMMA WithoutMap ==
    ASSUME OAuthTypeOK, NEW S
    PROVE  /\ IsMap(TokensWithout(S), Accesses, Connections)
           /\ IsMap(RefreshWithout(S), Refreshes, RefreshTokens)
           /\ DOMAIN TokensWithout(S) = {x \in DOMAIN tokens : tokens[x].id \notin S}
           /\ DOMAIN RefreshWithout(S) = {f \in DOMAIN refresh : refresh[f].conn.id \notin S}
           /\ \A x \in DOMAIN TokensWithout(S) : TokensWithout(S)[x] = tokens[x]
           /\ \A f \in DOMAIN RefreshWithout(S) : RefreshWithout(S)[f] = refresh[f]
  <1>1. /\ IsMap(tokens, Accesses, Connections)
        /\ IsMap(refresh, Refreshes, RefreshTokens)
    BY DEF OAuthTypeOK
  <1>2. /\ {x \in DOMAIN tokens : tokens[x].id \notin S} \in SUBSET DOMAIN tokens
        /\ {f \in DOMAIN refresh : refresh[f].conn.id \notin S} \in SUBSET DOMAIN refresh
    OBVIOUS
  <1>3. QED
    BY <1>1, <1>2, RestrictMap DEF TokensWithout, RefreshWithout

LEMMA LiveMap ==
    ASSUME OAuthTypeOK
    PROVE  /\ IsMap(LivePending, Auths, Pendings)
           /\ IsMap(LiveCodes, Codes, Apps)
           /\ IsMap(LiveTokens, Accesses, Connections)
           /\ IsMap(LiveRefresh, Refreshes, RefreshTokens)
           /\ DOMAIN LivePending = DOMAIN pending \ over
           /\ DOMAIN LiveCodes = DOMAIN codes \ over
           /\ DOMAIN LiveTokens = {x \in DOMAIN tokens : tokens[x].id \notin over}
           /\ DOMAIN LiveRefresh = {f \in DOMAIN refresh : refresh[f].conn.id \notin over}
           /\ \A q \in DOMAIN LivePending : LivePending[q] = pending[q]
           /\ \A d \in DOMAIN LiveCodes : LiveCodes[d] = codes[d]
           /\ \A x \in DOMAIN LiveTokens : LiveTokens[x] = tokens[x]
           /\ \A f \in DOMAIN LiveRefresh : LiveRefresh[f] = refresh[f]
  <1>1. IsMap(pending, Auths, Pendings) /\ IsMap(codes, Codes, Apps)
    BY DEF OAuthTypeOK
  <1>2. DOMAIN pending \ over \in SUBSET DOMAIN pending
        /\ DOMAIN codes \ over \in SUBSET DOMAIN codes
    OBVIOUS
  <1>3. /\ IsMap(LivePending, Auths, Pendings)
        /\ DOMAIN LivePending = DOMAIN pending \ over
        /\ \A q \in DOMAIN LivePending : LivePending[q] = pending[q]
    BY <1>1, <1>2, RestrictMap DEF LivePending
  <1>4. /\ IsMap(LiveCodes, Codes, Apps)
        /\ DOMAIN LiveCodes = DOMAIN codes \ over
        /\ \A d \in DOMAIN LiveCodes : LiveCodes[d] = codes[d]
    BY <1>1, <1>2, RestrictMap DEF LiveCodes
  <1>5. QED
    BY <1>3, <1>4, WithoutMap DEF LiveTokens, LiveRefresh

(* What Issue does, in terms of keys and values. *)
Issued(n, old) ==
    \E x \in Accesses \ drawn :
        /\ DOMAIN tokens' = DOMAIN LiveTokens \cup {x}
        /\ tokens'[x] = n
        /\ \A y \in DOMAIN LiveTokens \ {x} : tokens'[y] = LiveTokens[y]
        /\ x \in drawn'
        /\ \/ refresh' = old
           \/ \E f \in Refreshes \ drawn :
                 /\ DOMAIN refresh' = DOMAIN old \cup {f}
                 /\ refresh'[f] = [conn |-> n, used |-> FALSE]
                 /\ \A g \in DOMAIN old \ {f} : refresh'[g] = old[g]
                 /\ f \in drawn'

LEMMA IssueMap ==
    ASSUME OAuthTypeOK, NEW n \in Connections, NEW b,
           NEW old, IsMap(old, Refreshes, RefreshTokens), Issue(n, old, b)
    PROVE  /\ IsMap(tokens', Accesses, Connections)
           /\ IsMap(refresh', Refreshes, RefreshTokens)
           /\ drawn' \subseteq Drawable
           /\ drawn \cup {n.id} \subseteq drawn'
           /\ Issued(n, old)
  <1>1. PICK x \in Accesses \ drawn :
           /\ tokens' = Put(LiveTokens, x, n)
           /\ \/ \E f \in Refreshes \ drawn :
                    /\ refresh' = Put(old, f, [conn |-> n, used |-> FALSE])
                    /\ drawn' = drawn \cup {x, f, n.id}
              \/ refresh' = old /\ drawn' = drawn \cup {x, n.id}
    BY DEF Issue, Fresh
  <1>2. /\ IsMap(tokens', Accesses, Connections)
        /\ DOMAIN tokens' = DOMAIN LiveTokens \cup {x}
        /\ tokens'[x] = n
        /\ \A y \in DOMAIN LiveTokens \ {x} : tokens'[y] = LiveTokens[y]
    <2>1. IsMap(LiveTokens, Accesses, Connections)
      BY LiveMap
    <2>2. QED
      BY <1>1, <2>1, PutMap
  <1>3. n.id \in Conns
    BY DEF Connections
  <1>4. drawn \subseteq Drawable
    BY DEF OAuthTypeOK
  <1>5. CASE refresh' = old /\ drawn' = drawn \cup {x, n.id}
    BY <1>1, <1>2, <1>3, <1>4, <1>5 DEF Drawable, Issued
  <1>6. CASE \E f \in Refreshes \ drawn :
                /\ refresh' = Put(old, f, [conn |-> n, used |-> FALSE])
                /\ drawn' = drawn \cup {x, f, n.id}
    <2>1. PICK f \in Refreshes \ drawn :
                /\ refresh' = Put(old, f, [conn |-> n, used |-> FALSE])
                /\ drawn' = drawn \cup {x, f, n.id}
      BY <1>6
    <2> DEFINE r == [conn |-> n, used |-> FALSE]
    <2>2. r \in RefreshTokens
      BY DEF RefreshTokens
    <2> HIDE DEF r
    <2>3. f \in Refreshes /\ refresh' = Put(old, f, r)
      BY <2>1 DEF r
    <2>4. /\ IsMap(refresh', Refreshes, RefreshTokens)
          /\ DOMAIN refresh' = DOMAIN old \cup {f}
          /\ refresh'[f] = r
          /\ \A g \in DOMAIN old \ {f} : refresh'[g] = old[g]
      BY <2>3, <2>2, PutMap
    <2>5. /\ IsMap(refresh', Refreshes, RefreshTokens)
          /\ DOMAIN refresh' = DOMAIN old \cup {f}
          /\ refresh'[f] = [conn |-> n, used |-> FALSE]
          /\ \A g \in DOMAIN old \ {f} : refresh'[g] = old[g]
      BY <2>4 DEF r
    <2>6. drawn' \subseteq Drawable /\ drawn \cup {n.id, x, f} \subseteq drawn'
      BY <2>1, <1>3, <1>4 DEF Drawable
    <2>7. QED
      BY <1>2, <2>5, <2>6 DEF Issued
  <1>7. QED
    BY <1>1, <1>5, <1>6

(* The token a refresh takes, marked as used. *)
LEMMA MarkMap ==
    ASSUME OAuthTypeOK, NEW f \in DOMAIN LiveRefresh
    PROVE  LET old == [LiveRefresh EXCEPT ![f].used = TRUE]
           IN  /\ IsMap(old, Refreshes, RefreshTokens)
               /\ DOMAIN old = DOMAIN LiveRefresh
               /\ old[f] = [conn |-> refresh[f].conn, used |-> TRUE]
               /\ \A g \in DOMAIN old \ {f} : old[g] = refresh[g]
  BY LiveMap DEF IsMap, RefreshTokens

LEMMA OAuthInitType == OAuthInit => OAuthTypeOK
  BY DEF OAuthInit, OAuthTypeOK, IsMap, Empty

LEMMA OAuthNextType == OAuthTypeOK /\ OAuthNext => OAuthTypeOK'
  <1> SUFFICES ASSUME OAuthTypeOK, OAuthNext PROVE OAuthTypeOK'
    OBVIOUS
  <1> USE LiveMap
  <1>1. ASSUME NEW a \in Apps, NEW b \in BOOLEAN, Register(a, b) PROVE OAuthTypeOK'
    BY <1>1, PutMap DEF Register, OAuthTypeOK, worldVars
  <1>2. CASE CleanUp
    BY <1>2 DEF CleanUp, OAuthTypeOK, worldVars
  <1>3. ASSUME NEW a \in Apps, Authorize(a) PROVE OAuthTypeOK'
    <2>1. PICK q \in Auths :
             /\ pending' = Put(pending, q, [app |-> a, decision |-> "pending", code |-> None])
             /\ drawn' = drawn \cup {q}
      BY <1>3 DEF Authorize, Fresh
    <2>2. [app |-> a, decision |-> "pending", code |-> None] \in Pendings
      BY DEF Pendings
    <2>3. IsMap(pending', Auths, Pendings)
      BY <2>1, <2>2, PutMap DEF OAuthTypeOK
    <2>4. QED
      BY <1>3, <2>1, <2>3 DEF Authorize, OAuthTypeOK, Drawable
  <1>4. ASSUME NEW q \in Auths, Deny(q) PROVE OAuthTypeOK'
    <2>1. IsMap(pending', Auths, Pendings)
      BY <1>4 DEF Deny, IsMap, Pendings
    <2>2. QED
      BY <1>4, <2>1 DEF Deny, OAuthTypeOK, worldVars
  <1>5. ASSUME NEW q \in Auths, Approve(q) PROVE OAuthTypeOK'
    <2>1. PICK d \in Codes :
             /\ pending' = [LivePending EXCEPT ![q].decision = "approved", ![q].code = d]
             /\ codes' = Put(LiveCodes, d, pending[q].app)
             /\ drawn' = drawn \cup {d}
      BY <1>5 DEF Approve, Fresh
    <2>2. pending[q] \in Pendings
      BY <1>5 DEF Approve, OAuthTypeOK, IsMap
    <2>3. IsMap(pending', Auths, Pendings)
      BY <1>5, <2>1, <2>2 DEF Approve, IsMap, Pendings
    <2>4. IsMap(codes', Codes, Apps)
      BY <2>1, <2>2, PutMap DEF Pendings
    <2>5. QED
      BY <1>5, <2>1, <2>3, <2>4 DEF Approve, OAuthTypeOK, Drawable
  <1>6. ASSUME NEW q \in Auths, Continue(q) PROVE OAuthTypeOK'
    <2>1. IsMap(pending', Auths, Pendings)
      BY <1>6, RestrictMap DEF Continue
    <2>2. pending[q] \in Pendings
      BY <1>6 DEF Continue, OAuthTypeOK, IsMap
    <2>3. handed' \subseteq Codes
      BY <1>6, <2>2 DEF Continue, Pendings, OAuthTypeOK
    <2>4. QED
      BY <1>6, <2>1, <2>3 DEF Continue, OAuthTypeOK
  <1>7. ASSUME NEW d \in Codes, Exchange(d) PROVE OAuthTypeOK'
    <2>1. PICK c \in Conns : /\ Issue([id |-> c, app |-> codes[d]], LiveRefresh, apps[codes[d]])
                             /\ born' = Put(born, c, d)
      BY <1>7 DEF Exchange, Fresh
    <2>2. [id |-> c, app |-> codes[d]] \in Connections
      BY <1>7 DEF Exchange, OAuthTypeOK, IsMap, Connections
    <2>3. /\ IsMap(tokens', Accesses, Connections)
          /\ IsMap(refresh', Refreshes, RefreshTokens)
          /\ drawn' \subseteq Drawable
      BY <2>1, <2>2, IssueMap
    <2>4. IsMap(born', Conns, Codes)
      BY <2>1, PutMap DEF OAuthTypeOK
    <2>5. IsMap(codes', Codes, Apps)
      BY <1>7, RestrictMap DEF Exchange
    <2>6. QED
      BY <1>7, <2>3, <2>4, <2>5 DEF Exchange, OAuthTypeOK
  <1>8. ASSUME NEW f \in Refreshes, Refresh(f) PROVE OAuthTypeOK'
    <2>1. refresh[f].conn \in Connections
      BY <1>8 DEF Refresh, OAuthTypeOK, IsMap, RefreshTokens
    <2>2. /\ IsMap(tokens', Accesses, Connections)
          /\ IsMap(refresh', Refreshes, RefreshTokens)
          /\ drawn' \subseteq Drawable
      BY <1>8, <2>1, MarkMap, IssueMap DEF Refresh
    <2>3. QED
      BY <1>8, <2>2 DEF Refresh, OAuthTypeOK
  <1>9. ASSUME NEW v \in Revokers, NEW f \in Refreshes, Reuse(v, f) PROVE OAuthTypeOK'
    <2>1. refresh[f].conn.id \in Conns
      BY <1>9 DEF Reuse, OAuthTypeOK, IsMap, RefreshTokens, Connections
    <2>2. QED
      BY <1>9, <2>1 DEF Reuse, Start, OAuthTypeOK, Revocations, worldVars
  <1>10. ASSUME NEW v \in Revokers, NEW c \in Conns, Revoke(v, c) PROVE OAuthTypeOK'
    BY <1>10 DEF Revoke, Start, OAuthTypeOK, Revocations, worldVars, tableVars
  <1>11. ASSUME NEW v \in Revokers, DropFamily(v) PROVE OAuthTypeOK'
    <2>1. revoker[v] \in Revocations
      BY <1>11 DEF DropFamily, OAuthTypeOK
    <2>2. revoker' \in [Revokers -> Revocations \cup {None}]
      BY <1>11, <2>1 DEF DropFamily, OAuthTypeOK, Revocations
    <2>3. revoked' \subseteq Conns
      BY <1>11, <2>1 DEF DropFamily, OAuthTypeOK, Revocations
    <2>4. QED
      BY <1>11, <2>2, <2>3, WithoutMap DEF DropFamily, OAuthTypeOK
  <1>12. ASSUME NEW d \in Auths \cup Codes \cup Conns, Age(d) PROVE OAuthTypeOK'
    BY <1>12 DEF Age, OAuthTypeOK, tableVars
  <1>13. QED
    BY <1>1, <1>2, <1>3, <1>4, <1>5, <1>6, <1>7, <1>8, <1>9, <1>10, <1>11, <1>12
    DEF OAuthNext

LEMMA NothingWithout ==
    ASSUME OAuthTypeOK
    PROVE  tokens = TokensWithout({}) /\ refresh = RefreshWithout({})
  BY DEF OAuthTypeOK, IsMap, TokensWithout, RefreshWithout, Restrict

(* Every step of the provider removes the tokens of some connections, or   *)
(* exchanges a code, or refreshes a token.                                 *)
LEMMA TokenSteps ==
    ASSUME OAuthTypeOK, OAuthNext
    PROVE  \/ \E S : /\ tokens' = TokensWithout(S)
                     /\ refresh' = RefreshWithout(S)
                     /\ born' = born
                     /\ revoked' \subseteq revoked \cup S
           \/ \E d \in Codes : Exchange(d)
           \/ \E f \in Refreshes : Refresh(f)
  <1> DEFINE Removes(S) == /\ tokens' = TokensWithout(S)
                           /\ refresh' = RefreshWithout(S)
                           /\ born' = born
                           /\ revoked' \subseteq revoked \cup S
  <1> DEFINE SomeRemoved == \E S : Removes(S)
  <1>1. ASSUME UNCHANGED <<tokens, refresh, born, revoked>> PROVE SomeRemoved
    BY <1>1, NothingWithout
  <1>2. ASSUME tokens' = LiveTokens, refresh' = LiveRefresh, UNCHANGED <<born, revoked>>
        PROVE  SomeRemoved
    BY <1>2 DEF LiveTokens, LiveRefresh
  <1>3. ASSUME NEW a \in Apps, NEW b \in BOOLEAN, Register(a, b) PROVE SomeRemoved
    BY <1>3, <1>1 DEF Register, worldVars
  <1>4. ASSUME CleanUp PROVE SomeRemoved
    BY <1>4, <1>2 DEF CleanUp, worldVars
  <1>5. ASSUME NEW a \in Apps, Authorize(a) PROVE SomeRemoved
    BY <1>5, <1>1 DEF Authorize
  <1>6. ASSUME NEW q \in Auths, Deny(q) \/ Approve(q) \/ Continue(q) PROVE SomeRemoved
    BY <1>6, <1>2 DEF Deny, Approve, Continue, worldVars
  <1>7. ASSUME NEW v \in Revokers, NEW f \in Refreshes, Reuse(v, f) PROVE SomeRemoved
    BY <1>7, <1>2 DEF Reuse, worldVars
  <1>8. ASSUME NEW v \in Revokers, NEW c \in Conns, Revoke(v, c) PROVE SomeRemoved
    BY <1>8, <1>1 DEF Revoke, worldVars, tableVars
  <1>9. ASSUME NEW v \in Revokers, DropFamily(v) PROVE SomeRemoved
    BY <1>9 DEF DropFamily
  <1>10. ASSUME NEW d \in Auths \cup Codes \cup Conns, Age(d) PROVE SomeRemoved
    BY <1>10, <1>1 DEF Age, tableVars
  <1> HIDE DEF SomeRemoved
  <1>11. SomeRemoved \/ (\E d \in Codes : Exchange(d)) \/ (\E f \in Refreshes : Refresh(f))
    BY <1>3, <1>4, <1>5, <1>6, <1>7, <1>8, <1>9, <1>10 DEF OAuthNext
  <1>12. QED
    BY <1>11 DEF SomeRemoved

LEMMA IssuedCases ==
    ASSUME NEW n, NEW old, Issued(n, old)
    PROVE  /\ \A y \in DOMAIN tokens' :
                 tokens'[y] = n \/ (y \in DOMAIN LiveTokens /\ tokens'[y] = LiveTokens[y])
           /\ \E f : \A g \in DOMAIN refresh' :
                 \/ g = f /\ refresh'[g].conn = n /\ ~refresh'[g].used
                 \/ g \in DOMAIN old /\ refresh'[g] = old[g]
  <1>1. PICK x \in Accesses \ drawn :
        /\ DOMAIN tokens' = DOMAIN LiveTokens \cup {x}
        /\ tokens'[x] = n
        /\ \A y \in DOMAIN LiveTokens \ {x} : tokens'[y] = LiveTokens[y]
        /\ \/ refresh' = old
           \/ \E f \in Refreshes \ drawn :
                 /\ DOMAIN refresh' = DOMAIN old \cup {f}
                 /\ refresh'[f] = [conn |-> n, used |-> FALSE]
                 /\ \A g \in DOMAIN old \ {f} : refresh'[g] = old[g]
    BY DEF Issued
  <1>2. \A y \in DOMAIN tokens' :
           tokens'[y] = n \/ (y \in DOMAIN LiveTokens /\ tokens'[y] = LiveTokens[y])
    BY <1>1
  <1>3. CASE refresh' = old
    BY <1>2, <1>3
  <1>4. CASE \E f \in Refreshes \ drawn :
                 /\ DOMAIN refresh' = DOMAIN old \cup {f}
                 /\ refresh'[f] = [conn |-> n, used |-> FALSE]
                 /\ \A g \in DOMAIN old \ {f} : refresh'[g] = old[g]
    BY <1>2, <1>4
  <1>5. QED
    BY <1>1, <1>3, <1>4

LEMMA ExchangeMap ==
    ASSUME OAuthTypeOK, NEW d \in Codes, Exchange(d)
    PROVE  /\ d \in DOMAIN codes
           /\ DOMAIN codes' = DOMAIN codes \ (over \cup {d})
           /\ \E c \in Conns \ drawn :
                 /\ Issued([id |-> c, app |-> codes[d]], LiveRefresh)
                 /\ drawn \cup {c} \subseteq drawn'
                 /\ DOMAIN born' = DOMAIN born \cup {c}
                 /\ born'[c] = d
                 /\ \A e \in DOMAIN born \ {c} : born'[e] = born[e]
  <1>1. PICK c \in Conns \ drawn : /\ Issue([id |-> c, app |-> codes[d]], LiveRefresh, apps[codes[d]])
                                   /\ born' = Put(born, c, d)
    BY DEF Exchange, Fresh
  <1>2. d \in DOMAIN codes /\ codes[d] \in Apps
    BY LiveMap DEF Exchange, OAuthTypeOK, IsMap
  <1> DEFINE n == [id |-> c, app |-> codes[d]]
  <1>3. n \in Connections /\ n.id = c
    BY <1>2 DEF Connections
  <1>4. Issue(n, LiveRefresh, apps[codes[d]])
    BY <1>1
  <1> HIDE DEF n
  <1>5. Issued(n, LiveRefresh) /\ drawn \cup {n.id} \subseteq drawn'
    BY <1>3, <1>4, LiveMap, IssueMap
  <1>6. IsMap(born, Conns, Codes)
    BY DEF OAuthTypeOK
  <1>7. /\ DOMAIN born' = DOMAIN born \cup {c}
        /\ born'[c] = d
        /\ \A e \in DOMAIN born \ {c} : born'[e] = born[e]
    BY <1>1, <1>6, PutMap
  <1>8. DOMAIN codes' = DOMAIN codes \ (over \cup {d})
    <2>1. DOMAIN LiveCodes \ {d} \in SUBSET DOMAIN LiveCodes
      OBVIOUS
    <2>2. DOMAIN codes' = DOMAIN LiveCodes \ {d}
      BY <2>1, LiveMap, RestrictMap DEF Exchange
    <2>3. QED
      BY <2>2, LiveMap
  <1>9. QED
    BY <1>2, <1>3, <1>5, <1>7, <1>8 DEF n

LEMMA RefreshMap ==
    ASSUME OAuthTypeOK, NEW f \in Refreshes, Refresh(f)
    PROVE  /\ f \in DOMAIN LiveRefresh /\ ~refresh[f].used
           /\ refresh[f].conn \in Connections
           /\ Issued(refresh[f].conn, [LiveRefresh EXCEPT ![f].used = TRUE])
           /\ drawn \subseteq drawn'
           /\ UNCHANGED <<born, revoked, revoker>>
  <1>1. f \in DOMAIN LiveRefresh /\ ~refresh[f].used
    BY DEF Refresh
  <1>2. refresh[f].conn \in Connections
    BY <1>1, LiveMap DEF OAuthTypeOK, IsMap, RefreshTokens
  <1>3. QED
    BY <1>1, <1>2, MarkMap, IssueMap DEF Refresh

-----------------------------------------------------------------------------
(* The parts of OAuthInv, over a step of the provider. *)

LEMMA NoResurrectionStep ==
    ASSUME OAuthTypeOK, OAuthNext, DrawnOnce, FamiliesKnown, NoResurrection
    PROVE  NoResurrection'
  <1>1. ASSUME NEW S, tokens' = TokensWithout(S), refresh' = RefreshWithout(S),
               revoked' \subseteq revoked \cup S
        PROVE  NoResurrection'
    BY <1>1, WithoutMap DEF NoResurrection
  <1>2. ASSUME NEW d \in Codes, Exchange(d) PROVE NoResurrection'
    <2>1. PICK c \in Conns \ drawn : Issued([id |-> c, app |-> codes[d]], LiveRefresh)
      BY <1>2, ExchangeMap
    <2>2. c \notin revoked /\ revoked' = revoked
      BY <1>2, <2>1 DEF DrawnOnce, FamiliesKnown, Exchange
    <2>3. /\ \A x \in DOMAIN LiveTokens : LiveTokens[x].id \notin revoked
          /\ \A f \in DOMAIN LiveRefresh : LiveRefresh[f].conn.id \notin revoked
      BY LiveMap DEF NoResurrection
    <2> DEFINE n == [id |-> c, app |-> codes[d]]
    <2>4. n.id \notin revoked /\ Issued(n, LiveRefresh)
      BY <2>1, <2>2
    <2> HIDE DEF n
    <2>5. QED
      BY <2>2, <2>3, <2>4, IssuedCases DEF NoResurrection
  <1>3. ASSUME NEW f \in Refreshes, Refresh(f) PROVE NoResurrection'
    <2> DEFINE old == [LiveRefresh EXCEPT ![f].used = TRUE]
    <2>1. f \in DOMAIN LiveRefresh /\ Issued(refresh[f].conn, old) /\ revoked' = revoked
      BY <1>3, RefreshMap
    <2>2. /\ \A x \in DOMAIN LiveTokens : LiveTokens[x].id \notin revoked
          /\ \A g \in DOMAIN LiveRefresh : LiveRefresh[g].conn.id \notin revoked
          /\ refresh[f].conn.id \notin revoked
      BY <2>1, LiveMap DEF NoResurrection
    <2>3. \A g \in DOMAIN old : old[g].conn.id \notin revoked
      BY <2>1, <2>2, MarkMap, LiveMap
    <2> HIDE DEF old
    <2>4. QED
      BY <2>1, <2>2, <2>3, IssuedCases DEF NoResurrection
  <1>4. QED
    BY <1>1, <1>2, <1>3, TokenSteps

LEMMA OneLiveRefreshStep ==
    ASSUME OAuthTypeOK, OAuthNext, DrawnOnce, FamiliesKnown, OneLiveRefresh
    PROVE  OneLiveRefresh'
  <1>1. ASSUME NEW S, refresh' = RefreshWithout(S) PROVE OneLiveRefresh'
    <2>1. \A f \in DOMAIN refresh' : f \in DOMAIN refresh /\ refresh'[f] = refresh[f]
      BY <1>1, WithoutMap
    <2>2. QED
      BY <2>1 DEF OneLiveRefresh
  <1>2. ASSUME NEW d \in Codes, Exchange(d) PROVE OneLiveRefresh'
    <2>1. PICK c \in Conns \ drawn : Issued([id |-> c, app |-> codes[d]], LiveRefresh)
      BY <1>2, ExchangeMap
    <2>2. \A f \in DOMAIN LiveRefresh : /\ f \in DOMAIN refresh
                                        /\ LiveRefresh[f] = refresh[f]
                                        /\ refresh[f].conn.id # c
      BY <2>1, LiveMap DEF DrawnOnce, FamiliesKnown
    <2> DEFINE n == [id |-> c, app |-> codes[d]]
    <2>3. n.id = c /\ Issued(n, LiveRefresh)
      BY <2>1
    <2> HIDE DEF n
    <2>4. PICK h : \A g \in DOMAIN refresh' :
                      \/ g = h /\ refresh'[g].conn = n
                      \/ g \in DOMAIN LiveRefresh /\ refresh'[g] = LiveRefresh[g]
      BY <2>3, IssuedCases
    <2>5. QED
      BY <2>2, <2>3, <2>4 DEF OneLiveRefresh
  <1>3. ASSUME NEW f \in Refreshes, Refresh(f) PROVE OneLiveRefresh'
    <2> DEFINE old == [LiveRefresh EXCEPT ![f].used = TRUE]
    <2>1. f \in DOMAIN LiveRefresh /\ ~refresh[f].used /\ Issued(refresh[f].conn, old)
      BY <1>3, RefreshMap
    <2>2. \A g \in DOMAIN old :
             old[g].used \/ (old[g].conn.id # refresh[f].conn.id /\ old[g] = refresh[g]
                               /\ g \in DOMAIN refresh)
      BY <2>1, MarkMap, LiveMap DEF OneLiveRefresh
    <2> HIDE DEF old
    <2>3. PICK h : \A g \in DOMAIN refresh' :
                      \/ g = h /\ refresh'[g].conn = refresh[f].conn
                      \/ g \in DOMAIN old /\ refresh'[g] = old[g]
      BY <2>1, IssuedCases
    <2>4. QED
      BY <2>2, <2>3 DEF OneLiveRefresh
  <1>4. QED
    BY <1>1, <1>2, <1>3, TokenSteps

LEMMA PairedStep ==
    ASSUME OAuthTypeOK, OAuthNext, DrawnOnce, Paired
    PROVE  Paired'
  <1>1. PICK m \in Injection(DOMAIN refresh, DOMAIN tokens) :
           \A f \in DOMAIN refresh : tokens[m[f]] = refresh[f].conn
    BY DEF Paired
  <1>2. /\ m \in [DOMAIN refresh -> DOMAIN tokens]
        /\ \A f, g \in DOMAIN refresh : m[f] = m[g] => f = g
    BY <1>1 DEF Injection, IsInjective
  (* The pairing of what stays. *)
  <1>3. ASSUME NEW S PROVE \A f \in DOMAIN RefreshWithout(S) :
                              /\ f \in DOMAIN refresh
                              /\ m[f] \in DOMAIN TokensWithout(S)
                              /\ TokensWithout(S)[m[f]] = RefreshWithout(S)[f].conn
    <2>1. SUFFICES ASSUME NEW f \in DOMAIN RefreshWithout(S)
                   PROVE  /\ f \in DOMAIN refresh
                          /\ m[f] \in DOMAIN TokensWithout(S)
                          /\ TokensWithout(S)[m[f]] = RefreshWithout(S)[f].conn
      OBVIOUS
    <2>2. f \in DOMAIN refresh /\ refresh[f].conn.id \notin S /\ RefreshWithout(S)[f] = refresh[f]
      BY WithoutMap
    <2>3. m[f] \in DOMAIN tokens /\ tokens[m[f]] = refresh[f].conn
      BY <1>1, <1>2, <2>2
    <2>4. m[f] \in {x \in DOMAIN tokens : tokens[x].id \notin S}
      BY <2>2, <2>3
    <2>5. /\ DOMAIN TokensWithout(S) = {x \in DOMAIN tokens : tokens[x].id \notin S}
          /\ \A x \in DOMAIN TokensWithout(S) : TokensWithout(S)[x] = tokens[x]
      BY WithoutMap
    <2>6. QED
      BY <2>2, <2>3, <2>4, <2>5
  <1>4. ASSUME NEW S, tokens' = TokensWithout(S), refresh' = RefreshWithout(S) PROVE Paired'
    <2> DEFINE l == [f \in DOMAIN refresh' |-> m[f]]
    <2>1. l \in Injection(DOMAIN refresh', DOMAIN tokens')
      BY <1>2, <1>3, <1>4 DEF Injection, IsInjective
    <2>2. \A f \in DOMAIN refresh' : tokens'[l[f]] = refresh'[f].conn
      BY <1>3, <1>4
    <2>3. QED
      BY <2>1, <2>2 DEF Paired
  (* The pairing with what is issued. *)
  <1>5. ASSUME NEW n, NEW old, Issued(n, old), DOMAIN old = DOMAIN LiveRefresh,
               \A f \in DOMAIN old : old[f].conn = LiveRefresh[f].conn
        PROVE  Paired'
    <2>1. \A f \in DOMAIN old : /\ f \in DOMAIN refresh
                                /\ m[f] \in DOMAIN LiveTokens
                                /\ LiveTokens[m[f]] = old[f].conn
      BY <1>3, <1>5 DEF LiveRefresh, LiveTokens
    <2>2. PICK x \in Accesses \ drawn :
             /\ DOMAIN tokens' = DOMAIN LiveTokens \cup {x}
             /\ tokens'[x] = n
             /\ \A y \in DOMAIN LiveTokens \ {x} : tokens'[y] = LiveTokens[y]
             /\ \/ refresh' = old
                \/ \E f \in Refreshes \ drawn :
                      /\ DOMAIN refresh' = DOMAIN old \cup {f}
                      /\ refresh'[f] = [conn |-> n, used |-> FALSE]
                      /\ \A g \in DOMAIN old \ {f} : refresh'[g] = old[g]
      BY <1>5 DEF Issued
    <2>3. x \notin DOMAIN LiveTokens
      BY <2>2, LiveMap DEF DrawnOnce
    <2>4. CASE refresh' = old
      <3> DEFINE l == [f \in DOMAIN refresh' |-> m[f]]
      <3>1. l \in Injection(DOMAIN refresh', DOMAIN tokens')
        BY <1>2, <2>1, <2>2, <2>4 DEF Injection, IsInjective
      <3>2. \A f \in DOMAIN refresh' : tokens'[l[f]] = refresh'[f].conn
        BY <2>1, <2>2, <2>3, <2>4
      <3>3. QED
        BY <3>1, <3>2 DEF Paired
    <2>5. CASE \E f \in Refreshes \ drawn :
                  /\ DOMAIN refresh' = DOMAIN old \cup {f}
                  /\ refresh'[f] = [conn |-> n, used |-> FALSE]
                  /\ \A g \in DOMAIN old \ {f} : refresh'[g] = old[g]
      <3>1. PICK f \in Refreshes \ drawn :
                  /\ DOMAIN refresh' = DOMAIN old \cup {f}
                  /\ refresh'[f] = [conn |-> n, used |-> FALSE]
                  /\ \A g \in DOMAIN old \ {f} : refresh'[g] = old[g]
        BY <2>5
      <3>2. f \notin DOMAIN old
        BY <3>1, <2>1 DEF DrawnOnce
      <3> DEFINE l == [g \in DOMAIN refresh' |-> IF g = f THEN x ELSE m[g]]
      <3>3. l \in [DOMAIN refresh' -> DOMAIN tokens']
        BY <2>1, <2>2, <3>1
      <3>4. \A g, h \in DOMAIN refresh' : l[g] = l[h] => g = h
        BY <1>2, <2>1, <2>3, <3>1, <3>2
      <3>5. l \in Injection(DOMAIN refresh', DOMAIN tokens')
        BY <3>3, <3>4 DEF Injection, IsInjective
      <3>6. \A g \in DOMAIN refresh' : tokens'[l[g]] = refresh'[g].conn
        BY <2>1, <2>2, <2>3, <3>1, <3>2
      <3>7. QED
        BY <3>5, <3>6 DEF Paired
    <2>6. QED
      BY <2>2, <2>4, <2>5
  <1>6. ASSUME NEW d \in Codes, Exchange(d) PROVE Paired'
    BY <1>6, <1>5, ExchangeMap
  <1>7. ASSUME NEW f \in Refreshes, Refresh(f) PROVE Paired'
    <2> DEFINE old == [LiveRefresh EXCEPT ![f].used = TRUE]
    <2>1. /\ Issued(refresh[f].conn, old)
          /\ DOMAIN old = DOMAIN LiveRefresh
          /\ \A g \in DOMAIN old : old[g].conn = LiveRefresh[g].conn
      <3>1. f \in DOMAIN LiveRefresh /\ Issued(refresh[f].conn, old)
        BY <1>7, RefreshMap
      <3>2. /\ DOMAIN old = DOMAIN LiveRefresh
            /\ old[f] = [conn |-> refresh[f].conn, used |-> TRUE]
            /\ \A g \in DOMAIN old \ {f} : old[g] = refresh[g]
        BY <3>1, MarkMap
      <3>3. \A g \in DOMAIN LiveRefresh : LiveRefresh[g] = refresh[g]
        BY LiveMap
      <3> HIDE DEF old
      <3>4. QED
        BY <3>1, <3>2, <3>3
    <2> HIDE DEF old
    <2>2. QED
      BY <2>1, <1>5
  <1>8. QED
    BY <1>4, <1>6, <1>7, TokenSteps

(* What the provider knows of authorizations and codes: it forgets some,   *)
(* or Authorize, Approve or Exchange runs.                                 *)
LEMMA CodeSteps ==
    ASSUME OAuthTypeOK, OAuthNext
    PROVE  \/ /\ DOMAIN pending' \subseteq DOMAIN pending
              /\ \A q \in DOMAIN pending' : pending'[q].code = pending[q].code
              /\ DOMAIN codes' \subseteq DOMAIN codes
              /\ born' = born
              /\ drawn \subseteq drawn'
           \/ \E a \in Apps : Authorize(a)
           \/ \E q \in Auths : Approve(q)
           \/ \E d \in Codes : Exchange(d)
  <1> DEFINE Forgets == /\ DOMAIN pending' \subseteq DOMAIN pending
                        /\ \A q \in DOMAIN pending' : pending'[q].code = pending[q].code
                        /\ DOMAIN codes' \subseteq DOMAIN codes
                        /\ born' = born
                        /\ drawn \subseteq drawn'
  <1>1. ASSUME UNCHANGED <<pending, codes, born, drawn>> PROVE Forgets
    BY <1>1
  <1>2. ASSUME pending' = LivePending, codes' = LiveCodes, UNCHANGED born,
               drawn \subseteq drawn'
        PROVE  Forgets
    <2>1. /\ DOMAIN LivePending \subseteq DOMAIN pending
          /\ DOMAIN LiveCodes \subseteq DOMAIN codes
          /\ \A q \in DOMAIN LivePending : LivePending[q] = pending[q]
      BY LiveMap
    <2>2. QED
      BY <1>2, <2>1
  <1>3. ASSUME NEW a \in Apps, NEW b \in BOOLEAN, Register(a, b) PROVE Forgets
    BY <1>3 DEF Register, worldVars
  <1>4. ASSUME CleanUp PROVE Forgets
    BY <1>4, <1>2 DEF CleanUp, worldVars
  <1>5. ASSUME NEW q \in Auths, Deny(q) PROVE Forgets
    <2>1. /\ DOMAIN LivePending \subseteq DOMAIN pending
          /\ DOMAIN LiveCodes \subseteq DOMAIN codes
          /\ \A r \in DOMAIN LivePending : LivePending[r] = pending[r]
          /\ pending[q] \in Pendings
      BY <1>5, LiveMap DEF Deny, OAuthTypeOK, IsMap
    <2>2. /\ DOMAIN pending' = DOMAIN LivePending
          /\ \A r \in DOMAIN LivePending : pending'[r].code = LivePending[r].code
      BY <1>5, LiveMap DEF Deny, IsMap, Pendings
    <2>3. QED
      BY <1>5, <2>1, <2>2 DEF Deny, worldVars
  <1>6. ASSUME NEW q \in Auths, Continue(q) PROVE Forgets
    <2>1. /\ DOMAIN LivePending \subseteq DOMAIN pending
          /\ DOMAIN LiveCodes \subseteq DOMAIN codes
          /\ \A r \in DOMAIN LivePending : LivePending[r] = pending[r]
          /\ IsMap(LivePending, Auths, Pendings)
      BY LiveMap
    <2>2. DOMAIN LivePending \ {q} \in SUBSET DOMAIN LivePending
      OBVIOUS
    <2>3. /\ DOMAIN pending' = DOMAIN LivePending \ {q}
          /\ \A r \in DOMAIN LivePending \ {q} : pending'[r] = LivePending[r]
      BY <1>6, <2>1, <2>2, RestrictMap DEF Continue
    <2>4. QED
      BY <1>6, <2>1, <2>3 DEF Continue
  <1>7. ASSUME NEW f \in Refreshes, Refresh(f) PROVE Forgets
    BY <1>7, <1>2, RefreshMap DEF Refresh
  <1>8. ASSUME NEW v \in Revokers, NEW f \in Refreshes, Reuse(v, f) PROVE Forgets
    BY <1>8, <1>2 DEF Reuse, worldVars
  <1>9. ASSUME NEW v \in Revokers, NEW c \in Conns, Revoke(v, c) PROVE Forgets
    BY <1>9 DEF Revoke, worldVars, tableVars
  <1>10. ASSUME NEW v \in Revokers, DropFamily(v) PROVE Forgets
    BY <1>10 DEF DropFamily
  <1>11. ASSUME NEW d \in Auths \cup Codes \cup Conns, Age(d) PROVE Forgets
    BY <1>11 DEF Age, tableVars
  <1> HIDE DEF Forgets
  <1>12. \/ Forgets
         \/ \E a \in Apps : Authorize(a)
         \/ \E q \in Auths : Approve(q)
         \/ \E d \in Codes : Exchange(d)
    BY <1>3, <1>4, <1>5, <1>6, <1>7, <1>8, <1>9, <1>10, <1>11 DEF OAuthNext
  <1>13. QED
    BY <1>12 DEF Forgets

LEMMA AuthorizeMap ==
    ASSUME OAuthTypeOK, NEW a \in Apps, Authorize(a)
    PROVE  \E q \in Auths \ drawn :
              /\ DOMAIN pending' = DOMAIN pending \cup {q}
              /\ pending'[q].code = None
              /\ \A r \in DOMAIN pending \ {q} : pending'[r] = pending[r]
              /\ drawn' = drawn \cup {q}
  <1>1. PICK q \in Auths \ drawn :
           /\ pending' = Put(pending, q, [app |-> a, decision |-> "pending", code |-> None])
           /\ drawn' = drawn \cup {q}
    BY DEF Authorize, Fresh
  <1> DEFINE new == [app |-> a, decision |-> "pending", code |-> None]
  <1>2. new \in Pendings /\ new.code = None /\ pending' = Put(pending, q, new)
    BY <1>1 DEF Pendings
  <1> HIDE DEF new
  <1>3. IsMap(pending, Auths, Pendings)
    BY DEF OAuthTypeOK
  <1>4. q \in Auths
    OBVIOUS
  <1>5. /\ DOMAIN pending' = DOMAIN pending \cup {q}
        /\ pending'[q] = new
        /\ \A r \in DOMAIN pending \ {q} : pending'[r] = pending[r]
    BY <1>2, <1>3, <1>4, PutMap
  <1>6. QED
    BY <1>1, <1>2, <1>5

LEMMA ApproveMap ==
    ASSUME OAuthTypeOK, NEW q \in Auths, Approve(q)
    PROVE  \E d \in Codes \ drawn :
              /\ DOMAIN pending' = DOMAIN LivePending
              /\ q \in DOMAIN LivePending
              /\ pending'[q].code = d
              /\ \A r \in DOMAIN LivePending \ {q} : pending'[r] = pending[r]
              /\ DOMAIN codes' = DOMAIN LiveCodes \cup {d}
              /\ drawn' = drawn \cup {d}
  <1>1. PICK d \in Codes \ drawn :
           /\ pending' = [LivePending EXCEPT ![q].decision = "approved", ![q].code = d]
           /\ codes' = Put(LiveCodes, d, pending[q].app)
           /\ drawn' = drawn \cup {d}
    BY DEF Approve, Fresh
  <1>2. q \in DOMAIN LivePending
    BY DEF Approve
  <1>3. /\ DOMAIN pending' = DOMAIN LivePending
        /\ \A r \in DOMAIN LivePending \ {q} : pending'[r] = pending[r]
    BY <1>1, <1>2, LiveMap DEF IsMap
  <1>4. pending'[q].code = d
    BY <1>1, <1>2, LiveMap DEF IsMap, Pendings
  <1>5. pending[q].app \in Apps
    BY <1>2, LiveMap DEF OAuthTypeOK, IsMap, Pendings
  <1>6. DOMAIN codes' = DOMAIN LiveCodes \cup {d}
    <2>1. d \in Codes /\ IsMap(LiveCodes, Codes, Apps)
      BY LiveMap
    <2> DEFINE a == pending[q].app
    <2>2. a \in Apps /\ codes' = Put(LiveCodes, d, a)
      BY <1>1, <1>5
    <2> HIDE DEF a
    <2>3. QED
      BY <2>1, <2>2, PutMap
  <1>7. QED
    BY <1>1, <1>2, <1>3, <1>4, <1>6
-----------------------------------------------------------------------------
LEMMA DrawnGrows == ASSUME OAuthTypeOK, OAuthNext PROVE drawn \subseteq drawn'
  <1>1. ASSUME NEW a \in Apps, Authorize(a) PROVE drawn \subseteq drawn'
    BY <1>1 DEF Authorize
  <1>2. ASSUME NEW q \in Auths, Approve(q) PROVE drawn \subseteq drawn'
    BY <1>2 DEF Approve
  <1>3. ASSUME NEW d \in Codes, Exchange(d) PROVE drawn \subseteq drawn'
    BY <1>3, ExchangeMap
  <1>4. QED
    BY <1>1, <1>2, <1>3, CodeSteps

LEMMA DrawnOnceStep ==
    ASSUME OAuthTypeOK, OAuthNext, DrawnOnce
    PROVE  DrawnOnce'
  <1> DEFINE Codings == /\ DOMAIN pending' \cup DOMAIN codes' \cup DOMAIN born' \subseteq drawn'
                        /\ \A q \in DOMAIN pending' : pending'[q].code \in drawn' \cup {None}
                        /\ \A c \in DOMAIN born' : born'[c] \in drawn' \ DOMAIN codes'
  <1>1. Codings
    <2>1. ASSUME DOMAIN pending' \subseteq DOMAIN pending,
                 \A q \in DOMAIN pending' : pending'[q].code = pending[q].code,
                 DOMAIN codes' \subseteq DOMAIN codes,
                 born' = born,
                 drawn \subseteq drawn'
          PROVE  Codings
      BY <2>1 DEF DrawnOnce
    <2>2. ASSUME NEW a \in Apps, Authorize(a) PROVE Codings
      <3>1. UNCHANGED <<codes, born>>
        BY <2>2 DEF Authorize
      <3>2. QED
        BY <2>2, <3>1, AuthorizeMap DEF DrawnOnce
    <2>3. ASSUME NEW q \in Auths, Approve(q) PROVE Codings
      <3>1. UNCHANGED born
        BY <2>3 DEF Approve
      <3>2. /\ DOMAIN LivePending \subseteq DOMAIN pending
            /\ DOMAIN LiveCodes \subseteq DOMAIN codes
        BY LiveMap
      <3>3. PICK d \in Codes \ drawn :
              /\ DOMAIN pending' = DOMAIN LivePending
              /\ pending'[q].code = d
              /\ \A r \in DOMAIN LivePending \ {q} : pending'[r] = pending[r]
              /\ DOMAIN codes' = DOMAIN LiveCodes \cup {d}
              /\ drawn' = drawn \cup {d}
        BY <2>3, ApproveMap
      <3>4. \A r \in DOMAIN pending' : pending'[r].code \in drawn' \cup {None}
        BY <3>2, <3>3 DEF DrawnOnce
      <3>5. QED
        BY <3>1, <3>2, <3>3, <3>4 DEF DrawnOnce
    <2>4. ASSUME NEW d \in Codes, Exchange(d) PROVE Codings
      <3>1. /\ pending' = LivePending
            /\ DOMAIN LivePending \subseteq DOMAIN pending
            /\ \A q \in DOMAIN LivePending : LivePending[q] = pending[q]
        BY <2>4, LiveMap DEF Exchange
      <3>2. PICK c \in Conns \ drawn :
              /\ drawn \cup {c} \subseteq drawn'
              /\ DOMAIN born' = DOMAIN born \cup {c}
              /\ born'[c] = d
              /\ \A e \in DOMAIN born \ {c} : born'[e] = born[e]
        BY <2>4, ExchangeMap
      <3>3. d \in DOMAIN codes /\ DOMAIN codes' = DOMAIN codes \ (over \cup {d})
        BY <2>4, ExchangeMap
      <3>4. QED
        BY <3>1, <3>2, <3>3 DEF DrawnOnce
    <2> HIDE DEF Codings
    <2>5. QED
      BY <2>1, <2>2, <2>3, <2>4, CodeSteps
  <1>2. DOMAIN tokens' \cup DOMAIN refresh' \subseteq drawn'
    <2>1. ASSUME NEW S, tokens' = TokensWithout(S), refresh' = RefreshWithout(S)
          PROVE  DOMAIN tokens' \cup DOMAIN refresh' \subseteq drawn
      <3>1. DOMAIN tokens' \subseteq DOMAIN tokens /\ DOMAIN refresh' \subseteq DOMAIN refresh
        BY <2>1, WithoutMap
      <3>2. QED
        BY <3>1 DEF DrawnOnce
    <2>2. ASSUME NEW n, NEW old, Issued(n, old), DOMAIN old = DOMAIN LiveRefresh
          PROVE  DOMAIN tokens' \cup DOMAIN refresh' \subseteq drawn'
      <3>1. DOMAIN LiveTokens \cup DOMAIN LiveRefresh \subseteq drawn'
        BY LiveMap, DrawnGrows DEF DrawnOnce
      <3>2. QED
        BY <2>2, <3>1 DEF Issued
    <2>3. ASSUME NEW d \in Codes, Exchange(d)
          PROVE  DOMAIN tokens' \cup DOMAIN refresh' \subseteq drawn'
      <3>1. \E n : Issued(n, LiveRefresh)
        BY <2>3, ExchangeMap
      <3>2. QED
        BY <3>1, <2>2
    <2>4. ASSUME NEW f \in Refreshes, Refresh(f)
          PROVE  DOMAIN tokens' \cup DOMAIN refresh' \subseteq drawn'
      <3> DEFINE old == [LiveRefresh EXCEPT ![f].used = TRUE]
      <3>1. Issued(refresh[f].conn, old) /\ DOMAIN old = DOMAIN LiveRefresh
        BY <2>4, RefreshMap, MarkMap
      <3> HIDE DEF old
      <3>2. QED
        BY <3>1, <2>2
    <2>5. QED
      BY <2>1, <2>3, <2>4, TokenSteps, DrawnGrows
  <1>3. QED
    BY <1>1, <1>2 DEF DrawnOnce

LEMMA FamiliesKnownStep ==
    ASSUME OAuthTypeOK, OAuthNext, FamiliesKnown
    PROVE  FamiliesKnown'
  <1> DEFINE Tokens == /\ \A x \in DOMAIN tokens' : tokens'[x].id \in DOMAIN born'
                       /\ \A f \in DOMAIN refresh' : refresh'[f].conn.id \in DOMAIN born'
                       /\ DOMAIN born \subseteq DOMAIN born'
  <1>1. Tokens
    <2>1. ASSUME NEW S, tokens' = TokensWithout(S), refresh' = RefreshWithout(S), born' = born
          PROVE  Tokens
      <3>1. /\ \A x \in DOMAIN tokens' : x \in DOMAIN tokens /\ tokens'[x] = tokens[x]
            /\ \A f \in DOMAIN refresh' : f \in DOMAIN refresh /\ refresh'[f] = refresh[f]
        BY <2>1, WithoutMap
      <3>2. QED
        BY <2>1, <3>1 DEF FamiliesKnown
    <2>2. ASSUME NEW n, NEW old, Issued(n, old), n.id \in DOMAIN born',
                 DOMAIN born \subseteq DOMAIN born',
                 \A g \in DOMAIN old : old[g].conn.id \in DOMAIN born
          PROVE  Tokens
      <3>1. \A x \in DOMAIN LiveTokens : LiveTokens[x].id \in DOMAIN born
        BY LiveMap DEF FamiliesKnown
      <3>2. QED
        BY <2>2, <3>1, IssuedCases
    <2>3. ASSUME NEW d \in Codes, Exchange(d) PROVE Tokens
      <3>1. PICK c \in Conns \ drawn :
              /\ Issued([id |-> c, app |-> codes[d]], LiveRefresh)
              /\ DOMAIN born' = DOMAIN born \cup {c}
        BY <2>3, ExchangeMap
      <3> DEFINE n == [id |-> c, app |-> codes[d]]
      <3>2. Issued(n, LiveRefresh) /\ n.id \in DOMAIN born' /\ DOMAIN born \subseteq DOMAIN born'
        BY <3>1
      <3> HIDE DEF n
      <3>3. \A g \in DOMAIN LiveRefresh : LiveRefresh[g].conn.id \in DOMAIN born
        BY LiveMap DEF FamiliesKnown
      <3> HIDE DEF Tokens
      <3>4. QED
        BY <3>2, <3>3, <2>2
    <2>4. ASSUME NEW f \in Refreshes, Refresh(f) PROVE Tokens
      <3> DEFINE old == [LiveRefresh EXCEPT ![f].used = TRUE]
      <3>1. f \in DOMAIN LiveRefresh /\ Issued(refresh[f].conn, old) /\ born' = born
        BY <2>4, RefreshMap
      <3>2. /\ DOMAIN old = DOMAIN LiveRefresh
            /\ old[f] = [conn |-> refresh[f].conn, used |-> TRUE]
            /\ \A g \in DOMAIN old \ {f} : old[g] = refresh[g]
        BY <3>1, MarkMap
      <3> HIDE DEF old
      <3>3. \A g \in DOMAIN LiveRefresh : g \in DOMAIN refresh
        BY LiveMap
      <3>4. \A g \in DOMAIN old : old[g].conn.id \in DOMAIN born
        BY <3>1, <3>2, <3>3 DEF FamiliesKnown
      <3>5. refresh[f].conn.id \in DOMAIN born'
        BY <3>1, <3>3 DEF FamiliesKnown
      <3> HIDE DEF Tokens
      <3>6. QED
        BY <3>1, <3>4, <3>5, <2>2
    <2> HIDE DEF Tokens
    <2>5. QED
      BY <2>1, <2>3, <2>4, TokenSteps
  <1> DEFINE Revoking == /\ \A v \in Revokers : revoker'[v] # None => revoker'[v].id \in DOMAIN born
                         /\ \A v \in Revokers :
                               revoker'[v] # None /\ revoker'[v].stage = "tell" =>
                                   revoker'[v].id \in revoked'
                         /\ revoked' \subseteq DOMAIN born
  <1>2. Revoking
    <2>1. ASSUME UNCHANGED <<revoker, revoked>> PROVE Revoking
      BY <2>1 DEF FamiliesKnown
    <2>2. ASSUME NEW v \in Revokers, NEW id \in DOMAIN born, Start(v, id), UNCHANGED revoked
          PROVE  Revoking
      BY <2>2 DEF Start, FamiliesKnown, OAuthTypeOK
    <2>3. ASSUME NEW v \in Revokers, NEW f \in Refreshes, Reuse(v, f) PROVE Revoking
      <3>1. f \in DOMAIN refresh /\ Start(v, refresh[f].conn.id) /\ UNCHANGED revoked
        BY <2>3, LiveMap DEF Reuse, worldVars
      <3>2. QED
        BY <3>1, <2>2 DEF FamiliesKnown
    <2>4. ASSUME NEW v \in Revokers, NEW c \in Conns, Revoke(v, c) PROVE Revoking
      BY <2>4, <2>2 DEF Revoke, worldVars
    <2>5. ASSUME NEW v \in Revokers, DropFamily(v) PROVE Revoking
      <3>1. revoker[v] \in Revocations /\ revoker[v].id \in DOMAIN born
        BY <2>5 DEF DropFamily, FamiliesKnown, OAuthTypeOK
      <3>2. /\ revoked' = revoked \cup {revoker[v].id}
            /\ revoker' = [revoker EXCEPT ![v].stage = "tell"]
        BY <2>5 DEF DropFamily
      <3>3. revoker'[v].id = revoker[v].id /\ \A w \in Revokers \ {v} : revoker'[w] = revoker[w]
        BY <3>1, <3>2 DEF OAuthTypeOK, Revocations
      <3>4. QED
        BY <3>1, <3>2, <3>3 DEF FamiliesKnown
    <2> HIDE DEF Revoking
    <2>6. ASSUME NEW a \in Apps, NEW b \in BOOLEAN, Register(a, b) PROVE Revoking
      BY <2>6, <2>1 DEF Register, worldVars
    <2>7. ASSUME CleanUp PROVE Revoking
      BY <2>7, <2>1 DEF CleanUp, worldVars
    <2>8. ASSUME NEW a \in Apps, Authorize(a) PROVE Revoking
      BY <2>8, <2>1 DEF Authorize
    <2>9. ASSUME NEW q \in Auths, Deny(q) \/ Approve(q) \/ Continue(q) PROVE Revoking
      BY <2>9, <2>1 DEF Deny, Approve, Continue, worldVars
    <2>10. ASSUME NEW d \in Codes, Exchange(d) PROVE Revoking
      BY <2>10, <2>1 DEF Exchange
    <2>11. ASSUME NEW f \in Refreshes, Refresh(f) PROVE Revoking
      BY <2>11, <2>1 DEF Refresh
    <2>12. ASSUME NEW d \in Auths \cup Codes \cup Conns, Age(d) PROVE Revoking
      BY <2>12, <2>1 DEF Age
    <2>13. QED
      BY <2>3, <2>4, <2>5, <2>6, <2>7, <2>8, <2>9, <2>10, <2>11, <2>12 DEF OAuthNext
  <1>3. QED
    BY <1>1, <1>2 DEF FamiliesKnown

LEMMA CodeYieldsStep ==
    ASSUME OAuthTypeOK, OAuthNext, DrawnOnce, CodeYieldsOneConnection
    PROVE  CodeYieldsOneConnection'
  <1>1. ASSUME DOMAIN pending' \subseteq DOMAIN pending,
               \A q \in DOMAIN pending' : pending'[q].code = pending[q].code,
               born' = born
        PROVE  CodeYieldsOneConnection'
    BY <1>1 DEF CodeYieldsOneConnection
  <1>2. ASSUME NEW a \in Apps, Authorize(a) PROVE CodeYieldsOneConnection'
    <2>1. PICK q : /\ DOMAIN pending' = DOMAIN pending \cup {q}
                   /\ pending'[q].code = None
                   /\ \A r \in DOMAIN pending \ {q} : pending'[r] = pending[r]
      BY <1>2, AuthorizeMap
    <2>2. born' = born
      BY <1>2 DEF Authorize
    <2>3. QED
      BY <2>1, <2>2 DEF CodeYieldsOneConnection
  <1>3. ASSUME NEW q \in Auths, Approve(q) PROVE CodeYieldsOneConnection'
    <2>1. PICK d \in Codes \ drawn :
            /\ DOMAIN pending' = DOMAIN LivePending
            /\ pending'[q].code = d
            /\ \A r \in DOMAIN LivePending \ {q} : pending'[r] = pending[r]
      BY <1>3, ApproveMap
    <2>2. DOMAIN LivePending \subseteq DOMAIN pending /\ d # None
      BY LiveMap, OAuthAssumption DEF Drawable
    <2>3. \A r \in DOMAIN pending' \ {q} :
             r \in DOMAIN pending /\ pending'[r].code = pending[r].code /\ pending'[r].code # d
      BY <2>1, <2>2 DEF DrawnOnce
    <2>4. born' = born
      BY <1>3 DEF Approve
    <2>5. QED
      BY <2>1, <2>3, <2>4 DEF CodeYieldsOneConnection
  <1>4. ASSUME NEW d \in Codes, Exchange(d) PROVE CodeYieldsOneConnection'
    <2>1. /\ DOMAIN pending' \subseteq DOMAIN pending
          /\ \A q \in DOMAIN pending' : pending'[q] = pending[q]
      BY <1>4, LiveMap DEF Exchange
    <2>2. PICK c \in Conns \ drawn :
            /\ DOMAIN born' = DOMAIN born \cup {c}
            /\ born'[c] = d
            /\ \A e \in DOMAIN born \ {c} : born'[e] = born[e]
      BY <1>4, ExchangeMap
    <2>3. d \in DOMAIN codes
      BY <1>4, ExchangeMap
    <2>4. \A e \in DOMAIN born : born[e] # d
      BY <2>3 DEF DrawnOnce
    <2>5. QED
      BY <2>1, <2>2, <2>4 DEF CodeYieldsOneConnection
  <1>5. QED
    BY <1>1, <1>2, <1>3, <1>4, CodeSteps

(* One step of the provider. *)
LEMMA OAuthStep ==
    OAuthTypeOK /\ OAuthInv /\ Paired /\ OAuthNext => OAuthTypeOK' /\ OAuthInv' /\ Paired'
  BY OAuthNextType, DrawnOnceStep, FamiliesKnownStep, NoResurrectionStep, CodeYieldsStep,
     OneLiveRefreshStep, PairedStep DEF OAuthInv

LEMMA OAuthStart == OAuthInit => OAuthInv /\ Paired
  <1>1. SUFFICES ASSUME OAuthInit PROVE OAuthInv /\ Paired
    OBVIOUS
  <1>2. OAuthInv
    BY <1>1 DEF OAuthInit, Empty, OAuthInv, DrawnOnce, FamiliesKnown, NoResurrection,
                CodeYieldsOneConnection, OneLiveRefresh
  <1>3. Paired
    <2>1. Empty \in Injection(DOMAIN refresh, DOMAIN tokens)
      BY <1>1 DEF OAuthInit, Empty, Injection, IsInjective
    <2>2. QED
      BY <1>1, <2>1 DEF OAuthInit, Empty, Paired
  <1>4. QED
    BY <1>2, <1>3
=============================================================================
