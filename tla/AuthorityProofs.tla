--------------------------- MODULE AuthorityProofs ---------------------------
(***************************************************************************)
(* Theorems about the broker composed with the guard, for any number of    *)
(* clients, supervisors, calls, recordings and tokens.                     *)
(*                                                                         *)
(* Type correctness first: the helpers that the handlers share, one lemma  *)
(* per action with a step for each part of the type invariant that it can  *)
(* disturb, and the induction.  Then what the broker promises: no          *)
(* authority survives a pause or a disconnect, uncertainty blocks, one     *)
(* grant per decision.                                                     *)
(***************************************************************************)
EXTENDS AuthorityProps, FiniteSetTheorems, TLAPS

USE DEF ruleVars, grantVars, retryVars, recVars, lockVars, threadVars

LEMMA PutType ==
    ASSUME NEW S, NEW f, f \in [DOMAIN f -> S], NEW k, NEW v \in S
    PROVE  /\ DOMAIN Put(f, k, v) = DOMAIN f \cup {k}
           /\ Put(f, k, v) \in [DOMAIN Put(f, k, v) -> S]
  BY DEF Put

LEMMA DropType ==
    ASSUME NEW S, NEW f, f \in [DOMAIN f -> S], NEW D
    PROVE  /\ DOMAIN Drop(f, D) = DOMAIN f \ D
           /\ Drop(f, D) \in [DOMAIN Drop(f, D) -> S]
  BY DEF Drop, Restrict

LEMMA RestrictType ==
    ASSUME NEW S, NEW f, f \in [DOMAIN f -> S], NEW D \in SUBSET DOMAIN f
    PROVE  /\ DOMAIN Restrict(f, D) = D
           /\ Restrict(f, D) \in [DOMAIN Restrict(f, D) -> S]
  BY DEF Restrict

(* A settled request keeps its type whatever state it settles in. *)
LEMMA SettleRequestType ==
    ASSUME NEW r \in Requests, NEW s \in RequestStates
    PROVE  [r EXCEPT !.state = s] \in Requests
  BY DEF Requests

LEMMA CancelRequestsType ==
    ASSUME requests \in [DOMAIN requests -> Requests], NEW S, CancelRequests(S)
    PROVE  /\ DOMAIN requests' = DOMAIN requests
           /\ requests' \in [DOMAIN requests' -> Requests]
  <1>1. \A r \in DOMAIN requests : [requests[r] EXCEPT !.state = "cancelled"] \in Requests
    BY SettleRequestType DEF RequestStates
  <1>2. QED
    BY <1>1 DEF CancelRequests

LEMMA DropGrantsType ==
    ASSUME GrantsOK, NEW S, DropGrants(S)
    PROVE  /\ DOMAIN grants' = DOMAIN grants \ S
           /\ grants' \in [DOMAIN grants' -> Grants]
           /\ expired' \subseteq expired
  BY DropType DEF DropGrants, GrantsOK

LEMMA ClearLockedType ==
    ASSUME GrantsOK, RecordingsOK, ClearLocked
    PROVE  GrantsOK' /\ cancelled' \subseteq Recorders
  <1>1. /\ DOMAIN requests' = DOMAIN requests
        /\ requests' \in [DOMAIN requests' -> Requests]
    BY CancelRequestsType DEF ClearLocked, GrantsOK
  <1>2. /\ DOMAIN grants' \subseteq DOMAIN grants
        /\ grants' \in [DOMAIN grants' -> Grants]
        /\ expired' \subseteq expired
    BY DropGrantsType DEF ClearLocked
  <1>3. QED
    BY <1>1, <1>2 DEF ClearLocked, GrantsOK, RecordingsOK, Registered

(* The four ways a lease table changes. *)
LEMMA GuardAuthorizeType ==
    ASSUME LeaseTypeOK, NEW t \in Tokens, NEW w \in Windows, NEW told \in BOOLEAN,
           GuardAuthorize(t, w, told)
    PROVE  LeaseTypeOK'
  BY DEF LeaseTypeOK, GuardAuthorize, Leases

LEMMA GuardExecutesType ==
    ASSUME LeaseTypeOK, NEW c \in Cleanups, GuardExecutes(c)
    PROVE  LeaseTypeOK'
  BY RestrictType DEF LeaseTypeOK, GuardExecutes, GuardClear, GuardRevoke

LEMMA LeaseEndsType ==
    ASSUME LeaseTypeOK, NEW t \in Tokens, LeaseEnds(t)
    PROVE  LeaseTypeOK'
  BY RestrictType DEF LeaseTypeOK, LeaseEnds

(* A decision for control names a window, and its handler has a token. *)
LEMMA ControlJob ==
    ASSUME TypeOK, NEW u \in UIs, pc[u] \in Deciding
    PROVE  /\ job[u] \in Jobs
           /\ tok[u] \in Tokens
           /\ job[u].cap = "control" => job[u].scope.id \in Windows
  <1>1. job[u] \in Jobs /\ tok[u] \in Tokens
    BY DEF TypeOK, ThreadsOK, LocalsOK, Threads
  <1>2. ASSUME job[u].cap = "control"
        PROVE  job[u].scope.id \in Windows
    <2>1. job[u].scope \in Scopes /\ job[u].scope.kind = "window"
      BY <1>1, <1>2 DEF Jobs, ValidScope
    <2>2. QED
      BY <2>1 DEF Scopes
  <1>3. QED
    BY <1>1, <1>2

LEMMA DecideType ==
    ASSUME TypeOK, NEW u \in UIs, NEW j \in Jobs, pc[u] = "ready", Decide(u, j)
    PROVE  TypeOK'
  <1>1. /\ RulesOK' /\ GrantsOK' /\ RetriesOK'
        /\ RecordingsOK' /\ LocksOK' /\ LeaseTypeOK'
    BY DEF TypeOK, Decide, RulesOK, GrantsOK, RetriesOK, RecordingsOK, LocksOK,
           LeaseTypeOK
  <1>2. ThreadsOK'
    BY DEF TypeOK, Decide, ThreadsOK, UIStates, Threads
  <1>3. LocalsOK'
    BY AuthorityAssumption
    DEF TypeOK, Decide, ThreadsOK, LocalsOK, Deciding, UIStates, CallStates, Threads
  <1>4. QED
    BY <1>1, <1>2, <1>3 DEF TypeOK

LEMMA InitType == Init => TypeOK
  <1> SUFFICES ASSUME Init PROVE TypeOK
    OBVIOUS
  <1>1. RulesOK /\ RetriesOK /\ LocksOK
    BY DEF Init, RulesOK, RetriesOK, LocksOK
  <1>2. GrantsOK
    BY DEF Init, GrantsOK
  <1>3. RecordingsOK
    BY DEF Init, RecordingsOK, Recordings, RecordPhases
  <1>4. ThreadsOK
    BY DEF Init, ThreadsOK, UIStates, CallStates, SessionStates, MaintStates,
           Threads
  <1>5. LocalsOK
    BY AuthorityAssumption
    DEF Init, LocalsOK, Threads, UIStates, CallStates, Deciding
  <1>6. LeaseTypeOK
    BY DEF Init, LeaseInit, LeaseTypeOK
  <1>7. QED
    BY <1>1, <1>2, <1>3, <1>4, <1>5, <1>6 DEF TypeOK

LEMMA UIOpenType ==
    ASSUME TypeOK, NEW u \in UIs, UIOpen(u)
    PROVE  TypeOK'
  <1>1. GrantsOK' /\ RetriesOK' /\ RecordingsOK' /\ LocksOK' /\ LeaseTypeOK'
    BY DEF TypeOK, UIOpen, GrantsOK, RetriesOK, RecordingsOK, LocksOK, LeaseTypeOK
  <1>2. RulesOK'
    BY DEF TypeOK, UIOpen, RulesOK
  <1>3. ThreadsOK'
    BY DEF TypeOK, UIOpen, ThreadsOK, UIStates, Threads
  <1>4. LocalsOK'
    BY AuthorityAssumption
    DEF TypeOK, UIOpen, LocalsOK, ThreadsOK, Deciding, UIStates, CallStates, Threads
  <1>5. QED
    BY <1>1, <1>2, <1>3, <1>4 DEF TypeOK

LEMMA UICloseType ==
    ASSUME TypeOK, NEW u \in UIs, UIClose(u)
    PROVE  TypeOK'
  <1>1. RetriesOK' /\ LocksOK' /\ LeaseTypeOK'
    BY DEF TypeOK, UIClose, RetriesOK, LocksOK, LeaseTypeOK
  <1>2. RulesOK'
    BY DEF TypeOK, UIClose, RulesOK
  <1>3. GrantsOK'
    BY ClearLockedType DEF TypeOK, UIClose, GrantsOK
  <1>4. RecordingsOK'
    BY ClearLockedType DEF TypeOK, UIClose, RecordingsOK
  <1>5. ThreadsOK'
    BY DEF TypeOK, UIClose, ThreadsOK, GoCleanUp, Cleanups, UIStates, Threads
  <1>6. LocalsOK'
    BY AuthorityAssumption
    DEF TypeOK, UIClose, LocalsOK, ThreadsOK, GoCleanUp, Deciding, UIStates,
        CallStates, Threads
  <1>7. QED
    BY <1>1, <1>2, <1>3, <1>4, <1>5, <1>6 DEF TypeOK

LEMMA PauseType ==
    ASSUME TypeOK, NEW u \in UIs, Pause(u)
    PROVE  TypeOK'
  <1>1. RetriesOK' /\ LocksOK' /\ LeaseTypeOK'
    BY DEF TypeOK, Pause, RetriesOK, LocksOK, LeaseTypeOK
  <1>2. RulesOK'
    BY DEF TypeOK, Pause, RulesOK
  <1>3. GrantsOK'
    BY ClearLockedType DEF TypeOK, Pause, GrantsOK
  <1>4. RecordingsOK'
    BY ClearLockedType DEF TypeOK, Pause, RecordingsOK
  <1>5. ThreadsOK'
    BY DEF TypeOK, Pause, ThreadsOK, GoCleanUp, Cleanups, UIStates, Threads
  <1>6. LocalsOK'
    BY AuthorityAssumption
    DEF TypeOK, Pause, LocalsOK, ThreadsOK, Command, GoCleanUp, Deciding, UIStates,
        CallStates, Threads
  <1>7. QED
    BY <1>1, <1>2, <1>3, <1>4, <1>5, <1>6 DEF TypeOK

LEMMA ResumeType ==
    ASSUME TypeOK, NEW u \in UIs, Resume(u)
    PROVE  TypeOK'
  <1>1. /\ RetriesOK' /\ RecordingsOK' /\ LocksOK'
        /\ ThreadsOK' /\ LocalsOK' /\ LeaseTypeOK'
    BY DEF TypeOK, Resume, RetriesOK, RecordingsOK, LocksOK, ThreadsOK, LocalsOK,
           LeaseTypeOK
  <1>2. RulesOK'
    BY DEF TypeOK, Resume, RulesOK
  <1>3. GrantsOK'
    BY DEF TypeOK, Resume, GrantsOK
  <1>4. QED
    BY <1>1, <1>2, <1>3 DEF TypeOK

LEMMA SetModeType ==
    ASSUME TypeOK, NEW u \in UIs, NEW m \in {"approve", "yolo"}, SetMode(u, m)
    PROVE  TypeOK'
  <1>1. RetriesOK' /\ LocksOK' /\ LeaseTypeOK'
    BY DEF TypeOK, SetMode, RetriesOK, LocksOK, LeaseTypeOK
  <1>2. RulesOK'
    BY DEF TypeOK, SetMode, RulesOK
  <1>3. GrantsOK'
    BY ClearLockedType DEF TypeOK, SetMode, GrantsOK
  <1>4. RecordingsOK'
    BY ClearLockedType DEF TypeOK, SetMode, RecordingsOK
  <1>5. ThreadsOK'
    BY DEF TypeOK, SetMode, ThreadsOK, GoCleanUp, Cleanups, UIStates, Threads
  <1>6. LocalsOK'
    BY AuthorityAssumption
    DEF TypeOK, SetMode, LocalsOK, ThreadsOK, Command, GoCleanUp, Deciding,
        UIStates, CallStates, Threads
  <1>7. QED
    BY <1>1, <1>2, <1>3, <1>4, <1>5, <1>6 DEF TypeOK

LEMMA RevokeAllType ==
    ASSUME TypeOK, NEW u \in UIs, RevokeAll(u)
    PROVE  TypeOK'
  <1>1. RulesOK' /\ RetriesOK' /\ LocksOK' /\ LeaseTypeOK'
    BY DEF TypeOK, RevokeAll, RulesOK, RetriesOK, LocksOK, LeaseTypeOK
  <1>2. GrantsOK'
    BY ClearLockedType DEF TypeOK, RevokeAll, GrantsOK
  <1>3. RecordingsOK'
    BY ClearLockedType DEF TypeOK, RevokeAll, RecordingsOK
  <1>4. ThreadsOK'
    BY DEF TypeOK, RevokeAll, ThreadsOK, GoCleanUp, Cleanups, UIStates, Threads
  <1>5. LocalsOK'
    BY AuthorityAssumption
    DEF TypeOK, RevokeAll, LocalsOK, ThreadsOK, Command, GoCleanUp, Deciding,
        UIStates, CallStates, Threads
  <1>6. QED
    BY <1>1, <1>2, <1>3, <1>4, <1>5 DEF TypeOK

LEMMA RevokeGrantType ==
    ASSUME TypeOK, NEW u \in UIs, NEW t \in Tokens, RevokeGrant(u, t)
    PROVE  TypeOK'
  <1>1. RulesOK' /\ RetriesOK' /\ RecordingsOK' /\ LocksOK' /\ LeaseTypeOK'
    BY DEF TypeOK, RevokeGrant, RulesOK, RetriesOK, RecordingsOK, LocksOK,
           LeaseTypeOK
  <1>2. GrantsOK'
    BY DropGrantsType DEF TypeOK, RevokeGrant, GrantsOK
  <1>3. ThreadsOK'
    BY DEF TypeOK, RevokeGrant, ThreadsOK, GoCleanUp, Cleanups, UIStates, Threads
  <1>4. LocalsOK'
    BY AuthorityAssumption
    DEF TypeOK, RevokeGrant, LocalsOK, ThreadsOK, Command, GoCleanUp, Deciding,
        UIStates, CallStates, Threads
  <1>5. QED
    BY <1>1, <1>2, <1>3, <1>4 DEF TypeOK

LEMMA DenyType ==
    ASSUME TypeOK, NEW u \in UIs, NEW r \in RequestIds, Deny(u, r)
    PROVE  TypeOK'
  <1>1. /\ RulesOK' /\ RetriesOK' /\ RecordingsOK' /\ LocksOK'
        /\ ThreadsOK' /\ LocalsOK' /\ LeaseTypeOK'
    BY DEF TypeOK, Deny, RulesOK, RetriesOK, RecordingsOK, LocksOK, ThreadsOK,
           LocalsOK, LeaseTypeOK
  <1>2. GrantsOK'
    BY SettleRequestType DEF TypeOK, Deny, GrantsOK, RequestStates
  <1>3. QED
    BY <1>1, <1>2 DEF TypeOK

LEMMA BeginShareType ==
    ASSUME TypeOK, NEW u \in UIs, NEW c \in Clients \cup {None}, NEW cap \in {"observe",
           "control"}, BeginShare(u, c, cap)
    PROVE  TypeOK'
  <1>1. /\ RulesOK' /\ RetriesOK' /\ RecordingsOK' /\ LocksOK'
        /\ ThreadsOK' /\ LocalsOK' /\ LeaseTypeOK'
    BY DEF TypeOK, BeginShare, RulesOK, RetriesOK, RecordingsOK, LocksOK, ThreadsOK,
           LocalsOK, LeaseTypeOK
  <1>2. GrantsOK'
    BY DEF TypeOK, BeginShare, GrantsOK, Pickers
  <1>3. QED
    BY <1>1, <1>2 DEF TypeOK

LEMMA CancelShareType ==
    ASSUME TypeOK, NEW u \in UIs, CancelShare(u)
    PROVE  TypeOK'
  <1>1. /\ RulesOK' /\ RetriesOK' /\ RecordingsOK' /\ LocksOK'
        /\ ThreadsOK' /\ LocalsOK' /\ LeaseTypeOK'
    BY DEF TypeOK, CancelShare, RulesOK, RetriesOK, RecordingsOK, LocksOK,
           ThreadsOK, LocalsOK, LeaseTypeOK
  <1>2. GrantsOK'
    BY DEF TypeOK, CancelShare, GrantsOK
  <1>3. QED
    BY <1>1, <1>2 DEF TypeOK

LEMMA ApproveType ==
    ASSUME TypeOK, NEW u \in UIs, NEW r \in RequestIds, Approve(u, r)
    PROVE  TypeOK'
  <1>1. [request |-> r, picker |-> None, client |-> requests[r].client,
         cap |-> requests[r].cap, scope |-> requests[r].scope] \in Jobs
    BY DEF TypeOK, GrantsOK, Approve, Requests, Jobs
  <1>2. QED
    BY <1>1, DecideType DEF Approve, Command

LEMMA SelectShareType ==
    ASSUME TypeOK, NEW u \in UIs, NEW c \in Clients, NEW w \in Windows, SelectShare(u, c,
           w)
    PROVE  TypeOK'
  <1>1. picker \in Pickers
    BY DEF TypeOK, GrantsOK, SelectShare
  <1>2. [request |-> None, picker |-> picker.id, client |-> c,
         cap |-> picker.cap, scope |-> WindowScope(w)] \in Jobs
    BY <1>1 DEF Pickers, Jobs, Capabilities, Scopes, WindowScope, ValidScope
  <1>3. QED
    BY <1>2, DecideType DEF SelectShare, Command

LEMMA LookupType ==
    ASSUME TypeOK, NEW u \in UIs, Lookup(u)
    PROVE  TypeOK'
  <1>1. RulesOK' /\ GrantsOK' /\ RetriesOK' /\ RecordingsOK' /\ LeaseTypeOK'
    BY DEF TypeOK, Lookup, RulesOK, GrantsOK, RetriesOK, RecordingsOK, LeaseTypeOK
  <1>2. LocksOK'
    BY DEF TypeOK, Lookup, LocksOK, Threads
  <1>3. ThreadsOK'
    BY DEF TypeOK, Lookup, ThreadsOK, UIStates, Threads
  <1>4. LocalsOK'
    BY AuthorityAssumption
    DEF TypeOK, Lookup, LocalsOK, ThreadsOK, Deciding, UIStates, CallStates, Threads
  <1>5. QED
    BY <1>1, <1>2, <1>3, <1>4 DEF TypeOK

LEMMA LookupFailsType ==
    ASSUME TypeOK, NEW u \in UIs, LookupFails(u)
    PROVE  TypeOK'
  <1>1. RulesOK' /\ RetriesOK' /\ RecordingsOK' /\ LocksOK' /\ LeaseTypeOK'
    BY DEF TypeOK, LookupFails, RulesOK, RetriesOK, RecordingsOK, LocksOK,
           LeaseTypeOK
  <1>2. GrantsOK'
    BY DEF TypeOK, LookupFails, GrantsOK, GiveUp, Settle
  <1>3. ThreadsOK'
    BY DEF TypeOK, LookupFails, ThreadsOK, GiveUp, Settle, UIStates, Threads
  <1>4. LocalsOK'
    BY AuthorityAssumption
    DEF TypeOK, LookupFails, LocalsOK, ThreadsOK, GiveUp, Settle, Deciding,
        UIStates, CallStates, Threads
  <1>5. QED
    BY <1>1, <1>2, <1>3, <1>4 DEF TypeOK

LEMMA AuthorizeType ==
    ASSUME TypeOK, NEW u \in UIs, Authorize(u)
    PROVE  TypeOK'
  <1>1. RulesOK' /\ GrantsOK' /\ RetriesOK' /\ RecordingsOK' /\ LocksOK'
    BY DEF TypeOK, Authorize, RulesOK, GrantsOK, RetriesOK, RecordingsOK, LocksOK
  <1>2. ThreadsOK'
    BY DEF TypeOK, Authorize, ThreadsOK, UIStates, Threads
  <1>3. LocalsOK'
    BY AuthorityAssumption
    DEF TypeOK, Authorize, LocalsOK, ThreadsOK, Deciding, UIStates, CallStates,
        Threads
  <1>4. LeaseTypeOK'
    BY ControlJob, GuardAuthorizeType DEF TypeOK, LocalsOK, Authorize, Deciding
  <1>5. QED
    BY <1>1, <1>2, <1>3, <1>4 DEF TypeOK

LEMMA AuthorizeFailsType ==
    ASSUME TypeOK, NEW u \in UIs, AuthorizeFails(u)
    PROVE  TypeOK'
  <1>1. RulesOK' /\ RetriesOK' /\ RecordingsOK'
    BY DEF TypeOK, AuthorizeFails, RulesOK, RetriesOK, RecordingsOK
  <1>2. GrantsOK'
    BY DEF TypeOK, AuthorizeFails, GrantsOK, GiveUp, Settle
  <1>3. LocksOK'
    BY DEF TypeOK, AuthorizeFails, LocksOK
  <1>4. ThreadsOK'
    BY DEF TypeOK, AuthorizeFails, ThreadsOK, GiveUp, Settle, UIStates, Threads
  <1>5. LocalsOK'
    BY AuthorityAssumption
    DEF TypeOK, AuthorizeFails, LocalsOK, ThreadsOK, GiveUp, Settle, Deciding,
        UIStates, CallStates, Threads
  <1>6. LeaseTypeOK'
    <2>1. CASE GuardAuthorize(tok[u], job[u].scope.id, FALSE)
      BY <2>1, ControlJob, GuardAuthorizeType
      DEF TypeOK, LocalsOK, AuthorizeFails, Deciding
    <2>2. CASE UNCHANGED leases
      BY <2>2 DEF TypeOK, LeaseTypeOK
    <2>3. QED
      BY <2>1, <2>2 DEF AuthorizeFails
  <1>7. QED
    BY <1>1, <1>2, <1>3, <1>4, <1>5, <1>6 DEF TypeOK

LEMMA PublishType ==
    ASSUME TypeOK, NEW u \in UIs, Publish(u)
    PROVE  TypeOK'
  <1>1. RulesOK' /\ RetriesOK' /\ RecordingsOK' /\ LeaseTypeOK'
    BY DEF TypeOK, Publish, RulesOK, RetriesOK, RecordingsOK, LeaseTypeOK
  <1>2. GrantsOK'
    <2>1. job[u] \in Jobs /\ tok[u] \in Tokens
      BY ControlJob DEF Publish, Deciding
    <2>2. NewGrant(u) \in Grants
      BY <2>1 DEF NewGrant, Jobs, Grants
    <2>3. /\ DOMAIN grants' = DOMAIN grants \cup {tok[u]}
          /\ grants' \in [DOMAIN grants' -> Grants]
      <3>1. grants \in [DOMAIN grants -> Grants]
        BY DEF TypeOK, GrantsOK
      <3>2. /\ DOMAIN Put(grants, tok[u], NewGrant(u)) = DOMAIN grants \cup {tok[u]}
            /\ Put(grants, tok[u], NewGrant(u))
                  \in [DOMAIN Put(grants, tok[u], NewGrant(u)) -> Grants]
        BY <2>2, <3>1, PutType
      <3>3. QED
        BY <3>2 DEF Publish
    <2>4. \A r \in DOMAIN requests :
             [requests[r] EXCEPT !.state = "granted"] \in Requests
      BY SettleRequestType DEF TypeOK, GrantsOK, RequestStates
    <2>5. /\ DOMAIN requests' = DOMAIN requests
          /\ requests' \in [DOMAIN requests' -> Requests]
      BY <2>4 DEF TypeOK, GrantsOK, Publish
    <2>6. QED
      BY <2>1, <2>3, <2>5 DEF TypeOK, GrantsOK, Publish, Settle
  <1>3. LocksOK'
    BY DEF TypeOK, Publish, LocksOK
  <1>4. ThreadsOK'
    BY DEF TypeOK, Publish, ThreadsOK, Settle, UIStates, Threads
  <1>5. LocalsOK'
    BY AuthorityAssumption
    DEF TypeOK, Publish, LocalsOK, ThreadsOK, Settle, Deciding, UIStates,
        CallStates, Threads
  <1>6. QED
    BY <1>1, <1>2, <1>3, <1>4, <1>5 DEF TypeOK

LEMMA WithdrawType ==
    ASSUME TypeOK, NEW u \in UIs, Withdraw(u)
    PROVE  TypeOK'
  <1>1. RulesOK' /\ RetriesOK' /\ RecordingsOK' /\ LeaseTypeOK'
    BY DEF TypeOK, Withdraw, RulesOK, RetriesOK, RecordingsOK, LeaseTypeOK
  <1>2. GrantsOK'
    BY DEF TypeOK, Withdraw, GrantsOK, GiveUp, Settle
  <1>3. LocksOK'
    BY DEF TypeOK, Withdraw, LocksOK
  <1>4. ThreadsOK'
    <2>1. tok[u] \in Tokens
      BY ControlJob DEF Withdraw, Deciding
    <2>2. QED
      BY <2>1
      DEF TypeOK, Withdraw, ThreadsOK, GiveUp, Settle, Cleanups, UIStates, Threads
  <1>5. LocalsOK'
    BY AuthorityAssumption
    DEF TypeOK, Withdraw, LocalsOK, ThreadsOK, GiveUp, Settle, Deciding, UIStates,
        CallStates, Threads
  <1>6. QED
    BY <1>1, <1>2, <1>3, <1>4, <1>5 DEF TypeOK

LEMMA TakeBackendType ==
    ASSUME TypeOK, NEW t \in Threads, TakeBackend(t)
    PROVE  TypeOK'
  <1>1. RulesOK' /\ GrantsOK' /\ RetriesOK' /\ RecordingsOK' /\ LeaseTypeOK'
    BY DEF TypeOK, TakeBackend, RulesOK, GrantsOK, RetriesOK, RecordingsOK,
           LeaseTypeOK
  <1>2. LocksOK'
    BY DEF TypeOK, TakeBackend, LocksOK
  <1>3. ThreadsOK'
    BY DEF TypeOK, TakeBackend, ThreadsOK, UIStates, CallStates, SessionStates,
           MaintStates, Threads
  <1>4. LocalsOK'
    BY AuthorityAssumption
    DEF TypeOK, TakeBackend, LocalsOK, ThreadsOK, Deciding, UIStates, CallStates,
        Threads
  <1>5. QED
    BY <1>1, <1>2, <1>3, <1>4 DEF TypeOK

LEMMA CleanupAnsweredType ==
    ASSUME TypeOK, NEW t \in Threads, NEW c \in Cleanups, CleanupAnswered(t, c)
    PROVE  TypeOK'
  <1>1. RulesOK' /\ GrantsOK' /\ RetriesOK' /\ RecordingsOK' /\ LocksOK'
    BY DEF TypeOK, CleanupAnswered, Exchange, RulesOK, GrantsOK, RetriesOK,
           RecordingsOK, LocksOK
  <1>2. ThreadsOK'
    BY DEF TypeOK, CleanupAnswered, ThreadsOK, Exchange, Replies
  <1>3. LocalsOK'
    BY DEF TypeOK, CleanupAnswered, LocalsOK, ThreadsOK, Exchange
  <1>4. LeaseTypeOK'
    BY GuardExecutesType DEF TypeOK, CleanupAnswered
  <1>5. QED
    BY <1>1, <1>2, <1>3, <1>4 DEF TypeOK

LEMMA CleanupUnansweredType ==
    ASSUME TypeOK, NEW t \in Threads, NEW c \in Cleanups, CleanupUnanswered(t, c)
    PROVE  TypeOK'
  <1>1. RulesOK' /\ GrantsOK' /\ RetriesOK' /\ RecordingsOK' /\ LocksOK'
    BY DEF TypeOK, CleanupUnanswered, Exchange, RulesOK, GrantsOK, RetriesOK,
           RecordingsOK, LocksOK
  <1>2. ThreadsOK'
    BY DEF TypeOK, CleanupUnanswered, ThreadsOK, Exchange, Replies
  <1>3. LocalsOK'
    BY DEF TypeOK, CleanupUnanswered, LocalsOK, ThreadsOK, Exchange
  <1>4. LeaseTypeOK'
    <2>1. CASE GuardExecutes(c)
      BY <2>1, GuardExecutesType DEF TypeOK
    <2>2. CASE UNCHANGED leases
      BY <2>2 DEF TypeOK, LeaseTypeOK
    <2>3. QED
      BY <2>1, <2>2 DEF CleanupUnanswered
  <1>5. QED
    BY <1>1, <1>2, <1>3, <1>4 DEF TypeOK

LEMMA NoteAndContinueType ==
    ASSUME TypeOK, NEW t \in Threads, NoteAndContinue(t)
    PROVE  TypeOK'
  <1>1. RulesOK' /\ GrantsOK' /\ RecordingsOK' /\ LocksOK' /\ LeaseTypeOK'
    BY DEF TypeOK, NoteAndContinue, NoteReply, RulesOK, GrantsOK, RecordingsOK,
           LocksOK, LeaseTypeOK
  <1>2. RetriesOK'
    BY DEF TypeOK, NoteAndContinue, RetriesOK, NoteReply, ThreadsOK, Replies
  <1>3. ThreadsOK'
    BY DEF TypeOK, NoteAndContinue, ThreadsOK, NoteReply
  <1>4. LocalsOK'
    BY DEF TypeOK, NoteAndContinue, LocalsOK, ThreadsOK, NoteReply
  <1>5. QED
    BY <1>1, <1>2, <1>3, <1>4 DEF TypeOK

LEMMA NoteAndReturnType ==
    ASSUME TypeOK, NEW t \in Threads, NoteAndReturn(t)
    PROVE  TypeOK'
  <1>1. RulesOK' /\ GrantsOK' /\ RecordingsOK' /\ LeaseTypeOK'
    BY DEF TypeOK, NoteAndReturn, NoteReply, RulesOK, GrantsOK, RecordingsOK,
           LeaseTypeOK
  <1>2. RetriesOK'
    BY DEF TypeOK, NoteAndReturn, RetriesOK, NoteReply, ThreadsOK, Replies
  <1>3. LocksOK'
    BY DEF TypeOK, NoteAndReturn, LocksOK, NoteReply
  <1>4. ThreadsOK'
    BY DEF TypeOK, NoteAndReturn, ThreadsOK, NoteReply, Rest, Cleanups, UIStates,
           CallStates, SessionStates, MaintStates, Threads
  <1>5. LocalsOK'
    BY AuthorityAssumption
    DEF TypeOK, NoteAndReturn, LocalsOK, ThreadsOK, NoteReply, Rest, Deciding,
        UIStates, CallStates, Threads
  <1>6. QED
    BY <1>1, <1>2, <1>3, <1>4, <1>5 DEF TypeOK

LEMMA MaintTickType ==
    ASSUME TypeOK, NEW aged \in SUBSET DOMAIN requests, MaintTick(aged)
    PROVE  TypeOK'
  <1>1. RulesOK' /\ RetriesOK' /\ RecordingsOK' /\ LocksOK' /\ LeaseTypeOK'
    BY DEF TypeOK, MaintTick, RulesOK, RetriesOK, RecordingsOK, LocksOK, LeaseTypeOK
  <1>2. GrantsOK'
    <2>1. /\ DOMAIN grants' \subseteq DOMAIN grants
          /\ grants' \in [DOMAIN grants' -> Grants]
          /\ expired' \subseteq expired
      BY DropGrantsType DEF TypeOK, MaintTick
    <2>2. /\ DOMAIN requests' \subseteq DOMAIN requests
          /\ requests' \in [DOMAIN requests' -> Requests]
      <3>1. requests \in [DOMAIN requests -> Requests]
        BY DEF TypeOK, GrantsOK
      <3>2. /\ DOMAIN Drop(requests, aged) = DOMAIN requests \ aged
            /\ Drop(requests, aged) \in [DOMAIN Drop(requests, aged) -> Requests]
        BY <3>1, DropType
      <3>3. QED
        BY <3>2 DEF MaintTick
    <2>3. QED
      BY <2>1, <2>2 DEF TypeOK, GrantsOK, MaintTick
  <1>3. ThreadsOK'
    BY DEF TypeOK, MaintTick, ThreadsOK, UIStates, CallStates, SessionStates,
           MaintStates, Threads
  <1>4. LocalsOK'
    BY AuthorityAssumption
    DEF TypeOK, MaintTick, LocalsOK, ThreadsOK, Deciding, UIStates, CallStates,
        Threads
  <1>5. QED
    BY <1>1, <1>2, <1>3, <1>4 DEF TypeOK

LEMMA RetryType ==
    ASSUME TypeOK, Retry
    PROVE  TypeOK'
  <1>1. RulesOK' /\ GrantsOK' /\ RetriesOK' /\ RecordingsOK' /\ LeaseTypeOK'
    BY DEF TypeOK, Retry, RulesOK, GrantsOK, RetriesOK, RecordingsOK, LeaseTypeOK
  <1>2. LocksOK'
    BY DEF TypeOK, Retry, LocksOK, Threads
  <1>3. ThreadsOK'
    BY DEF TypeOK, Retry, ThreadsOK, RetriesOK, UIStates, CallStates, SessionStates,
           MaintStates, Threads
  <1>4. LocalsOK'
    BY AuthorityAssumption
    DEF TypeOK, Retry, LocalsOK, ThreadsOK, Deciding, UIStates, CallStates, Threads
  <1>5. QED
    BY <1>1, <1>2, <1>3, <1>4 DEF TypeOK

LEMMA NothingToRetryType ==
    ASSUME TypeOK, NothingToRetry
    PROVE  TypeOK'
  <1>1. /\ RulesOK' /\ GrantsOK' /\ RetriesOK'
        /\ RecordingsOK' /\ LocksOK' /\ LeaseTypeOK'
    BY DEF TypeOK, NothingToRetry, RulesOK, GrantsOK, RetriesOK, RecordingsOK,
           LocksOK, LeaseTypeOK
  <1>2. ThreadsOK'
    BY DEF TypeOK, NothingToRetry, ThreadsOK, GoCleanUp, Cleanups, UIStates,
           CallStates, SessionStates, MaintStates, Threads
  <1>3. LocalsOK'
    BY AuthorityAssumption
    DEF TypeOK, NothingToRetry, LocalsOK, ThreadsOK, GoCleanUp, Deciding, UIStates,
        CallStates, Threads
  <1>4. QED
    BY <1>1, <1>2, <1>3 DEF TypeOK

LEMMA ConnectType ==
    ASSUME TypeOK, NEW c \in Clients, Connect(c)
    PROVE  TypeOK'
  <1>1. GrantsOK' /\ RetriesOK' /\ RecordingsOK' /\ LocksOK' /\ LeaseTypeOK'
    BY DEF TypeOK, Connect, GrantsOK, RetriesOK, RecordingsOK, LocksOK, LeaseTypeOK
  <1>2. RulesOK'
    BY DEF TypeOK, Connect, RulesOK
  <1>3. ThreadsOK'
    BY DEF TypeOK, Connect, ThreadsOK, Sessions, UIStates, CallStates,
           SessionStates, MaintStates, Threads
  <1>4. LocalsOK'
    BY AuthorityAssumption
    DEF TypeOK, Connect, LocalsOK, ThreadsOK, Sessions, Deciding, UIStates,
        CallStates, Threads
  <1>5. QED
    BY <1>1, <1>2, <1>3, <1>4 DEF TypeOK

LEMMA DisconnectType ==
    ASSUME TypeOK, NEW c \in Clients, Disconnect(c)
    PROVE  TypeOK'
  <1>1. RetriesOK' /\ LocksOK' /\ LeaseTypeOK'
    BY DEF TypeOK, Disconnect, RetriesOK, LocksOK, LeaseTypeOK
  <1>2. RulesOK'
    BY DEF TypeOK, Disconnect, RulesOK
  <1>3. GrantsOK'
    BY DropGrantsType, CancelRequestsType DEF TypeOK, Disconnect, GrantsOK
  <1>4. RecordingsOK'
    BY DEF TypeOK, Disconnect, RecordingsOK, Registered
  <1>5. ThreadsOK'
    BY DEF TypeOK, Disconnect, ThreadsOK, GoCleanUp, GrantsOK, Cleanups, Sessions,
           UIStates, CallStates, SessionStates, MaintStates, Threads
  <1>6. LocalsOK'
    BY AuthorityAssumption
    DEF TypeOK, Disconnect, LocalsOK, ThreadsOK, GoCleanUp, Sessions, Deciding,
        UIStates, CallStates, Threads
  <1>7. QED
    BY <1>1, <1>2, <1>3, <1>4, <1>5, <1>6 DEF TypeOK

LEMMA AskType ==
    ASSUME TypeOK, NEW c \in Clients, NEW a \in Asks, NEW ws, Ask(c, a[1], a[2], ws)
    PROVE  TypeOK'
  <1>1. /\ RulesOK' /\ RetriesOK' /\ RecordingsOK' /\ LocksOK'
        /\ ThreadsOK' /\ LocalsOK' /\ LeaseTypeOK'
    BY DEF TypeOK, Ask, RulesOK, RetriesOK, RecordingsOK, LocksOK, ThreadsOK,
           LocalsOK, LeaseTypeOK
  <1>2. GrantsOK'
    <2> DEFINE new == [client |-> c, cap |-> a[1], scope |-> a[2], state |-> "pending"]
    <2>1. PICK r \in RequestIds : requests' = Put(requests, r, new)
      BY DEF Ask, OpenRequest
    <2>2. new \in Requests
      BY AuthorityAssumption DEF Requests, RequestStates
    <2> HIDE DEF new
    <2>3. requests \in [DOMAIN requests -> Requests]
      BY DEF TypeOK, GrantsOK
    <2>4. /\ DOMAIN Put(requests, r, new) = DOMAIN requests \cup {r}
          /\ Put(requests, r, new) \in [DOMAIN Put(requests, r, new) -> Requests]
      BY <2>2, <2>3, PutType
    <2>5. QED
      BY <2>1, <2>4 DEF TypeOK, GrantsOK, Ask
  <1>3. QED
    BY <1>1, <1>2 DEF TypeOK

LEMMA StartInputType ==
    ASSUME TypeOK, NEW k \in Calls, NEW c \in Clients, NEW w \in Windows, NEW n \in
           1..MaxActions, StartInput(k, c, w, n)
    PROVE  TypeOK'
  <1>1. /\ RulesOK' /\ GrantsOK' /\ RetriesOK'
        /\ RecordingsOK' /\ LocksOK' /\ LeaseTypeOK'
    BY DEF TypeOK, StartInput, RulesOK, GrantsOK, RetriesOK, RecordingsOK, LocksOK,
           LeaseTypeOK
  <1>2. ThreadsOK'
    <2>1. \A y \in BOOLEAN : [client |-> c, window |-> w, yolo |-> y, left |-> n] \in InputCalls
      BY DEF InputCalls
    <2>2. tok' \in [Threads -> Tokens \cup {None}]
      BY DEF TypeOK, StartInput, ThreadsOK, GrantsOK
    <2>3. call' \in [Calls -> InputCalls \cup {None}]
      BY <2>1 DEF TypeOK, StartInput, ThreadsOK
    <2>4. QED
      BY <2>2, <2>3 DEF TypeOK, StartInput, ThreadsOK, CallStates, Threads
  <1>3. LocalsOK'
    <2>1. /\ \A t \in Threads \ {k} : pc'[t] = pc[t] /\ tok'[t] = tok[t]
          /\ \A j \in Calls \ {k} : call'[j] = call[j]
          /\ job' = job
      BY DEF TypeOK, StartInput, ThreadsOK
    <2>2. pc'[k] = "enqueue" /\ call'[k] \in InputCalls
      <3>1. \A y \in BOOLEAN :
               [client |-> c, window |-> w, yolo |-> y, left |-> n] \in InputCalls
        BY DEF InputCalls
      <3>2. QED
        BY <3>1 DEF TypeOK, StartInput, ThreadsOK, Threads
    <2>3. ~call'[k].yolo => tok'[k] \in Tokens
      BY AuthorityAssumption DEF TypeOK, StartInput, ThreadsOK, GrantsOK, Threads
    <2>4. \A u \in UIs : u \in Threads \ {k}
      BY AuthorityAssumption DEF Threads
    <2>5. QED
      BY <2>1, <2>2, <2>3, <2>4 DEF TypeOK, LocalsOK, CallStates, Deciding, Threads
  <1>4. QED
    BY <1>1, <1>2, <1>3 DEF TypeOK

LEMMA TakeInputType ==
    ASSUME TypeOK, NEW k \in Calls, TakeInput(k)
    PROVE  TypeOK'
  <1>1. RulesOK' /\ GrantsOK' /\ RetriesOK' /\ RecordingsOK' /\ LeaseTypeOK'
    BY DEF TypeOK, TakeInput, RulesOK, GrantsOK, RetriesOK, RecordingsOK,
           LeaseTypeOK
  <1>2. LocksOK'
    BY DEF TypeOK, TakeInput, LocksOK
  <1>3. ThreadsOK'
    BY DEF TypeOK, TakeInput, ThreadsOK, CallStates, Threads
  <1>4. LocalsOK'
    BY AuthorityAssumption
    DEF TypeOK, TakeInput, LocalsOK, ThreadsOK, Deciding, UIStates, CallStates,
        Threads
  <1>5. QED
    BY <1>1, <1>2, <1>3, <1>4 DEF TypeOK

LEMMA BorrowType ==
    ASSUME TypeOK, NEW k \in Calls, Borrow(k)
    PROVE  TypeOK'
  <1>1. RulesOK' /\ GrantsOK' /\ RetriesOK' /\ RecordingsOK' /\ LocksOK'
    BY DEF TypeOK, Borrow, RulesOK, GrantsOK, RetriesOK, RecordingsOK, LocksOK
  <1>2. ThreadsOK'
    BY DEF TypeOK, Borrow, ThreadsOK, CallStates, Threads
  <1>3. LocalsOK'
    BY AuthorityAssumption
    DEF TypeOK, Borrow, LocalsOK, ThreadsOK, Deciding, UIStates, CallStates, Threads
  <1>4. LeaseTypeOK'
    <2>1. call[k].window \in Windows
      BY DEF TypeOK, Borrow, ThreadsOK, LocalsOK, InputCalls
    <2>2. PICK t \in Tokens : GuardAuthorize(t, call[k].window, TRUE)
      BY DEF Borrow
    <2>3. QED
      BY <2>1, <2>2, GuardAuthorizeType DEF TypeOK
  <1>5. QED
    BY <1>1, <1>2, <1>3, <1>4 DEF TypeOK

LEMMA BorrowFailsType ==
    ASSUME TypeOK, NEW k \in Calls, BorrowFails(k)
    PROVE  TypeOK'
  <1>1. RulesOK' /\ GrantsOK' /\ RetriesOK' /\ RecordingsOK'
    BY DEF TypeOK, BorrowFails, RulesOK, GrantsOK, RetriesOK, RecordingsOK
  <1>2. LocksOK'
    BY DEF TypeOK, BorrowFails, LocksOK
  <1>3. ThreadsOK'
    BY DEF TypeOK, BorrowFails, ThreadsOK, CallStates, Threads
  <1>4. LocalsOK'
    BY AuthorityAssumption
    DEF TypeOK, BorrowFails, LocalsOK, ThreadsOK, Deciding, UIStates, CallStates,
        Threads
  <1>5. LeaseTypeOK'
    <2>1. call[k].window \in Windows
      BY DEF TypeOK, BorrowFails, ThreadsOK, LocalsOK, InputCalls
    <2>2. CASE UNCHANGED leases
      BY <2>2 DEF TypeOK, LeaseTypeOK
    <2>3. ASSUME NEW t \in Tokens, GuardAuthorize(t, call[k].window, FALSE)
          PROVE  LeaseTypeOK'
      BY <2>1, <2>3, GuardAuthorizeType DEF TypeOK
    <2>4. QED
      BY <2>2, <2>3 DEF BorrowFails
  <1>6. QED
    BY <1>1, <1>2, <1>3, <1>4, <1>5 DEF TypeOK

LEMMA CheckType ==
    ASSUME TypeOK, NEW k \in Calls, Check(k)
    PROVE  TypeOK'
  <1>1. /\ RulesOK' /\ GrantsOK' /\ RetriesOK'
        /\ RecordingsOK' /\ LocksOK' /\ LeaseTypeOK'
    BY DEF TypeOK, Check, RulesOK, GrantsOK, RetriesOK, RecordingsOK, LocksOK,
           LeaseTypeOK
  <1>2. ThreadsOK'
    BY DEF TypeOK, Check, ThreadsOK, CallStates, Threads
  <1>3. LocalsOK'
    BY AuthorityAssumption
    DEF TypeOK, Check, LocalsOK, ThreadsOK, Deciding, UIStates, CallStates, Threads
  <1>4. QED
    BY <1>1, <1>2, <1>3 DEF TypeOK

LEMMA CheckFailsType ==
    ASSUME TypeOK, NEW k \in Calls, CheckFails(k)
    PROVE  TypeOK'
  <1>1. RulesOK' /\ GrantsOK' /\ RetriesOK' /\ RecordingsOK' /\ LeaseTypeOK'
    BY DEF TypeOK, CheckFails, RulesOK, GrantsOK, RetriesOK, RecordingsOK,
           LeaseTypeOK
  <1>2. LocksOK'
    BY DEF TypeOK, CheckFails, LocksOK, Finish
  <1>3. ThreadsOK'
    BY DEF TypeOK, CheckFails, ThreadsOK, Finish, GoCleanUp, LocalsOK, Cleanups,
           CallStates, Threads
  <1>4. LocalsOK'
    BY AuthorityAssumption
    DEF TypeOK, CheckFails, LocalsOK, ThreadsOK, Finish, GoCleanUp, Deciding,
        UIStates, CallStates, Threads
  <1>5. QED
    BY <1>1, <1>2, <1>3, <1>4 DEF TypeOK

LEMMA DeliverType ==
    ASSUME TypeOK, NEW k \in Calls, Deliver(k)
    PROVE  TypeOK'
  <1>1. RulesOK' /\ GrantsOK' /\ RetriesOK' /\ RecordingsOK' /\ LeaseTypeOK'
    BY DEF TypeOK, Deliver, RulesOK, GrantsOK, RetriesOK, RecordingsOK, LeaseTypeOK
  <1>2. LocksOK'
    BY DEF TypeOK, Deliver, LocksOK, Finish
  <1>3. ThreadsOK'
    BY AuthorityAssumption
    DEF TypeOK, Deliver, ThreadsOK, Finish, GoCleanUp, LocalsOK, Cleanups,
        InputCalls, CallStates, Threads
  <1>4. LocalsOK'
    <2>1. CASE call[k].left = 1
      BY <2>1, AuthorityAssumption
      DEF TypeOK, Deliver, LocalsOK, ThreadsOK, Finish, GoCleanUp, Deciding, UIStates,
          CallStates, Threads
    <2>2. CASE call[k].left # 1
      <3>1. call'[k] \in InputCalls /\ pc'[k] = "check" /\ tok' = tok /\ job' = job
        <4>1. call[k] \in InputCalls
          BY DEF TypeOK, Deliver, LocalsOK
        <4>2. [call[k] EXCEPT !.left = @ - 1] \in InputCalls
          BY <2>2, <4>1, AuthorityAssumption DEF InputCalls
        <4>3. QED
          BY <2>2, <4>2 DEF TypeOK, Deliver, ThreadsOK, Threads
      <3>2. /\ \A t \in Threads \ {k} : pc'[t] = pc[t]
            /\ \A j \in Calls \ {k} : call'[j] = call[j]
        BY <2>2 DEF TypeOK, Deliver, ThreadsOK
      <3>3. QED
        BY <3>1, <3>2, AuthorityAssumption
        DEF TypeOK, Deliver, LocalsOK, ThreadsOK, Deciding, CallStates, Threads
    <2>3. QED
      BY <2>1, <2>2
  <1>5. QED
    BY <1>1, <1>2, <1>3, <1>4 DEF TypeOK

LEMMA DeliverFailsType ==
    ASSUME TypeOK, NEW k \in Calls, DeliverFails(k)
    PROVE  TypeOK'
  <1>1. RulesOK' /\ GrantsOK' /\ RetriesOK' /\ RecordingsOK' /\ LeaseTypeOK'
    BY DEF TypeOK, DeliverFails, RulesOK, GrantsOK, RetriesOK, RecordingsOK,
           LeaseTypeOK
  <1>2. LocksOK'
    BY DEF TypeOK, DeliverFails, LocksOK, Finish
  <1>3. ThreadsOK'
    BY DEF TypeOK, DeliverFails, ThreadsOK, Finish, GoCleanUp, LocalsOK, Cleanups,
           CallStates, Threads
  <1>4. LocalsOK'
    BY AuthorityAssumption
    DEF TypeOK, DeliverFails, LocalsOK, ThreadsOK, Finish, GoCleanUp, Deciding,
        UIStates, CallStates, Threads
  <1>5. QED
    BY <1>1, <1>2, <1>3, <1>4 DEF TypeOK

LEMMA RegisterType ==
    ASSUME TypeOK, NEW r \in Recorders, Register(r)
    PROVE  TypeOK'
  <1>1. /\ RulesOK' /\ GrantsOK' /\ RetriesOK' /\ LocksOK'
        /\ ThreadsOK' /\ LocalsOK' /\ LeaseTypeOK'
    BY DEF TypeOK, Register, Goto, RulesOK, GrantsOK, RetriesOK, LocksOK, ThreadsOK,
           LocalsOK, LeaseTypeOK
  <1>2. RecordingsOK'
    BY DEF TypeOK, Register, RecordingsOK, Goto, Recordings, RecordPhases
  <1>3. QED
    BY <1>1, <1>2 DEF TypeOK

LEMMA SampleType ==
    ASSUME TypeOK, NEW r \in Recorders, Sample(r)
    PROVE  TypeOK'
  <1>1. /\ RulesOK' /\ GrantsOK' /\ RetriesOK' /\ LocksOK'
        /\ ThreadsOK' /\ LocalsOK' /\ LeaseTypeOK'
    BY DEF TypeOK, Sample, Goto, RulesOK, GrantsOK, RetriesOK, LocksOK, ThreadsOK,
           LocalsOK, LeaseTypeOK
  <1>2. RecordingsOK'
    BY DEF TypeOK, Sample, RecordingsOK, Goto, Recordings, RecordPhases
  <1>3. QED
    BY <1>1, <1>2 DEF TypeOK

LEMMA CaptureType ==
    ASSUME TypeOK, NEW r \in Recorders, Capture(r)
    PROVE  TypeOK'
  <1>1. /\ RulesOK' /\ GrantsOK' /\ RetriesOK' /\ LocksOK'
        /\ ThreadsOK' /\ LocalsOK' /\ LeaseTypeOK'
    BY DEF TypeOK, Capture, Goto, RulesOK, GrantsOK, RetriesOK, LocksOK, ThreadsOK,
           LocalsOK, LeaseTypeOK
  <1>2. RecordingsOK'
    BY DEF TypeOK, Capture, RecordingsOK, Goto, Recordings, RecordPhases
  <1>3. QED
    BY <1>1, <1>2 DEF TypeOK

LEMMA RecheckType ==
    ASSUME TypeOK, NEW r \in Recorders, Recheck(r)
    PROVE  TypeOK'
  <1>1. /\ RulesOK' /\ GrantsOK' /\ RetriesOK' /\ LocksOK'
        /\ ThreadsOK' /\ LocalsOK' /\ LeaseTypeOK'
    BY DEF TypeOK, Recheck, Goto, RulesOK, GrantsOK, RetriesOK, LocksOK, ThreadsOK,
           LocalsOK, LeaseTypeOK
  <1>2. RecordingsOK'
    BY DEF TypeOK, Recheck, RecordingsOK, Goto, Recordings, RecordPhases
  <1>3. QED
    BY <1>1, <1>2 DEF TypeOK

LEMMA WriteFrameType ==
    ASSUME TypeOK, NEW r \in Recorders, WriteFrame(r)
    PROVE  TypeOK'
  <1>1. /\ RulesOK' /\ GrantsOK' /\ RetriesOK' /\ LocksOK'
        /\ ThreadsOK' /\ LocalsOK' /\ LeaseTypeOK'
    BY DEF TypeOK, WriteFrame, Goto, RulesOK, GrantsOK, RetriesOK, LocksOK,
           ThreadsOK, LocalsOK, LeaseTypeOK
  <1>2. RecordingsOK'
    BY DEF TypeOK, WriteFrame, RecordingsOK, Goto, Recordings, RecordPhases
  <1>3. QED
    BY <1>1, <1>2 DEF TypeOK

LEMMA LeaveLoopType ==
    ASSUME TypeOK, NEW r \in Recorders, LeaveLoop(r)
    PROVE  TypeOK'
  <1>1. /\ RulesOK' /\ GrantsOK' /\ RetriesOK' /\ LocksOK'
        /\ ThreadsOK' /\ LocalsOK' /\ LeaseTypeOK'
    BY DEF TypeOK, LeaveLoop, Goto, RulesOK, GrantsOK, RetriesOK, LocksOK,
           ThreadsOK, LocalsOK, LeaseTypeOK
  <1>2. RecordingsOK'
    BY DEF TypeOK, LeaveLoop, RecordingsOK, Goto, Recordings, RecordPhases
  <1>3. QED
    BY <1>1, <1>2 DEF TypeOK

LEMMA FinalizeType ==
    ASSUME TypeOK, NEW r \in Recorders, Finalize(r)
    PROVE  TypeOK'
  <1>1. /\ RulesOK' /\ GrantsOK' /\ RetriesOK' /\ LocksOK'
        /\ ThreadsOK' /\ LocalsOK' /\ LeaseTypeOK'
    BY DEF TypeOK, Finalize, Goto, RulesOK, GrantsOK, RetriesOK, LocksOK, ThreadsOK,
           LocalsOK, LeaseTypeOK
  <1>2. RecordingsOK'
    BY DEF TypeOK, Finalize, RecordingsOK, Goto, Recordings, RecordPhases
  <1>3. QED
    BY <1>1, <1>2 DEF TypeOK

LEMMA RegisterFailsType ==
    ASSUME TypeOK, NEW r \in Recorders, RegisterFails(r)
    PROVE  TypeOK'
  <1>1. /\ RulesOK' /\ GrantsOK' /\ RetriesOK' /\ LocksOK'
        /\ ThreadsOK' /\ LocalsOK' /\ LeaseTypeOK'
    BY DEF TypeOK, RegisterFails, RulesOK, GrantsOK, RetriesOK, LocksOK, ThreadsOK,
           LocalsOK, LeaseTypeOK
  <1>2. RecordingsOK'
    BY DEF TypeOK, RegisterFails, RecordingsOK, Recordings, RecordPhases
  <1>3. QED
    BY <1>1, <1>2 DEF TypeOK

LEMMA StartRecordType ==
    ASSUME TypeOK, NEW r \in Recorders, NEW c \in Clients, NEW w \in Windows,
           StartRecord(r, c, w)
    PROVE  TypeOK'
  <1>1. /\ RulesOK' /\ GrantsOK' /\ RetriesOK' /\ LocksOK'
        /\ ThreadsOK' /\ LocalsOK' /\ LeaseTypeOK'
    BY DEF TypeOK, StartRecord, RulesOK, GrantsOK, RetriesOK, LocksOK, ThreadsOK,
           LocalsOK, LeaseTypeOK
  <1>2. RecordingsOK'
    BY DEF TypeOK, StartRecord, RecordingsOK, Recordings, RecordPhases
  <1>3. QED
    BY <1>1, <1>2 DEF TypeOK

LEMMA CancelRecordingType ==
    ASSUME TypeOK, NEW r \in Recorders, CancelRecording(r)
    PROVE  TypeOK'
  <1>1. /\ RulesOK' /\ GrantsOK' /\ RetriesOK' /\ LocksOK'
        /\ ThreadsOK' /\ LocalsOK' /\ LeaseTypeOK'
    BY DEF TypeOK, CancelRecording, RulesOK, GrantsOK, RetriesOK, LocksOK,
           ThreadsOK, LocalsOK, LeaseTypeOK
  <1>2. RecordingsOK'
    BY DEF TypeOK, CancelRecording, RecordingsOK, Running, Registered
  <1>3. QED
    BY <1>1, <1>2 DEF TypeOK

LEMMA ExpireType ==
    ASSUME TypeOK, NEW t \in Tokens, Expire(t)
    PROVE  TypeOK'
  <1>1. /\ RulesOK' /\ RetriesOK' /\ RecordingsOK' /\ LocksOK'
        /\ ThreadsOK' /\ LocalsOK' /\ LeaseTypeOK'
    BY DEF TypeOK, Expire, RulesOK, RetriesOK, RecordingsOK, LocksOK, ThreadsOK,
           LocalsOK, LeaseTypeOK
  <1>2. GrantsOK'
    BY DEF TypeOK, Expire, GrantsOK
  <1>3. QED
    BY <1>1, <1>2 DEF TypeOK

LEMMA PickerExpiresType ==
    ASSUME TypeOK, PickerExpires
    PROVE  TypeOK'
  <1>1. /\ RulesOK' /\ RetriesOK' /\ RecordingsOK' /\ LocksOK'
        /\ ThreadsOK' /\ LocalsOK' /\ LeaseTypeOK'
    BY DEF TypeOK, PickerExpires, RulesOK, RetriesOK, RecordingsOK, LocksOK,
           ThreadsOK, LocalsOK, LeaseTypeOK
  <1>2. GrantsOK'
    BY DEF TypeOK, PickerExpires, GrantsOK, Pickers
  <1>3. QED
    BY <1>1, <1>2 DEF TypeOK

LEMMA RetryTimerType ==
    ASSUME TypeOK, RetryTimer
    PROVE  TypeOK'
  <1>1. /\ RulesOK' /\ GrantsOK' /\ RecordingsOK' /\ LocksOK'
        /\ ThreadsOK' /\ LocalsOK' /\ LeaseTypeOK'
    BY DEF TypeOK, RetryTimer, RulesOK, GrantsOK, RecordingsOK, LocksOK, ThreadsOK,
           LocalsOK, LeaseTypeOK
  <1>2. RetriesOK'
    BY DEF TypeOK, RetryTimer, RetriesOK
  <1>3. QED
    BY <1>1, <1>2 DEF TypeOK

LEMMA LeaseLostType ==
    ASSUME TypeOK, NEW t \in Tokens, LeaseLost(t)
    PROVE  TypeOK'
  <1>1. /\ RulesOK' /\ GrantsOK' /\ RetriesOK' /\ RecordingsOK'
        /\ LocksOK' /\ ThreadsOK' /\ LocalsOK'
    BY DEF TypeOK, LeaseLost, RulesOK, GrantsOK, RetriesOK, RecordingsOK, LocksOK,
           ThreadsOK, LocalsOK
  <1>2. LeaseTypeOK'
    BY LeaseEndsType DEF TypeOK, LeaseLost
  <1>3. QED
    BY <1>1, <1>2 DEF TypeOK

(* Every step keeps the types. *)
LEMMA TypeNext == TypeOK /\ [Next]_vars => TypeOK'
  <1> SUFFICES ASSUME TypeOK, [Next]_vars
               PROVE  TypeOK'
    OBVIOUS
  <1>1. ASSUME NEW u \in UIs, UICommand(u) PROVE TypeOK'
    BY <1>1, UIOpenType, UICloseType, PauseType, ResumeType, RevokeAllType,
       CancelShareType, SetModeType, RevokeGrantType, ApproveType, DenyType,
       BeginShareType, SelectShareType
    DEF UICommand
  <1>2. ASSUME NEW u \in UIs, Decision(u) PROVE TypeOK'
    BY <1>2, LookupType, LookupFailsType, AuthorizeType, AuthorizeFailsType,
       PublishType, WithdrawType
    DEF Decision
  <1>3. ASSUME NEW t \in Threads, CleanUp(t) PROVE TypeOK'
    BY <1>3, TakeBackendType, CleanupAnsweredType, CleanupUnansweredType,
       NoteAndContinueType, NoteAndReturnType
    DEF CleanUp
  <1>4. ASSUME Maintenance PROVE TypeOK'
    BY <1>4, MaintTickType, RetryType, NothingToRetryType DEF Maintenance
  <1>5. ASSUME NEW c \in Clients, Client(c) PROVE TypeOK'
    BY <1>5, ConnectType, DisconnectType, AskType DEF Client
  <1>6. ASSUME NEW k \in Calls, Input(k) PROVE TypeOK'
    BY <1>6, StartInputType, TakeInputType, BorrowType, BorrowFailsType, CheckType,
       CheckFailsType, DeliverType, DeliverFailsType
    DEF Input, InputStep
  <1>7. ASSUME NEW r \in Recorders, Recording(r) PROVE TypeOK'
    BY <1>7, StartRecordType, RegisterType, RegisterFailsType, SampleType,
       CaptureType, RecheckType, WriteFrameType, LeaveLoopType, FinalizeType,
       CancelRecordingType
    DEF Recording, RecordStep
  <1>8. ASSUME Clock PROVE TypeOK'
    BY <1>8, ExpireType, PickerExpiresType, RetryTimerType, LeaseLostType DEF Clock
  <1>9. CASE UNCHANGED vars
    BY <1>9
    DEF TypeOK, RulesOK, GrantsOK, RetriesOK, RecordingsOK, LocksOK, ThreadsOK, LocalsOK,
        LeaseTypeOK, vars
  <1>10. QED
    BY <1>1, <1>2, <1>3, <1>4, <1>5, <1>6, <1>7, <1>8, <1>9 DEF Next

(* Whatever the number of clients, consoles, calls, recordings and tokens,   *)
(* every variable keeps its type, and every goroutine has in its locals the  *)
(* values its next step uses (a decision its job and token, a call its       *)
(* window and lease).                                                        *)
THEOREM TypeCorrect == Spec => []TypeOK
  BY InitType, TypeNext, PTL DEF Spec
-----------------------------------------------------------------------------

(* The rules, and what is granted, asked and offered under them. *)
held == <<mode, paused, uis, clients, requests, grants, picker>>

(* Most steps leave all of that alone. *)
LEMMA QuietDecision ==
    ASSUME NEW u \in UIs, Decision(u)
    PROVE  Publish(u) \/ UNCHANGED <<held, recVars>>
  BY DEF Decision, Lookup, LookupFails, Authorize, AuthorizeFails, Withdraw, GiveUp,
         Settle, held

LEMMA QuietCleanUp ==
    ASSUME NEW t \in Threads, CleanUp(t)
    PROVE  UNCHANGED <<held, recVars>>
  BY DEF CleanUp, TakeBackend, CleanupAnswered, CleanupUnanswered, Exchange,
         NoteAndContinue, NoteAndReturn, held

LEMMA QuietInput ==
    ASSUME NEW k \in Calls, Input(k)
    PROVE  UNCHANGED <<held, recVars>>
  BY DEF Input, InputStep, StartInput, TakeInput, Borrow, BorrowFails, Check,
         CheckFails, Deliver, DeliverFails, held

LEMMA QuietRecording ==
    ASSUME NEW r \in Recorders, Recording(r)
    PROVE  UNCHANGED <<held, pc, job>>
  BY DEF Recording, RecordStep, StartRecord, Register, RegisterFails, Sample, Capture,
         Recheck, WriteFrame, LeaveLoop, Finalize, CancelRecording, Goto, held

LEMMA QuietMaintenance ==
    ASSUME Retry \/ NothingToRetry
    PROVE  UNCHANGED <<held, recVars>>
  BY DEF Retry, NothingToRetry, held

LEMMA QuietClock ==
    ASSUME Clock
    PROVE  PickerExpires \/ UNCHANGED <<held, recVars, pc, job>>
  BY DEF Clock, Expire, RetryTimer, LeaseLost, held

LEMMA QuietCommand ==
    ASSUME NEW u \in UIs,
           \/ \E r \in RequestIds : Approve(u, r)
           \/ \E c \in Clients, w \in Windows : SelectShare(u, c, w)
    PROVE  UNCHANGED <<held, recVars>>
  BY DEF Approve, SelectShare, Decide, held

(* clearLocked leaves nothing granted, asked or offered. *)
LEMMA ClearedNothing ==
    ASSUME GrantsOK, ClearLocked
    PROVE  /\ DOMAIN grants' = {}
           /\ DOMAIN requests' = DOMAIN requests
           /\ \A r \in DOMAIN requests' :
                 /\ requests'[r].state # "pending"
                 /\ requests'[r].client = requests[r].client
           /\ picker' = None
           /\ cancelled' = cancelled \cup Registered
  <1>1. DOMAIN grants' = {}
    BY DropGrantsType DEF ClearLocked
  <1>2. /\ DOMAIN requests' = DOMAIN requests
        /\ \A r \in DOMAIN requests' :
              /\ requests'[r].state # "pending"
              /\ requests'[r].client = requests[r].client
    BY DEF ClearLocked, CancelRequests, GrantsOK, Requests
  <1>3. QED
    BY <1>1, <1>2 DEF ClearLocked

(* Dropping grants or requests, and settling requests, holds less. *)
LEMMA MaintTickShrinks ==
    ASSUME GrantsOK, NEW aged, MaintTick(aged)
    PROVE  /\ DOMAIN grants' \subseteq DOMAIN grants
           /\ \A t \in DOMAIN grants' : grants'[t] = grants[t]
           /\ DOMAIN requests' \subseteq DOMAIN requests
           /\ \A r \in DOMAIN requests' : requests'[r] = requests[r]
           /\ picker' \in {picker, None}
           /\ UNCHANGED <<paused, uis, clients, recVars>>
  BY DEF MaintTick, DropGrants, Drop, Restrict, GrantsOK

LEMMA DisconnectShrinks ==
    ASSUME GrantsOK, NEW c \in Clients, Disconnect(c)
    PROVE  /\ DOMAIN grants' = {t \in DOMAIN grants : grants[t].client # c}
           /\ \A t \in DOMAIN grants' : grants'[t] = grants[t]
           /\ DOMAIN requests' = DOMAIN requests
           /\ \A r \in DOMAIN requests' :
                 /\ requests'[r].client = requests[r].client
                 /\ requests'[r] = requests[r] \/ requests'[r].state = "cancelled"
                 /\ requests'[r].client = c => requests'[r].state # "pending"
           /\ picker' = IF picker # None /\ picker.client = c THEN None ELSE picker
           /\ clients' = clients \ {c}
           /\ UNCHANGED <<mode, paused, uis, rec>>
           /\ cancelled' = cancelled \cup {r \in Registered : rec[r].client = c}
  <1>1. /\ DOMAIN grants' = {t \in DOMAIN grants : grants[t].client # c}
        /\ \A t \in DOMAIN grants' : grants'[t] = grants[t]
    BY DEF Disconnect, DropGrants, Drop, Restrict
  <1>2. /\ DOMAIN requests' = DOMAIN requests
        /\ \A r \in DOMAIN requests' :
              /\ requests'[r].client = requests[r].client
              /\ requests'[r] = requests[r] \/ requests'[r].state = "cancelled"
              /\ requests'[r].client = c => requests'[r].state # "pending"
    BY DEF Disconnect, CancelRequests, GrantsOK, Requests
  <1>3. QED
    BY <1>1, <1>2 DEF Disconnect

LEMMA InitHolds == Init => HoldsInv
  <1> SUFFICES ASSUME Init PROVE HoldsInv
    OBVIOUS
  <1>1. TypeOK
    BY InitType
  <1>2. PausedHoldsNothing
    BY DEF Init, PausedHoldsNothing
  <1>3. DisconnectedHoldsNothing
    BY DEF Init, DisconnectedHoldsNothing, Running, Registered
  <1>4. JobsMatch /\ PermittedConnected
    BY DEF Init, JobsMatch, PermittedConnected
  <1>5. QED
    BY <1>1, <1>2, <1>3, <1>4 DEF HoldsInv

LEMMA PausedNext == TypeOK /\ PausedHoldsNothing /\ [Next]_vars => PausedHoldsNothing'
  <1> SUFFICES ASSUME TypeOK, PausedHoldsNothing, [Next]_vars
               PROVE  PausedHoldsNothing'
    OBVIOUS
  <1>q. UNCHANGED held => PausedHoldsNothing'
    BY DEF held, PausedHoldsNothing
  <1>c. ClearLocked => PausedHoldsNothing'
    BY ClearedNothing DEF TypeOK, PausedHoldsNothing
  <1>1. ASSUME NEW u \in UIs, UICommand(u) PROVE PausedHoldsNothing'
    <2>1. CASE UIOpen(u)
      BY <2>1 DEF UIOpen, PausedHoldsNothing
    <2>2. CASE UIClose(u)
      BY <2>2, <1>c DEF UIClose, PausedHoldsNothing
    <2>3. CASE Pause(u) \/ RevokeAll(u) \/ \E m \in {"approve", "yolo"} : SetMode(u, m)
      BY <2>3, <1>c DEF Pause, RevokeAll, SetMode
    <2>4. CASE Resume(u)
      BY <2>4 DEF Resume, PausedHoldsNothing
    <2>5. CASE \E t \in Tokens : RevokeGrant(u, t)
      BY <2>5, DropGrantsType DEF RevokeGrant, PausedHoldsNothing, TypeOK
    <2>6. CASE \E r \in RequestIds : Deny(u, r)
      BY <2>6 DEF Deny, PausedHoldsNothing, TypeOK, GrantsOK, Requests
    <2>7. CASE \E c \in Clients \cup {None}, cap \in {"observe", "control"} :
                  BeginShare(u, c, cap)
      BY <2>7 DEF BeginShare, Accepting, PausedHoldsNothing
    <2>8. CASE CancelShare(u)
      BY <2>8 DEF CancelShare, PausedHoldsNothing
    <2>9. QED
      BY <1>1, <1>q, <2>1, <2>2, <2>3, <2>4, <2>5, <2>6, <2>7, <2>8, QuietCommand
      DEF UICommand
  <1>2. ASSUME NEW u \in UIs, Decision(u) PROVE PausedHoldsNothing'
    <2>1. CASE Publish(u)
      BY <2>1 DEF Publish, StillCurrent, Accepting, PausedHoldsNothing
    <2>2. QED
      BY <1>2, <1>q, <2>1, QuietDecision
  <1>3. ASSUME Maintenance PROVE PausedHoldsNothing'
    <2>1. CASE \E aged \in SUBSET DOMAIN requests : MaintTick(aged)
      BY <2>1, MaintTickShrinks DEF PausedHoldsNothing, TypeOK
    <2>2. QED
      BY <1>3, <1>q, <2>1, QuietMaintenance DEF Maintenance
  <1>4. ASSUME NEW c \in Clients, Client(c) PROVE PausedHoldsNothing'
    <2>1. CASE Connect(c)
      BY <2>1 DEF Connect, PausedHoldsNothing
    <2>2. CASE Disconnect(c)
      BY <2>2, DisconnectShrinks DEF PausedHoldsNothing, TypeOK
    <2>3. CASE \E a \in Asks, ws \in Workspaces \cup {None} : Ask(c, a[1], a[2], ws)
      BY <2>3 DEF Ask, Accepting, PausedHoldsNothing
    <2>4. QED
      BY <1>4, <2>1, <2>2, <2>3 DEF Client
  <1>5. ASSUME Clock PROVE PausedHoldsNothing'
    <2>1. CASE PickerExpires
      BY <2>1 DEF PickerExpires, PausedHoldsNothing
    <2>2. QED
      BY <1>5, <1>q, <2>1, QuietClock
  <1>6. CASE UNCHANGED vars
    BY <1>6, <1>q DEF vars, held
  <1>7. QED
    BY <1>1, <1>2, <1>3, <1>4, <1>5, <1>6, <1>q, QuietCleanUp, QuietInput,
       QuietRecording
    DEF Next

(* A request is still the one its handler copied: only Approve and           *)
(* SelectShare start a decision, and an ID is never reused under one.        *)
LEMMA JobsNext == TypeOK /\ JobsMatch /\ [Next]_vars => JobsMatch'
  <1> SUFFICES ASSUME TypeOK, JobsMatch, [Next]_vars
               PROVE  JobsMatch'
    OBVIOUS
  (* A step that starts no decision and lets no request change its client. *)
  <1>q. ASSUME \A u \in UIs : pc'[u] \in Deciding => pc[u] \in Deciding /\ job'[u] = job[u],
               \A r \in DOMAIN requests' :
                  r \in DOMAIN requests /\ requests'[r].client = requests[r].client
        PROVE  JobsMatch'
    BY <1>q DEF JobsMatch
  <1>1. ASSUME NEW u \in UIs, UICommand(u) PROVE JobsMatch'
    <2>1. CASE UIOpen(u)
      BY <2>1, <1>q DEF UIOpen, Deciding, TypeOK, ThreadsOK
    <2>2. CASE UIClose(u) \/ Pause(u) \/ RevokeAll(u)
               \/ \E m \in {"approve", "yolo"} : SetMode(u, m)
      <3>1. ClearLocked =>
               \A r \in DOMAIN requests' :
                  r \in DOMAIN requests /\ requests'[r].client = requests[r].client
        BY ClearedNothing DEF TypeOK
      <3>2. \A v \in UIs : pc'[v] \in Deciding => pc[v] \in Deciding /\ job'[v] = job[v]
        BY <2>2
        DEF UIClose, Pause, RevokeAll, SetMode, GoCleanUp, Deciding, TypeOK, ThreadsOK,
            Threads
      <3>3. QED
        BY <2>2, <3>1, <3>2, <1>q DEF UIClose, Pause, RevokeAll, SetMode
    <2>3. CASE Resume(u) \/ CancelShare(u)
      BY <2>3, <1>q DEF Resume, CancelShare
    <2>4. CASE \E t \in Tokens : RevokeGrant(u, t)
      BY <2>4, <1>q DEF RevokeGrant, GoCleanUp, Deciding, TypeOK, ThreadsOK, Threads
    <2>5. CASE \E r \in RequestIds : Deny(u, r)
      BY <2>5, <1>q DEF Deny, TypeOK, GrantsOK, Requests
    <2>6. CASE \E c \in Clients \cup {None}, cap \in {"observe", "control"} :
                  BeginShare(u, c, cap)
      BY <2>6, <1>q DEF BeginShare
    <2>7. ASSUME NEW r \in RequestIds, Approve(u, r) PROVE JobsMatch'
      <3>1. /\ \A v \in UIs \ {u} : pc'[v] = pc[v] /\ job'[v] = job[v]
            /\ job'[u].request = r /\ job'[u].client = requests[r].client
            /\ requests' = requests
        BY <2>7 DEF Approve, Decide, TypeOK, ThreadsOK, Threads
      <3>2. QED
        BY <3>1 DEF JobsMatch
    <2>8. ASSUME NEW c \in Clients, NEW w \in Windows, SelectShare(u, c, w)
          PROVE  JobsMatch'
      <3>1. /\ \A v \in UIs \ {u} : pc'[v] = pc[v] /\ job'[v] = job[v]
            /\ job'[u].picker = picker.id
            /\ requests' = requests
        BY <2>8 DEF SelectShare, Decide, TypeOK, ThreadsOK, Threads
      <3>2. picker.id # None
        BY <2>8, AuthorityAssumption DEF SelectShare, TypeOK, GrantsOK, Pickers
      <3>3. QED
        BY <3>1, <3>2 DEF JobsMatch
    <2>9. QED
      BY <1>1, <2>1, <2>2, <2>3, <2>4, <2>5, <2>6, <2>7, <2>8 DEF UICommand
  <1>2. ASSUME NEW u \in UIs, Decision(u) PROVE JobsMatch'
    <2>1. \A v \in UIs \ {u} : pc'[v] = pc[v] /\ job'[v] = job[v]
      BY <1>2
      DEF Decision, Lookup, LookupFails, Authorize, AuthorizeFails, Publish, Withdraw,
          GiveUp, Settle, TypeOK, ThreadsOK, Threads
    <2>2. pc'[u] \in Deciding => pc[u] \in Deciding /\ job'[u] = job[u]
      BY <1>2
      DEF Decision, Lookup, LookupFails, Authorize, AuthorizeFails, Publish, Withdraw,
          GiveUp, Settle, Deciding, TypeOK, ThreadsOK, Threads
    <2>3. \A r \in DOMAIN requests' :
             r \in DOMAIN requests /\ requests'[r].client = requests[r].client
      <3>1. CASE Publish(u)
        BY <3>1 DEF Publish, TypeOK, GrantsOK, Requests
      <3>2. QED
        BY <1>2, <3>1, QuietDecision DEF held
    <2>4. QED
      BY <2>1, <2>2, <2>3, <1>q
  <1>3. ASSUME NEW t \in Threads, CleanUp(t) PROVE JobsMatch'
    <2>1. requests' = requests
      BY <1>3, QuietCleanUp DEF held
    <2>2. \A u \in UIs : pc'[u] \in Deciding => pc[u] \in Deciding /\ job'[u] = job[u]
      BY <1>3, AuthorityAssumption
      DEF CleanUp, TakeBackend, CleanupAnswered, CleanupUnanswered, Exchange,
          NoteAndContinue, NoteAndReturn, Rest, Deciding, TypeOK, ThreadsOK, Threads
    <2>3. QED
      BY <2>1, <2>2, <1>q
  <1>4. ASSUME Maintenance PROVE JobsMatch'
    <2>1. \A u \in UIs : pc'[u] \in Deciding => pc[u] \in Deciding /\ job'[u] = job[u]
      BY <1>4
      DEF Maintenance, MaintTick, Retry, NothingToRetry, GoCleanUp, Deciding, TypeOK,
          ThreadsOK, Threads
    <2>2. QED
      BY <1>4, <2>1, <1>q, MaintTickShrinks, QuietMaintenance
      DEF Maintenance, TypeOK, held
  <1>5. ASSUME NEW c \in Clients, Client(c) PROVE JobsMatch'
    <2>1. CASE Connect(c)
      BY <2>1, <1>q DEF Connect, Deciding, TypeOK, ThreadsOK
    <2>2. CASE Disconnect(c)
      <3>1. \A u \in UIs : pc'[u] \in Deciding => pc[u] \in Deciding /\ job'[u] = job[u]
        BY <2>2 DEF Disconnect, GoCleanUp, Deciding, TypeOK, ThreadsOK, Threads
      <3>2. QED
        BY <2>2, <3>1, <1>q, DisconnectShrinks DEF TypeOK
    <2>3. CASE \E a \in Asks, ws \in Workspaces \cup {None} : Ask(c, a[1], a[2], ws)
      BY <2>3 DEF Ask, OpenRequest, FreshRequest, Put, JobsMatch
    <2>4. QED
      BY <1>5, <2>1, <2>2, <2>3 DEF Client
  <1>6. ASSUME NEW k \in Calls, Input(k) PROVE JobsMatch'
    <2>1. requests' = requests
      BY <1>6, QuietInput DEF held
    <2>2. \A u \in UIs : pc'[u] \in Deciding => pc[u] \in Deciding /\ job'[u] = job[u]
      <3>1. job' = job /\ \E s : pc' = [pc EXCEPT ![k] = s]
        <4>1. CASE \E c \in Clients, w \in Windows, n \in 1..MaxActions : StartInput(k, c, w, n)
          BY <4>1 DEF StartInput
        <4>2. CASE TakeInput(k) \/ Borrow(k) \/ BorrowFails(k) \/ Check(k)
          BY <4>2 DEF TakeInput, Borrow, BorrowFails, Check
        <4>3. CASE CheckFails(k) \/ Deliver(k) \/ DeliverFails(k)
          BY <4>3 DEF CheckFails, Deliver, DeliverFails, Finish, GoCleanUp
        <4>4. QED
          BY <1>6, <4>1, <4>2, <4>3 DEF Input, InputStep
      <3>2. k \notin UIs
        BY AuthorityAssumption
      <3>3. QED
        BY <3>1, <3>2 DEF TypeOK, ThreadsOK, Threads
    <2>3. QED
      BY <2>1, <2>2, <1>q
  <1>7. ASSUME NEW r \in Recorders, Recording(r) PROVE JobsMatch'
    BY <1>7, <1>q, QuietRecording DEF held
  <1>8. ASSUME Clock PROVE JobsMatch'
    BY <1>8, <1>q, QuietClock DEF held, PickerExpires
  <1>9. CASE UNCHANGED vars
    BY <1>9, <1>q DEF vars
  <1>10. QED
    BY <1>1, <1>2, <1>3, <1>4, <1>5, <1>6, <1>7, <1>8, <1>9 DEF Next

(* How the recordings and the connections change together. *)
LEMMA RecordingsNext ==
    ASSUME TypeOK, [Next]_vars
    PROVE  \/ clients \subseteq clients' /\ UNCHANGED rec /\ cancelled \subseteq cancelled'
           \/ \E c \in Clients : Disconnect(c)
           \/ \E r \in Recorders : Recording(r) /\ UNCHANGED clients
  <1>1. ASSUME NEW u \in UIs, UICommand(u)
        PROVE  UNCHANGED <<clients, rec>> /\ cancelled \subseteq cancelled'
    BY <1>1
    DEF UICommand, UIOpen, UIClose, Pause, Resume, RevokeAll, CancelShare, SetMode,
        RevokeGrant, Approve, Deny, BeginShare, SelectShare, ClearLocked, Decide
  <1>2. ASSUME NEW u \in UIs, Decision(u) PROVE UNCHANGED <<clients, rec, cancelled>>
    BY <1>2, QuietDecision DEF Publish, held
  <1>3. ASSUME Maintenance PROVE UNCHANGED <<clients, rec, cancelled>>
    BY <1>3 DEF Maintenance, MaintTick, Retry, NothingToRetry
  <1>4. ASSUME NEW c \in Clients, Client(c)
        PROVE  \/ clients \subseteq clients' /\ UNCHANGED <<rec, cancelled>>
               \/ Disconnect(c)
    BY <1>4 DEF Client, Connect, Ask
  <1>5. ASSUME Clock PROVE UNCHANGED <<clients, rec, cancelled>>
    BY <1>5, QuietClock DEF PickerExpires, held
  <1>6. CASE UNCHANGED vars
    BY <1>6 DEF vars
  <1>7. QED
    BY <1>1, <1>2, <1>3, <1>4, <1>5, <1>6, QuietCleanUp, QuietInput, QuietRecording
    DEF Next, held

(* A recording call keeps its client until it is refused. *)
LEMMA RecordingKeepsClient ==
    ASSUME TypeOK, NEW r \in Recorders, Recording(r)
    PROVE  /\ \A s \in Recorders \ {r} : rec'[s] = rec[s]
           /\ cancelled \subseteq cancelled'
           /\ \/ rec[r].phase = "unused" /\ rec'[r].phase = "permitted"
                 /\ rec'[r].client \in clients
              \/ rec[r].phase = "permitted" /\ rec'[r].phase \in {"unused", "waiting"}
                 /\ (rec'[r].phase = "waiting" => rec'[r].client = rec[r].client)
              \/ rec[r].phase \notin {"unused", "permitted", "stopped"}
                 /\ rec'[r].phase \notin {"unused", "permitted"}
                 /\ rec'[r].client = rec[r].client
              \/ UNCHANGED rec
  <1>0. rec \in [Recorders -> Recordings]
    BY DEF TypeOK, RecordingsOK
  <1>1. CASE \E c \in Clients, w \in Windows : StartRecord(r, c, w)
    BY <1>0, <1>1 DEF StartRecord
  <1>2. CASE Register(r) \/ RegisterFails(r)
    BY <1>0, <1>2 DEF Register, RegisterFails, Goto, Recordings
  <1>3. CASE Sample(r) \/ Capture(r) \/ Recheck(r)
    BY <1>0, <1>3 DEF Sample, Capture, Recheck, Goto, Recordings
  <1>4. CASE WriteFrame(r) \/ LeaveLoop(r) \/ Finalize(r)
    BY <1>0, <1>4 DEF WriteFrame, LeaveLoop, Finalize, Goto, Recordings
  <1>5. CASE CancelRecording(r)
    BY <1>5 DEF CancelRecording
  <1>6. QED
    BY <1>1, <1>2, <1>3, <1>4, <1>5 DEF Recording, RecordStep

LEMMA PermittedNext ==
    TypeOK /\ PermittedConnected /\ [Next]_vars => PermittedConnected'
  <1> SUFFICES ASSUME TypeOK, PermittedConnected, [Next]_vars
               PROVE  PermittedConnected'
    OBVIOUS
  <1>1. CASE clients \subseteq clients' /\ UNCHANGED rec
    BY <1>1 DEF PermittedConnected
  <1>2. CASE \E c \in Clients : Disconnect(c)
    BY <1>2, DisconnectShrinks DEF PermittedConnected, Disconnect, Drained, TypeOK
  <1>3. CASE \E r \in Recorders : Recording(r) /\ UNCHANGED clients
    BY <1>3, RecordingKeepsClient DEF PermittedConnected
  <1>4. QED
    BY <1>1, <1>2, <1>3, RecordingsNext

(* The part of DisconnectedHoldsNothing that is about recordings. *)
RecordingsFollow ==
    \A r \in Running : rec[r].client \in Clients \ clients => r \in cancelled

LEMMA RecordingsFollowNext ==
    TypeOK /\ PermittedConnected /\ RecordingsFollow /\ [Next]_vars => RecordingsFollow'
  <1> SUFFICES ASSUME TypeOK, PermittedConnected, RecordingsFollow, [Next]_vars
               PROVE  RecordingsFollow'
    OBVIOUS
  <1>1. CASE clients \subseteq clients' /\ UNCHANGED rec /\ cancelled \subseteq cancelled'
    BY <1>1 DEF RecordingsFollow, Running, Registered
  <1>2. ASSUME NEW c \in Clients, Disconnect(c) PROVE RecordingsFollow'
    <2>1. /\ clients' = clients \ {c} /\ rec' = rec
          /\ cancelled' = cancelled \cup {r \in Registered : rec[r].client = c}
      BY <1>2, DisconnectShrinks DEF TypeOK
    <2>2. QED
      BY <2>1 DEF RecordingsFollow, Running, Registered
  <1>3. CASE \E r \in Recorders : Recording(r) /\ UNCHANGED clients
    BY <1>3, RecordingKeepsClient
    DEF RecordingsFollow, PermittedConnected, Running, Registered
  <1>4. QED
    BY <1>1, <1>2, <1>3, RecordingsNext

(* The rest of it: grants, requests and the picker. *)
HoldersConnected ==
    /\ \A t \in DOMAIN grants : grants[t].client \in clients
    /\ \A r \in DOMAIN requests :
          requests[r].state = "pending" => requests[r].client \in clients
    /\ picker = None \/ picker.client \in clients \cup {None}

LEMMA HoldersNext ==
    TypeOK /\ JobsMatch /\ HoldersConnected /\ [Next]_vars => HoldersConnected'
  <1> SUFFICES ASSUME TypeOK, JobsMatch, HoldersConnected, [Next]_vars
               PROVE  HoldersConnected'
    OBVIOUS
  <1>q. UNCHANGED held => HoldersConnected'
    BY DEF held, HoldersConnected
  <1>c. ClearLocked => HoldersConnected'
    BY ClearedNothing DEF TypeOK, HoldersConnected
  <1>1. ASSUME NEW u \in UIs, UICommand(u) PROVE HoldersConnected'
    <2>1. CASE UIOpen(u)
      BY <2>1 DEF UIOpen, HoldersConnected
    <2>2. CASE UIClose(u)
      BY <2>2, <1>c DEF UIClose, HoldersConnected
    <2>3. CASE Pause(u) \/ RevokeAll(u) \/ \E m \in {"approve", "yolo"} : SetMode(u, m)
      BY <2>3, <1>c DEF Pause, RevokeAll, SetMode
    <2>4. CASE Resume(u)
      BY <2>4 DEF Resume, HoldersConnected
    <2>5. CASE \E t \in Tokens : RevokeGrant(u, t)
      BY <2>5 DEF RevokeGrant, DropGrants, Drop, Restrict, HoldersConnected
    <2>6. CASE \E r \in RequestIds : Deny(u, r)
      BY <2>6 DEF Deny, HoldersConnected, TypeOK, GrantsOK, Requests
    <2>7. CASE \E c \in Clients \cup {None}, cap \in {"observe", "control"} :
                  BeginShare(u, c, cap)
      BY <2>7 DEF BeginShare, HoldersConnected
    <2>8. CASE CancelShare(u)
      BY <2>8 DEF CancelShare, HoldersConnected
    <2>9. QED
      BY <1>1, <1>q, <2>1, <2>2, <2>3, <2>4, <2>5, <2>6, <2>7, <2>8, QuietCommand
      DEF UICommand
  <1>2. ASSUME NEW u \in UIs, Publish(u) PROVE HoldersConnected'
    <2>1. job[u].client \in clients
      <3>1. CASE job[u].picker = None
        <4>1. /\ job[u].request \in DOMAIN requests
              /\ requests[job[u].request].state = "pending"
          BY <1>2, <3>1 DEF Publish, StillCurrent
        <4>2. requests[job[u].request].client = job[u].client
          BY <1>2, <3>1, <4>1 DEF Publish, Deciding, JobsMatch
        <4>3. QED
          BY <4>1, <4>2 DEF HoldersConnected
      <3>2. CASE job[u].picker # None
        BY <1>2, <3>2 DEF Publish, StillCurrent
      <3>3. QED
        BY <3>1, <3>2
    <2>2. \A t \in DOMAIN grants' : grants'[t].client \in clients'
      BY <1>2, <2>1 DEF Publish, NewGrant, Put, HoldersConnected
    <2>3. \A r \in DOMAIN requests' :
             requests'[r].state = "pending" => requests'[r].client \in clients'
      BY <1>2 DEF Publish, HoldersConnected, TypeOK, GrantsOK, Requests
    <2>4. QED
      BY <1>2, <2>2, <2>3 DEF Publish, HoldersConnected
  <1>3. ASSUME Maintenance PROVE HoldersConnected'
    <2>1. CASE \E aged \in SUBSET DOMAIN requests : MaintTick(aged)
      BY <2>1, MaintTickShrinks DEF HoldersConnected, TypeOK
    <2>2. QED
      BY <1>3, <1>q, <2>1, QuietMaintenance DEF Maintenance
  <1>4. ASSUME NEW c \in Clients, Client(c) PROVE HoldersConnected'
    <2>1. CASE Connect(c)
      BY <2>1 DEF Connect, HoldersConnected
    <2>2. CASE Disconnect(c)
      <3>1. /\ \A t \in DOMAIN grants' :
                  t \in DOMAIN grants /\ grants[t].client # c /\ grants'[t] = grants[t]
            /\ DOMAIN requests' = DOMAIN requests
            /\ \A r \in DOMAIN requests' :
                  /\ requests'[r].client = requests[r].client
                  /\ requests'[r] = requests[r] \/ requests'[r].state = "cancelled"
                  /\ requests'[r].client = c => requests'[r].state # "pending"
            /\ picker' = IF picker # None /\ picker.client = c THEN None ELSE picker
            /\ clients' = clients \ {c}
        BY <2>2, DisconnectShrinks DEF TypeOK
      <3>2. \A t \in DOMAIN grants' : grants'[t].client \in clients'
        BY <3>1 DEF HoldersConnected
      <3>3. ASSUME NEW r \in DOMAIN requests', requests'[r].state = "pending"
            PROVE  requests'[r].client \in clients'
        <4>1. requests[r].state = "pending" /\ requests'[r].client # c
          BY <3>1, <3>3
        <4>2. QED
          BY <3>1, <3>3, <4>1 DEF HoldersConnected
      <3>4. picker' = None \/ picker'.client \in clients' \cup {None}
        BY <3>1 DEF HoldersConnected
      <3>5. QED
        BY <3>2, <3>3, <3>4 DEF HoldersConnected
    <2>3. CASE \E a \in Asks, ws \in Workspaces \cup {None} : Ask(c, a[1], a[2], ws)
      BY <2>3 DEF Ask, OpenRequest, Put, HoldersConnected
    <2>4. QED
      BY <1>4, <2>1, <2>2, <2>3 DEF Client
  <1>5. ASSUME Clock PROVE HoldersConnected'
    <2>1. CASE PickerExpires
      BY <2>1 DEF PickerExpires, HoldersConnected, TypeOK, GrantsOK, Pickers
    <2>2. QED
      BY <1>5, <1>q, <2>1, QuietClock
  <1>6. CASE UNCHANGED vars
    BY <1>6, <1>q DEF vars, held
  <1>7. QED
    BY <1>1, <1>2, <1>3, <1>4, <1>5, <1>6, <1>q, QuietDecision, QuietCleanUp, QuietInput,
       QuietRecording
    DEF Next

(* The two parts are the whole. *)
LEMMA DisconnectedParts ==
    TypeOK => (DisconnectedHoldsNothing <=> HoldersConnected /\ RecordingsFollow)
  <1> SUFFICES ASSUME TypeOK
               PROVE  DisconnectedHoldsNothing <=> HoldersConnected /\ RecordingsFollow
    OBVIOUS
  <1>1. /\ \A t \in DOMAIN grants : grants[t].client \in Clients
        /\ \A r \in DOMAIN requests : requests[r].client \in Clients
        /\ picker = None \/ picker.client \in Clients \cup {None}
        /\ clients \subseteq Clients
    BY DEF TypeOK, RulesOK, GrantsOK, Grants, Requests, Pickers
  <1>2. None \notin Clients
    BY NoneAssumption
  <1>3. DisconnectedHoldsNothing => HoldersConnected /\ RecordingsFollow
    BY <1>1, <1>2 DEF DisconnectedHoldsNothing, HoldersConnected, RecordingsFollow
  <1>4. HoldersConnected /\ RecordingsFollow => DisconnectedHoldsNothing
    BY <1>1, <1>2
    DEF DisconnectedHoldsNothing, HoldersConnected, RecordingsFollow, Running, Registered
  <1>5. QED
    BY <1>3, <1>4

LEMMA HoldsNext == HoldsInv /\ [Next]_vars => HoldsInv'
  <1> SUFFICES ASSUME HoldsInv, [Next]_vars
               PROVE  HoldsInv'
    OBVIOUS
  <1>1. TypeOK' /\ PausedHoldsNothing' /\ JobsMatch' /\ PermittedConnected'
    BY TypeNext, PausedNext, JobsNext, PermittedNext DEF HoldsInv
  <1>2. HoldersConnected /\ RecordingsFollow
    BY DisconnectedParts DEF HoldsInv
  <1>3. HoldersConnected' /\ RecordingsFollow'
    BY <1>2, HoldersNext, RecordingsFollowNext DEF HoldsInv
  <1>4. (TypeOK => (DisconnectedHoldsNothing <=> HoldersConnected /\ RecordingsFollow))'
    BY DisconnectedParts, PTL
  <1>5. QED
    BY <1>1, <1>3, <1>4 DEF HoldsInv

LEMMA HoldsAlways == Spec => []HoldsInv
  BY InitHolds, HoldsNext, PTL DEF Spec

(* While the broker is paused, or nobody supervises it, it holds no grant, no *)
(* undecided request and no picker.                                           *)
THEOREM PauseTakesEverything == Spec => []PausedHoldsNothing
  BY HoldsAlways, PTL DEF HoldsInv

(* Whatever decision, share or record call is in flight when a client goes,   *)
(* nothing granted, asked, offered or recorded outlives the connection.       *)
THEOREM DisconnectTakesEverything == Spec => []DisconnectedHoldsNothing
  BY HoldsAlways, PTL DEF HoldsInv
-----------------------------------------------------------------------------
(* Other promises that need no more than the types. *)

(* Registering is the only step that adds a running recording.               *)
LEMMA RunningGrows ==
    ASSUME TypeOK, [Next]_vars
    PROVE  \/ Running' \subseteq Running
           \/ \E r \in Recorders : Register(r)
  <1>1. CASE UNCHANGED rec
    BY <1>1 DEF Running, Registered
  <1>2. ASSUME NEW r \in Recorders, Recording(r)
        PROVE  Running' \subseteq Running \/ Register(r)
    <2>1. CASE \E c \in Clients, w \in Windows : StartRecord(r, c, w)
      BY <2>1 DEF StartRecord, Running, Registered, TypeOK, RecordingsOK
    <2>2. CASE RegisterFails(r)
      BY <2>2 DEF RegisterFails, Running, Registered, TypeOK, RecordingsOK
    <2>3. CASE Sample(r) \/ Capture(r) \/ Recheck(r) \/ WriteFrame(r) \/ LeaveLoop(r)
      BY <2>3 DEF Sample, Capture, Recheck, WriteFrame, LeaveLoop, Goto, Running,
                  Registered, TypeOK, RecordingsOK
    <2>4. CASE Finalize(r)
      BY <2>4 DEF Finalize, Goto, Running, Registered, TypeOK, RecordingsOK
    <2>5. CASE CancelRecording(r)
      BY <2>5, <1>1 DEF CancelRecording, Running, Registered
    <2>6. QED
      BY <1>2, <2>1, <2>2, <2>3, <2>4, <2>5 DEF Recording, RecordStep
  <1>3. ASSUME NEW c \in Clients, Disconnect(c) PROVE UNCHANGED rec
    BY <1>3 DEF Disconnect
  <1>4. QED
    BY <1>1, <1>2, <1>3, RecordingsNext

LEMMA BoundedNext ==
    ASSUME TypeOK, RecordingsBounded, [Next]_vars
    PROVE  RecordingsBounded'
  <1>1. IsFiniteSet(Running) /\ IsFiniteSet(Running') /\ MaxRecording \in Nat
    BY AuthorityAssumption, FS_Subset DEF Running, Registered
  <1>2. CASE Running' \subseteq Running
    <2>1. Cardinality(Running') <= Cardinality(Running)
      BY <1>1, <1>2, FS_Subset
    <2>2. Cardinality(Running) \in Nat /\ Cardinality(Running') \in Nat
      BY <1>1, FS_CardinalityType
    <2>3. QED
      BY <1>1, <2>1, <2>2 DEF RecordingsBounded
  <1>3. ASSUME NEW r \in Recorders, Register(r) PROVE RecordingsBounded'
    <2>1. r \notin Running /\ Running' = Running \cup {r}
      BY <1>3 DEF Register, Goto, Running, Registered, TypeOK, RecordingsOK
    <2>2. Cardinality(Running \cup {r}) = Cardinality(Running) + 1
      BY <1>1, <2>1, FS_AddElement
    <2>3. Cardinality(Running) \in Nat /\ Cardinality(Running) < MaxRecording
      BY <1>1, <1>3, FS_CardinalityType DEF Register
    <2>4. QED
      BY <1>1, <2>1, <2>2, <2>3 DEF RecordingsBounded
  <1>4. QED
    BY <1>2, <1>3, RunningGrows

LEMMA BoundedInit == Init => RecordingsBounded
  <1> SUFFICES ASSUME Init
               PROVE  RecordingsBounded
    OBVIOUS
  <1>1. Running = {}
    BY DEF Init, Running, Registered
  <1>2. QED
    BY <1>1, FS_EmptySet, AuthorityAssumption DEF RecordingsBounded

(* Record calls that passed their permission together do not register more  *)
(* recordings than the limit.                                               *)
THEOREM RecordingsStayBounded == Spec => []RecordingsBounded
  <1>1. TypeOK /\ RecordingsBounded /\ [Next]_vars => RecordingsBounded'
    BY BoundedNext
  <1>2. QED
    BY <1>1, BoundedInit, TypeCorrect, PTL DEF Spec

(* A grant appears only in Publish, and none is ever changed.               *)
GrantsDrop == \A t \in DOMAIN grants' : t \in DOMAIN grants /\ grants'[t] = grants[t]

LEMMA GrantsGrow ==
    ASSUME TypeOK, [Next]_vars
    PROVE  GrantsDrop \/ \E u \in UIs : Publish(u)
  <1>1. ClearLocked => GrantsDrop
    BY ClearedNothing DEF TypeOK, GrantsDrop
  <1>2. ASSUME NEW u \in UIs, UICommand(u) PROVE GrantsDrop
    <2>1. CASE \E t \in Tokens : RevokeGrant(u, t)
      BY <2>1 DEF GrantsDrop, RevokeGrant, DropGrants, Drop, Restrict
    <2>2. CASE \/ UIOpen(u) \/ UIClose(u) \/ Pause(u) \/ Resume(u) \/ RevokeAll(u)
               \/ CancelShare(u) \/ \E m \in {"approve", "yolo"} : SetMode(u, m)
      BY <2>2, <1>1
      DEF GrantsDrop, UIOpen, UIClose, Pause, Resume, RevokeAll, CancelShare, SetMode
    <2>3. CASE \/ \E r \in RequestIds : Deny(u, r)
               \/ \E c \in Clients \cup {None}, cap \in {"observe", "control"} :
                     BeginShare(u, c, cap)
      BY <2>3 DEF GrantsDrop, Deny, BeginShare
    <2>4. QED
      BY <1>2, <2>1, <2>2, <2>3, QuietCommand DEF GrantsDrop, UICommand, held
  <1>3. ASSUME Maintenance PROVE GrantsDrop
    BY <1>3, QuietMaintenance, MaintTickShrinks DEF GrantsDrop, Maintenance, TypeOK, held
  <1>4. ASSUME NEW c \in Clients, Client(c) PROVE GrantsDrop
    BY <1>4 DEF GrantsDrop, Client, Connect, Ask, Disconnect, DropGrants, Drop, Restrict
  <1>5. Clock => GrantsDrop
    BY DEF GrantsDrop, Clock, Expire, LeaseLost, PickerExpires, RetryTimer
  <1>6. CASE UNCHANGED vars
    BY <1>6 DEF GrantsDrop, vars
  <1>7. QED
    BY <1>2, <1>3, <1>4, <1>5, <1>6, QuietDecision, QuietCleanUp, QuietInput,
       QuietRecording
    DEF GrantsDrop, Next, held

(* An input call is about to deliver only after its permission check.       *)
LEMMA SendAfterCheck ==
    ASSUME TypeOK, [Next]_vars, NEW k \in Calls, pc'[k] = "send"
    PROVE  pc[k] = "send" \/ Check(k)
  <1>t. pc \in [Threads -> UIStates \cup CallStates \cup SessionStates \cup MaintStates]
        /\ k \in Threads /\ k \notin UIs /\ k \notin Clients /\ k # Maint
    BY AuthorityAssumption DEF TypeOK, ThreadsOK, Threads, Sessions
  <1>1. ASSUME NEW u \in UIs, UICommand(u) PROVE pc'[k] = pc[k]
    BY <1>1, <1>t
    DEF UICommand, UIOpen, UIClose, Pause, Resume, RevokeAll, CancelShare, SetMode,
        RevokeGrant, Approve, Deny, BeginShare, SelectShare, Decide, GoCleanUp
  <1>2. ASSUME NEW u \in UIs, Decision(u) PROVE pc'[k] = pc[k]
    BY <1>2, <1>t
    DEF Decision, Lookup, LookupFails, Authorize, AuthorizeFails, Publish, Withdraw,
        GiveUp
  <1>3. ASSUME NEW t \in Threads, CleanUp(t) PROVE pc'[k] = pc[k] \/ pc'[k] # "send"
    BY <1>3, <1>t
    DEF CleanUp, TakeBackend, CleanupAnswered, CleanupUnanswered, Exchange,
        NoteAndContinue, NoteAndReturn, Rest
  <1>4. ASSUME Maintenance PROVE pc'[k] = pc[k]
    BY <1>4, <1>t DEF Maintenance, MaintTick, Retry, NothingToRetry, GoCleanUp
  <1>5. ASSUME NEW c \in Clients, Client(c) PROVE pc'[k] = pc[k]
    BY <1>5, <1>t DEF Client, Connect, Ask, Disconnect, GoCleanUp
  <1>6. ASSUME NEW h \in Calls, Input(h) PROVE pc[k] = "send" \/ Check(k)
    <2>1. CASE h # k
      <3>1. pc'[k] = pc[k]
        BY <1>6, <2>1, <1>t
        DEF Input, InputStep, StartInput, TakeInput, Borrow, BorrowFails, Check,
            CheckFails, Deliver, DeliverFails, Finish, GoCleanUp
      <3>2. QED
        BY <3>1
    <2>2. CASE h = k
      BY <1>6, <2>2, <1>t
      DEF Input, InputStep, StartInput, TakeInput, Borrow, BorrowFails, CheckFails,
          Deliver, DeliverFails, Finish, GoCleanUp
    <2>3. QED
      BY <2>1, <2>2
  <1>7. Clock => UNCHANGED pc
    BY DEF Clock, Expire, LeaseLost, PickerExpires, RetryTimer
  <1>8. CASE UNCHANGED vars
    BY <1>8 DEF vars
  <1>9. QED
    BY <1>1, <1>2, <1>3, <1>4, <1>5, <1>6, <1>7, <1>8, QuietRecording DEF Next

(* While a cleanup is unconfirmed nothing is granted, and no input call     *)
(* passes the check that precedes a delivery.                               *)
THEOREM UncertaintyAlwaysBlocks == Spec => UncertaintyBlocks
  <1> DEFINE Blocked == /\ DOMAIN grants' \subseteq DOMAIN grants
                        /\ \A k \in Calls : pc'[k] = "send" => pc[k] = "send"
  <1>1. TypeOK /\ [Next]_vars => (pending # {} => Blocked)
    <2> SUFFICES ASSUME TypeOK, [Next]_vars, pending # {}
                 PROVE  Blocked
      OBVIOUS
    <2>1. DOMAIN grants' \subseteq DOMAIN grants
      BY GrantsGrow DEF GrantsDrop, Publish, StillCurrent, Accepting
    <2>2. ASSUME NEW k \in Calls, pc'[k] = "send" PROVE pc[k] = "send"
      BY <2>2, SendAfterCheck DEF Check, CallAllowed, Allowed, Accepting
    <2>3. QED
      BY <2>1, <2>2
  <1>2. QED
    BY <1>1, TypeCorrect, PTL DEF Spec, UncertaintyBlocks

(* A settled request stays as it is for as long as it is remembered.        *)
LEMMA SettledNext ==
    ASSUME TypeOK, [Next]_vars
    PROVE  SettledStaysSettled
  <1>q. UNCHANGED requests => SettledStaysSettled
    BY DEF SettledStaysSettled
  <1>c. ASSUME NEW S, CancelRequests(S) PROVE SettledStaysSettled
    BY <1>c DEF CancelRequests, SettledStaysSettled
  <1>1. ASSUME NEW u \in UIs, UICommand(u) PROVE SettledStaysSettled
    <2>1. CASE \/ UIOpen(u) \/ UIClose(u) \/ Pause(u) \/ Resume(u) \/ RevokeAll(u)
               \/ CancelShare(u) \/ \E m \in {"approve", "yolo"} : SetMode(u, m)
      BY <2>1, <1>q, <1>c
      DEF UIOpen, UIClose, Pause, Resume, RevokeAll, CancelShare, SetMode, ClearLocked
    <2>2. CASE \E r \in RequestIds : Deny(u, r)
      BY <2>2 DEF Deny, SettledStaysSettled, TypeOK, GrantsOK
    <2>3. CASE \/ \E t \in Tokens : RevokeGrant(u, t)
               \/ \E c \in Clients \cup {None}, cap \in {"observe", "control"} :
                     BeginShare(u, c, cap)
      BY <2>3, <1>q DEF RevokeGrant, BeginShare
    <2>4. QED
      BY <1>1, <1>q, <2>1, <2>2, <2>3, QuietCommand DEF UICommand, held
  <1>2. ASSUME NEW u \in UIs, Publish(u) PROVE SettledStaysSettled
    BY <1>2 DEF Publish, StillCurrent, Answered, SettledStaysSettled
  <1>3. ASSUME Maintenance PROVE SettledStaysSettled
    BY <1>3, <1>q, QuietMaintenance, MaintTickShrinks
    DEF Maintenance, TypeOK, held, SettledStaysSettled
  <1>4. ASSUME NEW c \in Clients, Client(c) PROVE SettledStaysSettled
    <2>1. CASE Disconnect(c)
      BY <2>1, <1>c DEF Disconnect
    <2>2. CASE Connect(c)
      BY <2>2, <1>q DEF Connect
    <2>3. CASE \E a \in Asks, ws \in Workspaces \cup {None} : Ask(c, a[1], a[2], ws)
      BY <2>3 DEF Ask, OpenRequest, FreshRequest, Put, SettledStaysSettled
    <2>4. QED
      BY <1>4, <2>1, <2>2, <2>3 DEF Client
  <1>5. Clock => UNCHANGED requests
    BY DEF Clock, Expire, LeaseLost, PickerExpires, RetryTimer
  <1>6. CASE UNCHANGED vars
    BY <1>6, <1>q DEF vars
  <1>7. QED
    BY <1>1, <1>2, <1>3, <1>4, <1>5, <1>6, <1>q, QuietDecision, QuietCleanUp,
       QuietInput, QuietRecording
    DEF Next, held

(* Publishing uses up the request or the picker it was decided from.        *)
LEMMA PublishDecides ==
    ASSUME TypeOK, NEW u \in UIs, Publish(u)
    PROVE  GrantNeedsDecision
  <1>1. CASE job[u].picker = None
    <2>1. /\ job[u].request \in DOMAIN requests
          /\ requests[job[u].request].state = "pending"
      BY <1>1 DEF Publish, StillCurrent
    <2>2. job[u].request \in Answered(u)
      BY <2>1 DEF Answered
    <2>3. requests' = [r \in DOMAIN requests |->
                         IF r \in Answered(u) THEN [requests[r] EXCEPT !.state = "granted"]
                         ELSE requests[r]]
      BY DEF Publish
    <2>4. requests[job[u].request] \in Requests
      BY <2>1 DEF TypeOK, GrantsOK
    <2>5. [requests[job[u].request] EXCEPT !.state = "granted"].state = "granted"
      BY <2>4 DEF Requests
    <2>6. requests'[job[u].request].state = "granted" /\ job[u].request \in DOMAIN requests'
      BY <2>1, <2>2, <2>3, <2>5
    <2>7. QED
      BY <2>1, <2>6 DEF GrantNeedsDecision
  <1>2. CASE job[u].picker # None
    BY <1>2 DEF Publish, StillCurrent, GrantNeedsDecision
  <1>3. QED
    BY <1>1, <1>2

(* Two supervisors that decide the same request, or a picker replaced while *)
(* its selection is in flight, yield one grant at most.                     *)
THEOREM OneGrantEach == Spec => OneGrantPerDecision
  <1>1. TypeOK /\ [Next]_vars => [GrantNeedsDecision /\ SettledStaysSettled]_vars
    <2> SUFFICES ASSUME TypeOK, [Next]_vars
                 PROVE  GrantNeedsDecision /\ SettledStaysSettled
      OBVIOUS
    <2>1. GrantNeedsDecision
      BY GrantsGrow, PublishDecides DEF GrantsDrop, GrantNeedsDecision
    <2>2. QED
      BY <2>1, SettledNext
  <1>2. QED
    BY <1>1, TypeCorrect, PTL DEF Spec, OneGrantPerDecision
=============================================================================
