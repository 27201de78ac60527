------------------------------ MODULE Authority ------------------------------
(***************************************************************************)
(* The permission broker of internal/app (broker.go, sharing.go and the    *)
(* input and record calls of desktop.go) composed with the compositor      *)
(* guard's lease table.                                                    *)
(*                                                                         *)
(* Every critical section under b.mu is one step, because nothing done     *)
(* under b.mu blocks or calls out.  Every exchange with the guard is a     *)
(* step of its own: the guard may refuse, or execute and answer, or        *)
(* execute and have its answer lost; an abandoned request is never         *)
(* executed late (readPeer drops it when the broker has hung up).          *)
(* backendMu and inputMu are held across exchanges and are variables.      *)
(*                                                                         *)
(* Time is abstract: a deadline passes by a step of the clock.             *)
(***************************************************************************)
EXTENDS LeaseTable

CONSTANTS
    UIs,          \* supervisor connections (goroutines in handleUI)
    Calls,        \* slots for concurrent input_window calls
    Recorders,    \* the recording slots of one broker run (32 in the code)
    RequestIds,   \* random IDs of permission requests
    PickerIds,    \* random IDs of share pickers
    Maint,        \* the maintenance goroutine
    Clear,        \* the guard's "clear" operation, as a pending cleanup
    MaxRequests,  \* requests remembered before too_many_requests (100)
    MaxRecording, \* simultaneous recordings (2)
    MaxActions,   \* deliveries one input call makes (1 to 128 actions)
    Commands,     \* the supervisor commands a model explores
    Asks          \* the <<capability, scope>> pairs clients ask for

Sessions == Clients                    \* a connection's goroutine
Threads == UIs \cup Calls \cup Sessions \cup {Maint}
Cleanups == Tokens \cup {Clear}        \* keys of pendingRevocations
Replies == [op : Cleanups, ok : BOOLEAN]   \* an exchange, and whether it was answered

AllCommands == {"approve", "deny", "revoke", "revoke_all", "pause", "mode",
                "begin_share", "select_share", "cancel_share"}

ASSUME AuthorityAssumption ==
    /\ UIs \cap (Calls \cup Sessions \cup {Maint}) = {}
    /\ Calls \cap (Sessions \cup {Maint}) = {}
    /\ Maint \notin Sessions
    /\ Clear \notin Tokens
    /\ None \notin Threads \cup Tokens \cup RequestIds \cup PickerIds \cup Replies
    /\ IsFiniteSet(Recorders)
    /\ MaxRequests \in Nat
    /\ MaxRecording \in Nat
    /\ MaxActions \in Nat \ {0}
    /\ Commands \subseteq AllCommands
    /\ \A a \in Asks : /\ a[1] \in Capabilities
                       /\ a[2] \in Scopes
                       /\ ValidScope(a[1], a[2])

VARIABLES
    \* Broker fields guarded by b.mu.
    mode,       \* "approve" or "yolo"
    paused,
    uis,        \* supervisor connections that are open; uiCount is their number
    clients,    \* connected clients
    requests,   \* request ID -> Request
    grants,     \* grant ID -> Grant
    expired,    \* grant IDs whose deadline has passed
    pending,    \* pendingRevocations: cleanups the guard has not confirmed
    retryDue,   \* nextRevocationRetry has passed
    picker,     \* the open share picker, or None
    authority,  \* handlers whose snapshot of b.authority is still its value
    cancelled,  \* recordings whose context is cancelled
    \* The two mutexes held across guard exchanges: holder or None.
    backend,
    inputLock,
    \* Local state of the goroutines.
    pc,         \* where each one is
    tok,        \* the grant or lease token it works with, or None
    job,        \* the decision a UI handler is carrying out, or None
    call,       \* the input call a slot is carrying out, or None
    todo,       \* cleanups it still has to send to the guard
    reply,      \* the cleanup it has just exchanged, or None
    sweep,      \* maintenance's controlExpired
    rec         \* recordings: phase, client and window

ruleVars == <<mode, paused, uis, clients>>
grantVars == <<requests, grants, expired, picker, authority>>
retryVars == <<pending, retryDue>>
recVars == <<rec, cancelled>>
lockVars == <<backend, inputLock>>
threadVars == <<pc, tok, job, call, todo, reply, sweep>>
vars == <<ruleVars, grantVars, retryVars, recVars, lockVars, threadVars, leases>>
-----------------------------------------------------------------------------
Pickers == [id : PickerIds, client : Clients \cup {None},
            cap : {"observe", "control"}, expired : BOOLEAN]

(* A decision in flight: decide has a request, selectShare has a picker. *)
Jobs ==
    {j \in [request : RequestIds \cup {None}, picker : PickerIds \cup {None},
            client : Clients, cap : Capabilities, scope : Scopes] :
        ValidScope(j.cap, j.scope)}

InputCalls == [client : Clients, window : Windows, yolo : BOOLEAN,
               left : 1..MaxActions]

RecordPhases == {"unused", "permitted", "waiting", "capturing", "captured",
                 "writing", "stopping", "stopped"}

Recordings == [phase : RecordPhases, client : Clients \cup {None},
               window : Windows \cup {None}]

UIStates == {"closed", "ready", "queued", "authorize", "publish", "lock", "cleanup"}
CallStates == {"idle", "enqueue", "borrow", "check", "send", "lock", "cleanup"}
SessionStates == {"closed", "open", "lock", "cleanup"}
MaintStates == {"tick", "retry", "lock", "cleanup"}
Deciding == {"queued", "authorize", "publish"}   \* UI states with a job

RulesOK ==
    /\ mode \in {"approve", "yolo"}
    /\ paused \in BOOLEAN
    /\ uis \subseteq UIs
    /\ clients \subseteq Clients

GrantsOK ==
    /\ DOMAIN requests \subseteq RequestIds
    /\ requests \in [DOMAIN requests -> Requests]
    /\ DOMAIN grants \subseteq Tokens
    /\ grants \in [DOMAIN grants -> Grants]
    /\ expired \subseteq Tokens
    /\ picker \in Pickers \cup {None}
    /\ authority \subseteq UIs

RetriesOK == pending \subseteq Cleanups /\ retryDue \in BOOLEAN

RecordingsOK == rec \in [Recorders -> Recordings] /\ cancelled \subseteq Recorders

LocksOK == backend \in Threads \cup {None} /\ inputLock \in Calls \cup {None}

ThreadsOK ==
    /\ pc \in [Threads -> UIStates \cup CallStates \cup SessionStates \cup MaintStates]
    /\ tok \in [Threads -> Tokens \cup {None}]
    /\ job \in [UIs -> Jobs \cup {None}]
    /\ call \in [Calls -> InputCalls \cup {None}]
    /\ todo \in [Threads -> SUBSET Cleanups]
    /\ reply \in [Threads -> Replies \cup {None}]
    /\ sweep \in BOOLEAN

(* The locals that a goroutine's next step uses are there. *)
LocalsOK ==
    /\ \A u \in UIs :
          /\ pc[u] \in UIStates
          /\ pc[u] \in Deciding => job[u] \in Jobs /\ tok[u] \in Tokens
          /\ pc[u] = "authorize" => job[u].cap = "control"
    /\ \A k \in Calls :
          /\ pc[k] \in CallStates
          /\ pc[k] # "idle" => call[k] \in InputCalls
          /\ pc[k] \in {"check", "send"} => tok[k] \in Tokens
          /\ pc[k] = "enqueue" /\ ~call[k].yolo => tok[k] \in Tokens

TypeOK ==
    /\ RulesOK
    /\ GrantsOK
    /\ RetriesOK
    /\ RecordingsOK
    /\ LocksOK
    /\ ThreadsOK
    /\ LocalsOK
    /\ LeaseTypeOK
-----------------------------------------------------------------------------
(* serve clears the guard, then newBroker starts in approve mode, with no  *)
(* supervisor, no client and no grant.                                     *)
Init ==
    /\ mode = "approve"
    /\ paused = FALSE
    /\ uis = {}
    /\ clients = {}
    /\ requests = [r \in {} |-> None]
    /\ grants = [t \in {} |-> None]
    /\ expired = {}
    /\ pending = {}
    /\ retryDue = TRUE
    /\ picker = None
    /\ authority = {}
    /\ cancelled = {}
    /\ backend = None
    /\ inputLock = None
    /\ pc = [t \in Threads |-> CASE t \in UIs -> "closed"
                                 [] t \in Calls -> "idle"
                                 [] t \in Sessions -> "closed"
                                 [] t = Maint -> "tick"]
    /\ tok = [t \in Threads |-> None]
    /\ job = [u \in UIs |-> None]
    /\ call = [k \in Calls |-> None]
    /\ todo = [t \in Threads |-> {}]
    /\ reply = [t \in Threads |-> None]
    /\ sweep = FALSE
    /\ rec = [r \in Recorders |-> [phase |-> "unused", client |-> None, window |-> None]]
    /\ LeaseInit

(* Random IDs are never drawn twice: a fresh one is referenced nowhere.    *)
FreshToken(t) ==
    /\ t \notin DOMAIN grants \cup DOMAIN leases \cup pending
    /\ \A th \in Threads : /\ tok[th] # t
                           /\ t \notin todo[th]
                           /\ reply[th] # None => reply[th].op # t

FreshRequest(r) ==
    /\ r \notin DOMAIN requests
    /\ \A u \in UIs : pc[u] \in Deciding => job[u].request # r

FreshPicker(p) ==
    /\ (picker # None => picker.id # p)
    /\ \A u \in UIs : pc[u] \in Deciding => job[u].picker # p

Put(f, k, v) == [x \in DOMAIN f \cup {k} |-> IF x = k THEN v ELSE f[x]]
Drop(f, S) == Restrict(f, DOMAIN f \ S)

(* Faulty: permission without a supervisor; permission while uncertain. *)
BadAccepting == pending = {}
RashAccepting == ~paused /\ uis # {}

(* The refusals permit, decide, beginShare and selectShare share. *)
Accepting == ~paused /\ uis # {} /\ pending = {}

(* allowedLocked: in YOLO mode everything is allowed, without a grant. *)
Allowed(client, cap, scope, ws) ==
    /\ Accepting
    /\ \/ mode = "yolo"
       \/ \E t \in DOMAIN grants \ expired :
             GrantMatches(grants[t], client, cap, scope, ws)
-----------------------------------------------------------------------------
(* Broker state changes that several handlers share. *)

(* The recordings of b.recordings. *)
Registered == {r \in Recorders : rec[r].phase \notin {"unused", "permitted"}}

CancelRequests(S) ==
    requests' = [r \in DOMAIN requests |->
                   IF r \in S /\ requests[r].state = "pending"
                   THEN [requests[r] EXCEPT !.state = "cancelled"]
                   ELSE requests[r]]

(* Deleting grants; each deletion is a revokeLocked and moves b.authority. *)
DropGrants(S) ==
    /\ grants' = Drop(grants, S)
    /\ expired' = expired \ S

(* clearLocked *)
ClearLocked ==
    /\ picker' = None
    /\ DropGrants(DOMAIN grants)
    /\ authority' = {}
    /\ CancelRequests(DOMAIN requests)
    /\ cancelled' = cancelled \cup Registered

(* The goroutine goes on to send the cleanups S to the guard. *)
GoCleanUp(t, S) ==
    /\ pc' = [pc EXCEPT ![t] = "lock"]
    /\ todo' = [todo EXCEPT ![t] = S]

(* permit's last part: one pending request per client, capability, scope.  *)
OpenRequest(c, cap, scope) ==
    /\ ~ \E r \in DOMAIN requests :
            requests[r] = [client |-> c, cap |-> cap, scope |-> scope, state |-> "pending"]
    /\ Cardinality(DOMAIN requests) < MaxRequests
    /\ \E r \in RequestIds :
          /\ FreshRequest(r)
          /\ requests' = Put(requests, r, [client |-> c, cap |-> cap,
                                           scope |-> scope, state |-> "pending"])
-----------------------------------------------------------------------------
(* Supervisor handlers.  One connection handles one command at a time.     *)

UIOpen(u) ==
    /\ pc[u] = "closed"
    /\ pc' = [pc EXCEPT ![u] = "ready"]
    /\ uis' = uis \cup {u}
    /\ UNCHANGED <<mode, paused, clients, grantVars, retryVars, recVars, lockVars,
                   tok, job, call, todo, reply, sweep, leases>>

(* A lost heartbeat or a closed console; the last one pauses the broker. *)
UIClose(u) ==
    /\ pc[u] = "ready"
    /\ uis' = uis \ {u}
    /\ \/ /\ uis' = {}
          /\ paused' = TRUE
          /\ ClearLocked
          /\ GoCleanUp(u, {Clear})
       \/ /\ uis' # {}
          /\ pc' = [pc EXCEPT ![u] = "closed"]
          /\ UNCHANGED <<paused, grantVars, cancelled, todo>>
    /\ UNCHANGED <<mode, clients, retryVars, rec, lockVars, tok, job, call,
                   reply, sweep, leases>>

Command(u, name) == pc[u] = "ready" /\ name \in Commands

Pause(u) ==
    /\ Command(u, "pause")
    /\ paused' = TRUE
    /\ ClearLocked
    /\ GoCleanUp(u, {Clear})
    /\ UNCHANGED <<mode, uis, clients, retryVars, rec, lockVars, tok, job, call,
                   reply, sweep, leases>>

Resume(u) ==
    /\ Command(u, "pause")
    /\ paused' = FALSE
    /\ authority' = {}
    /\ UNCHANGED <<mode, uis, clients, requests, grants, expired, picker, retryVars,
                   recVars, lockVars, threadVars, leases>>

SetMode(u, m) ==
    /\ Command(u, "mode")
    /\ ClearLocked
    /\ mode' = m
    /\ GoCleanUp(u, {Clear})
    /\ UNCHANGED <<paused, uis, clients, retryVars, rec, lockVars, tok, job, call,
                   reply, sweep, leases>>

RevokeAll(u) ==
    /\ Command(u, "revoke_all")
    /\ ClearLocked
    /\ GoCleanUp(u, {Clear})
    /\ UNCHANGED <<ruleVars, retryVars, rec, lockVars, tok, job, call, reply, sweep,
                   leases>>

(* revoke: only a control grant has a lease to take back. *)
RevokeGrant(u, t) ==
    /\ Command(u, "revoke")
    /\ t \in DOMAIN grants
    /\ DropGrants({t})
    /\ authority' = {}
    /\ IF grants[t].cap = "control" THEN GoCleanUp(u, {t}) ELSE UNCHANGED <<pc, todo>>
    /\ UNCHANGED <<ruleVars, requests, picker, retryVars, recVars, lockVars, tok, job,
                   call, reply, sweep, leases>>

Deny(u, r) ==
    /\ Command(u, "deny")
    /\ r \in DOMAIN requests /\ requests[r].state = "pending"
    /\ requests' = [requests EXCEPT ![r].state = "denied"]
    /\ UNCHANGED <<ruleVars, grants, expired, picker, authority, retryVars, recVars,
                   lockVars, threadVars, leases>>

(* beginShare: client "" means the only one, or "choose in the picker". *)
BeginShare(u, c, cap) ==
    /\ Command(u, "begin_share")
    /\ Accepting
    /\ clients # {}
    /\ \/ c \in clients
       \/ c = None /\ Cardinality(clients) > 1
    /\ \E p \in PickerIds :
          /\ FreshPicker(p)
          /\ picker' = [id |-> p, client |-> c, cap |-> cap, expired |-> FALSE]
    /\ UNCHANGED <<ruleVars, requests, grants, expired, authority, retryVars, recVars,
                   lockVars, threadVars, leases>>

CancelShare(u) ==
    /\ Command(u, "cancel_share")
    /\ picker # None
    /\ picker' = None
    /\ UNCHANGED <<ruleVars, requests, grants, expired, authority, retryVars, recVars,
                   lockVars, threadVars, leases>>
-----------------------------------------------------------------------------
(* decide and selectShare: snapshot the authority, take backendMu, look the *)
(* window up, authorize a lease for control, then publish the grant if      *)
(* nothing has changed.                                                     *)

Decide(u, j) ==
    /\ job' = [job EXCEPT ![u] = j]
    /\ \E t \in Tokens : FreshToken(t) /\ tok' = [tok EXCEPT ![u] = t]
    /\ authority' = authority \cup {u}
    /\ pc' = [pc EXCEPT ![u] = "queued"]
    /\ UNCHANGED <<ruleVars, requests, grants, expired, picker, retryVars, recVars,
                   lockVars, call, todo, reply, sweep, leases>>

Approve(u, r) ==
    /\ Command(u, "approve")
    /\ r \in DOMAIN requests /\ requests[r].state = "pending"
    /\ Accepting /\ mode = "approve"
    /\ Decide(u, [request |-> r, picker |-> None, client |-> requests[r].client,
                  cap |-> requests[r].cap, scope |-> requests[r].scope])

SelectShare(u, c, w) ==
    /\ Command(u, "select_share")
    /\ picker # None /\ ~picker.expired
    /\ Accepting
    /\ picker.client \in {None, c}
    /\ c \in clients
    /\ Decide(u, [request |-> None, picker |-> picker.id, client |-> c,
                  cap |-> picker.cap, scope |-> WindowScope(w)])

(* The handler is back in its loop; what it drew is forgotten. *)
Settle(u) ==
    /\ job' = [job EXCEPT ![u] = None]
    /\ authority' = authority \ {u}

GiveUp(u) ==
    /\ Settle(u)
    /\ tok' = [tok EXCEPT ![u] = None]
    /\ expired' = expired \ {tok[u]}
    /\ pc' = [pc EXCEPT ![u] = "ready"]

(* backendMu is taken and a window scope's window is looked up. *)
Lookup(u) ==
    /\ pc[u] = "queued"
    /\ backend = None
    /\ backend' = u
    /\ pc' = [pc EXCEPT ![u] = IF job[u].cap = "control" THEN "authorize" ELSE "publish"]
    /\ UNCHANGED <<ruleVars, grantVars, retryVars, recVars, inputLock, tok, job, call,
                   todo, reply, sweep, leases>>

LookupFails(u) ==
    /\ pc[u] = "queued"
    /\ backend = None
    /\ job[u].cap = "control" \/ job[u].scope.kind = "window"
    /\ GiveUp(u)
    /\ UNCHANGED <<ruleVars, requests, grants, picker, retryVars, recVars, lockVars,
                   call, todo, reply, sweep, leases>>

Authorize(u) ==
    /\ pc[u] = "authorize"
    /\ GuardAuthorize(tok[u], job[u].scope.id, TRUE)
    /\ pc' = [pc EXCEPT ![u] = "publish"]
    /\ UNCHANGED <<ruleVars, grantVars, retryVars, recVars, lockVars, tok, job, call,
                   todo, reply, sweep>>

(* Faulty: the error return forgets backendMu. *)
BadAuthorizeFails(u) ==
    /\ pc[u] = "authorize"
    /\ UNCHANGED leases
    /\ GiveUp(u)
    /\ UNCHANGED <<ruleVars, requests, grants, picker, retryVars, recVars, lockVars,
                   call, todo, reply, sweep>>

(* The guard refuses, or its answer is lost: the handler returns the error. *)
AuthorizeFails(u) ==
    /\ pc[u] = "authorize"
    /\ GuardAuthorize(tok[u], job[u].scope.id, FALSE) \/ UNCHANGED leases
    /\ GiveUp(u)
    /\ backend' = None
    /\ UNCHANGED <<ruleVars, requests, grants, picker, retryVars, recVars, inputLock,
                   call, todo, reply, sweep>>

(* Faulty: the request or the picker is not looked at again. *)
BadStillCurrent(u) == u \in authority /\ Accepting /\ tok[u] \notin expired

StillCurrent(u) ==
    /\ u \in authority
    /\ Accepting
    /\ tok[u] \notin expired
    /\ IF job[u].picker = None
       THEN /\ job[u].request \in DOMAIN requests
            /\ requests[job[u].request].state = "pending"
            /\ mode = "approve"
       ELSE /\ picker # None
            /\ picker.id = job[u].picker
            /\ job[u].client \in clients

NewGrant(u) == [client |-> job[u].client, cap |-> job[u].cap, scope |-> job[u].scope]

(* A share also answers the pending requests that its grant covers. *)
Answered(u) ==
    {r \in DOMAIN requests :
        /\ requests[r].state = "pending"
        /\ \/ r = job[u].request
           \/ /\ job[u].picker # None
              /\ GrantMatches(NewGrant(u), requests[r].client, requests[r].cap,
                              requests[r].scope, None)}

Publish(u) ==
    /\ pc[u] = "publish"
    /\ StillCurrent(u)
    /\ grants' = Put(grants, tok[u], NewGrant(u))
    /\ requests' = [r \in DOMAIN requests |->
                      IF r \in Answered(u) THEN [requests[r] EXCEPT !.state = "granted"]
                      ELSE requests[r]]
    /\ picker' = IF job[u].picker = None THEN picker ELSE None
    /\ Settle(u)
    /\ tok' = [tok EXCEPT ![u] = None]
    /\ backend' = None
    /\ pc' = [pc EXCEPT ![u] = "ready"]
    /\ UNCHANGED <<ruleVars, expired, retryVars, recVars, inputLock, call, todo, reply,
                   sweep, leases>>

(* Something changed meanwhile: a lease already authorized is taken back,  *)
(* still under backendMu.                                                  *)
Withdraw(u) ==
    /\ pc[u] = "publish"
    /\ ~StillCurrent(u)
    /\ \/ /\ job[u].cap = "control"
          /\ Settle(u)
          /\ todo' = [todo EXCEPT ![u] = {tok[u]}]
          /\ pc' = [pc EXCEPT ![u] = "cleanup"]
          /\ tok' = [tok EXCEPT ![u] = None]
          /\ expired' = expired \ {tok[u]}
          /\ UNCHANGED backend
       \/ /\ job[u].cap # "control"
          /\ GiveUp(u)
          /\ backend' = None
          /\ UNCHANGED todo
    /\ UNCHANGED <<ruleVars, requests, grants, picker, retryVars, recVars, inputLock,
                   call, reply, sweep, leases>>
-----------------------------------------------------------------------------
(* cleanupGuard, called with backendMu held: one exchange with the guard,  *)
(* then a critical section that records what is known of it.               *)

TakeBackend(t) ==
    /\ pc[t] = "lock"
    /\ backend = None
    /\ backend' = t
    /\ pc' = [pc EXCEPT ![t] = "cleanup"]
    /\ UNCHANGED <<ruleVars, grantVars, retryVars, recVars, inputLock, tok, job, call,
                   todo, reply, sweep, leases>>

GuardExecutes(c) == IF c = Clear THEN GuardClear ELSE GuardRevoke(c)

Exchange(t, c, ok) ==
    /\ pc[t] = "cleanup"
    /\ reply[t] = None
    /\ c \in todo[t]
    /\ todo' = [todo EXCEPT ![t] = @ \ {c}]
    /\ reply' = [reply EXCEPT ![t] = [op |-> c, ok |-> ok]]
    /\ UNCHANGED <<ruleVars, grantVars, retryVars, recVars, lockVars, pc, tok, job,
                   call, sweep>>

CleanupAnswered(t, c) == Exchange(t, c, TRUE) /\ GuardExecutes(c)

CleanupUnanswered(t, c) ==
    Exchange(t, c, FALSE) /\ (GuardExecutes(c) \/ UNCHANGED leases)

(* Faulty: a failed revocation is taken for a confirmed one; the retry map  *)
(* is keyed by the reply instead of the operation.                         *)
BadNoteReply(t) ==
    /\ pending' = IF reply[t].op = Clear THEN {} ELSE pending \ {reply[t].op}
    /\ retryDue' = (retryDue /\ reply[t].ok)
    /\ reply' = [reply EXCEPT ![t] = None]

MiskeyedNoteReply(t) ==
    /\ pending' = IF ~reply[t].ok THEN pending \cup {reply[t]}
                  ELSE IF reply[t].op = Clear THEN {} ELSE pending \ {reply[t].op}
    /\ retryDue' = (retryDue /\ reply[t].ok)
    /\ reply' = [reply EXCEPT ![t] = None]

(* A confirmed clear confirms every outstanding revocation. *)
NoteReply(t) ==
    /\ pending' = IF ~reply[t].ok THEN pending \cup {reply[t].op}
                  ELSE IF reply[t].op = Clear THEN {} ELSE pending \ {reply[t].op}
    /\ retryDue' = (retryDue /\ reply[t].ok)
    /\ reply' = [reply EXCEPT ![t] = None]

NoteAndContinue(t) ==
    /\ reply[t] # None
    /\ todo[t] # {}
    /\ NoteReply(t)
    /\ UNCHANGED <<ruleVars, grantVars, recVars, lockVars, pc, tok, job, call, todo,
                   sweep, leases>>

(* Where a goroutine is once its cleanups are done. *)
Rest(t) == CASE t \in UIs -> IF t \in uis THEN "ready" ELSE "closed"
             [] t \in Calls -> "idle"
             [] t \in Sessions -> "closed"
             [] t = Maint -> IF sweep THEN "lock" ELSE "tick"

(* An input call's deferred revoke runs before its inputMu.Unlock. *)
NoteAndReturn(t) ==
    /\ reply[t] # None
    /\ todo[t] = {}
    /\ NoteReply(t)
    /\ backend' = None
    /\ pc' = [pc EXCEPT ![t] = Rest(t)]
    /\ IF t = Maint /\ sweep
       THEN todo' = [todo EXCEPT ![t] = {Clear}] /\ sweep' = FALSE
       ELSE UNCHANGED <<todo, sweep>>
    /\ IF t \in Calls
       THEN /\ inputLock' = None
            /\ tok' = [tok EXCEPT ![t] = None]
            /\ call' = [call EXCEPT ![t] = None]
       ELSE UNCHANGED <<inputLock, tok, call>>
    /\ UNCHANGED <<ruleVars, grantVars, recVars, job, leases>>
-----------------------------------------------------------------------------
(* maintenance, every 100 ms: expiry under b.mu, then retryRevocations, and *)
(* a clear when a control grant has expired.                                *)

(* Faulty: expiry is not followed by a clear. *)
BadMaintTick(aged) ==
    /\ pc[Maint] = "tick"
    /\ DropGrants(DOMAIN grants \cap expired)
    /\ requests' = Drop(requests, aged)
    /\ pc' = [pc EXCEPT ![Maint] = "retry"]
    /\ UNCHANGED <<ruleVars, picker, authority, retryVars, recVars, lockVars, tok, job,
                   call, todo, reply, sweep, leases>>

(* aged: the requests that are more than five minutes old. *)
MaintTick(aged) ==
    /\ pc[Maint] = "tick"
    /\ LET over == DOMAIN grants \cap expired
           shut == picker # None /\ picker.expired
       IN  /\ DropGrants(over)
           /\ picker' = IF shut THEN None ELSE picker
           /\ authority' = IF shut \/ over # {} THEN {} ELSE authority
           /\ sweep' = \E t \in over : grants[t].cap = "control"
    /\ requests' = Drop(requests, aged)
    /\ pc' = [pc EXCEPT ![Maint] = "retry"]
    /\ UNCHANGED <<ruleVars, retryVars, recVars, lockVars, tok, job, call, todo, reply,
                   leases>>

Retry ==
    /\ pc[Maint] = "retry"
    /\ backend = None
    /\ pending # {} /\ retryDue
    /\ backend' = Maint
    /\ todo' = [todo EXCEPT ![Maint] = pending]
    /\ pc' = [pc EXCEPT ![Maint] = "cleanup"]
    /\ UNCHANGED <<ruleVars, grantVars, retryVars, recVars, inputLock, tok, job, call,
                   reply, sweep, leases>>

(* Faulty: the test of the backoff is missing. *)
BadNothingToRetry ==
    /\ pc[Maint] = "retry"
    /\ pc' = [pc EXCEPT ![Maint] = "tick"]
    /\ sweep' = FALSE
    /\ UNCHANGED <<ruleVars, grantVars, retryVars, recVars, lockVars, tok, job, call,
                   todo, reply, leases>>

NothingToRetry ==
    /\ pc[Maint] = "retry"
    /\ backend = None
    /\ pending = {} \/ ~retryDue
    /\ IF sweep
       THEN GoCleanUp(Maint, {Clear})
       ELSE pc' = [pc EXCEPT ![Maint] = "tick"] /\ UNCHANGED todo
    /\ sweep' = FALSE
    /\ UNCHANGED <<ruleVars, grantVars, retryVars, recVars, lockVars, tok, job, call,
                   reply, leases>>
-----------------------------------------------------------------------------
(* Client sessions. *)

FreshClient(c) ==
    /\ c \notin clients
    /\ \A u \in UIs : pc[u] \in Deciding => job[u].client # c
    /\ \A r \in DOMAIN requests : requests[r].client # c
    /\ \A r \in Recorders : rec[r].client # c \/ rec[r].phase = "stopped"

Connect(c) ==
    /\ pc[c] = "closed"
    /\ FreshClient(c)
    /\ clients' = clients \cup {c}
    /\ pc' = [pc EXCEPT ![c] = "open"]
    /\ UNCHANGED <<mode, paused, uis, grantVars, retryVars, recVars, lockVars, tok, job,
                   call, todo, reply, sweep, leases>>

(* The MCP server returns from Run only after the calls it is serving. *)
Drained(c) ==
    /\ \A k \in Calls : pc[k] # "idle" => call[k].client # c
    /\ \A r \in Recorders : rec[r].phase = "permitted" => rec[r].client # c

Disconnect(c) ==
    /\ pc[c] = "open"
    /\ Drained(c)
    /\ clients' = clients \ {c}
    /\ LET gone == {t \in DOMAIN grants : grants[t].client = c}
           tokens == {t \in gone : grants[t].cap = "control"}
           mine == picker # None /\ picker.client = c
       IN  /\ DropGrants(gone)
           /\ picker' = IF mine THEN None ELSE picker
           /\ authority' = IF mine \/ gone # {} THEN {} ELSE authority
           /\ IF tokens # {}
              THEN GoCleanUp(c, tokens)
              ELSE pc' = [pc EXCEPT ![c] = "closed"] /\ UNCHANGED todo
    /\ CancelRequests({r \in DOMAIN requests : requests[r].client = c})
    /\ cancelled' = cancelled \cup {r \in Registered : rec[r].client = c}
    /\ UNCHANGED <<mode, paused, uis, retryVars, rec, lockVars, tok, job, call, reply,
                   sweep, leases>>

(* request_permission, and the refusals of the tools that need permission. *)
Ask(c, cap, scope, ws) ==
    /\ c \in clients
    /\ Accepting
    /\ ~Allowed(c, cap, scope, ws)
    /\ OpenRequest(c, cap, scope)
    /\ UNCHANGED <<ruleVars, grants, expired, picker, authority, retryVars, recVars,
                   lockVars, threadVars, leases>>
-----------------------------------------------------------------------------
(* input: permit, take inputMu, in YOLO mode authorize a temporary lease,  *)
(* then for every action check permission again and exchange.              *)

StartInput(k, c, w, n) ==
    /\ pc[k] = "idle"
    /\ c \in clients
    /\ Accepting
    /\ \/ /\ mode = "yolo"
          /\ call' = [call EXCEPT ![k] = [client |-> c, window |-> w, yolo |-> TRUE, left |-> n]]
          /\ UNCHANGED tok
       \/ /\ mode # "yolo"
          /\ call' = [call EXCEPT ![k] = [client |-> c, window |-> w, yolo |-> FALSE, left |-> n]]
          /\ \E t \in DOMAIN grants \ expired :
                /\ GrantMatches(grants[t], c, "control", WindowScope(w), None)
                /\ tok' = [tok EXCEPT ![k] = t]
    /\ pc' = [pc EXCEPT ![k] = "enqueue"]
    /\ UNCHANGED <<ruleVars, grantVars, retryVars, recVars, lockVars, job, todo, reply,
                   sweep, leases>>

TakeInput(k) ==
    /\ pc[k] = "enqueue"
    /\ inputLock = None
    /\ inputLock' = k
    /\ pc' = [pc EXCEPT ![k] = IF call[k].yolo THEN "borrow" ELSE "check"]
    /\ UNCHANGED <<ruleVars, grantVars, retryVars, recVars, backend, tok, job, call,
                   todo, reply, sweep, leases>>

(* Leaving the call: a temporary lease is revoked first. *)
Finish(k) ==
    IF call[k].yolo
    THEN /\ GoCleanUp(k, {tok[k]})
         /\ UNCHANGED <<inputLock, tok, call>>
    ELSE /\ pc' = [pc EXCEPT ![k] = "idle"]
         /\ inputLock' = None
         /\ tok' = [tok EXCEPT ![k] = None]
         /\ call' = [call EXCEPT ![k] = None]
         /\ UNCHANGED todo

(* The temporary authorize asks for no permission and takes no backendMu. *)
Borrow(k) ==
    /\ pc[k] = "borrow"
    /\ \E t \in Tokens :
          /\ FreshToken(t)
          /\ GuardAuthorize(t, call[k].window, TRUE)
          /\ tok' = [tok EXCEPT ![k] = t]
    /\ pc' = [pc EXCEPT ![k] = "check"]
    /\ UNCHANGED <<ruleVars, grantVars, retryVars, recVars, lockVars, job, call, todo,
                   reply, sweep>>

(* Faulty: the error return forgets inputMu. *)
BadBorrowFails(k) ==
    /\ pc[k] = "borrow"
    /\ UNCHANGED leases
    /\ pc' = [pc EXCEPT ![k] = "idle"]
    /\ call' = [call EXCEPT ![k] = None]
    /\ UNCHANGED <<ruleVars, grantVars, retryVars, recVars, lockVars, tok, job, todo,
                   reply, sweep>>

(* A lost answer may leave a lease behind that nobody takes back. *)
BorrowFails(k) ==
    /\ pc[k] = "borrow"
    /\ \/ \E t \in Tokens : FreshToken(t) /\ GuardAuthorize(t, call[k].window, FALSE)
       \/ UNCHANGED leases
    /\ pc' = [pc EXCEPT ![k] = "idle"]
    /\ call' = [call EXCEPT ![k] = None]
    /\ inputLock' = None
    /\ UNCHANGED <<ruleVars, grantVars, retryVars, recVars, backend, tok, job, todo,
                   reply, sweep>>

CallAllowed(k) == Allowed(call[k].client, "control", WindowScope(call[k].window), None)

Check(k) ==
    /\ pc[k] = "check"
    /\ CallAllowed(k)
    /\ pc' = [pc EXCEPT ![k] = "send"]
    /\ UNCHANGED <<ruleVars, grantVars, retryVars, recVars, lockVars, tok, job, call,
                   todo, reply, sweep, leases>>

(* Permission is gone, or the call's own context has ended. *)
CheckFails(k) ==
    /\ pc[k] = "check"
    /\ Finish(k)
    /\ UNCHANGED <<ruleVars, grantVars, retryVars, recVars, backend, job, reply, sweep,
                   leases>>

(* The transaction goes to the window of the lease. *)
Deliver(k) ==
    /\ pc[k] = "send"
    /\ tok[k] \in DOMAIN leases
    /\ IF call[k].left = 1
       THEN Finish(k)
       ELSE /\ call' = [call EXCEPT ![k].left = @ - 1]
            /\ pc' = [pc EXCEPT ![k] = "check"]
            /\ UNCHANGED <<inputLock, tok, todo>>
    /\ UNCHANGED <<ruleVars, grantVars, retryVars, recVars, backend, job, reply, sweep,
                   leases>>

(* No lease, a refusal, or a lost answer ends the batch; nothing is retried. *)
DeliverFails(k) ==
    /\ pc[k] = "send"
    /\ Finish(k)
    /\ UNCHANGED <<ruleVars, grantVars, retryVars, recVars, backend, job, reply, sweep,
                   leases>>
-----------------------------------------------------------------------------
(* record: permit and registration are two critical sections; the sampling *)
(* loop checks permission before a capture and again before the write.     *)

Goto(r, phase) ==
    /\ rec' = [rec EXCEPT ![r].phase = phase]
    /\ UNCHANGED <<ruleVars, grantVars, retryVars, cancelled, lockVars, threadVars, leases>>

RecAllowed(r) == Allowed(rec[r].client, "record", WindowScope(rec[r].window), None)

StartRecord(r, c, w) ==
    /\ rec[r].phase = "unused"
    /\ c \in clients
    /\ Allowed(c, "record", WindowScope(w), None)
    /\ rec' = [rec EXCEPT ![r] = [phase |-> "permitted", client |-> c, window |-> w]]
    /\ UNCHANGED <<ruleVars, grantVars, retryVars, cancelled, lockVars, threadVars, leases>>

Running == {r \in Registered : rec[r].phase # "stopped"}

Register(r) ==
    /\ rec[r].phase = "permitted"
    /\ Cardinality(Running) < MaxRecording
    /\ Goto(r, "waiting")

RegisterFails(r) ==
    /\ rec[r].phase = "permitted"
    /\ Cardinality(Running) >= MaxRecording
    /\ rec' = [rec EXCEPT ![r] = [phase |-> "unused", client |-> None, window |-> None]]
    /\ UNCHANGED <<ruleVars, grantVars, retryVars, cancelled, lockVars, threadVars, leases>>

(* Faulty: the loop does not look at its context. *)
BadSample(r) ==
    /\ rec[r].phase = "waiting"
    /\ RecAllowed(r)
    /\ Goto(r, "capturing")

Sample(r) ==
    /\ rec[r].phase = "waiting"
    /\ r \notin cancelled
    /\ RecAllowed(r)
    /\ Goto(r, "capturing")

Capture(r) == rec[r].phase = "capturing" /\ Goto(r, "captured")

Recheck(r) ==
    /\ rec[r].phase = "captured"
    /\ RecAllowed(r)
    /\ Goto(r, "writing")

WriteFrame(r) == rec[r].phase = "writing" /\ Goto(r, "waiting")

(* Cancellation, a refused permission, a vanished or resized window, or an *)
(* error of capture or pipe leaves the loop.                               *)
LeaveLoop(r) ==
    /\ \/ rec[r].phase \in {"waiting", "capturing", "writing"}
       \/ rec[r].phase = "captured" /\ ~RecAllowed(r)
    /\ Goto(r, "stopping")

Finalize(r) == rec[r].phase = "stopping" /\ Goto(r, "stopped")

(* stop_recording by its client, or the ten-minute cap. *)
CancelRecording(r) ==
    /\ r \in Running \ cancelled
    /\ cancelled' = cancelled \cup {r}
    /\ UNCHANGED <<ruleVars, grantVars, retryVars, rec, lockVars, threadVars, leases>>
-----------------------------------------------------------------------------
(* Clocks. *)

Expire(t) ==
    /\ t \in DOMAIN grants \cup {tok[u] : u \in {v \in UIs : pc[v] \in Deciding}}
    /\ t \notin expired
    /\ expired' = expired \cup {t}
    /\ UNCHANGED <<ruleVars, requests, grants, picker, authority, retryVars, recVars,
                   lockVars, threadVars, leases>>

PickerExpires ==
    /\ picker # None /\ ~picker.expired
    /\ picker' = [picker EXCEPT !.expired = TRUE]
    /\ UNCHANGED <<ruleVars, requests, grants, expired, authority, retryVars, recVars,
                   lockVars, threadVars, leases>>

RetryTimer ==
    /\ ~retryDue
    /\ retryDue' = TRUE
    /\ UNCHANGED <<ruleVars, grantVars, pending, recVars, lockVars, threadVars, leases>>

LeaseLost(t) ==
    /\ LeaseEnds(t)
    /\ UNCHANGED <<ruleVars, grantVars, retryVars, recVars, lockVars, threadVars>>
-----------------------------------------------------------------------------
UICommand(u) ==
    \/ UIOpen(u) \/ UIClose(u)
    \/ Pause(u) \/ Resume(u) \/ RevokeAll(u) \/ CancelShare(u)
    \/ \E m \in {"approve", "yolo"} : SetMode(u, m)
    \/ \E t \in Tokens : RevokeGrant(u, t)
    \/ \E r \in RequestIds : Approve(u, r) \/ Deny(u, r)
    \/ \E c \in Clients \cup {None}, cap \in {"observe", "control"} : BeginShare(u, c, cap)
    \/ \E c \in Clients, w \in Windows : SelectShare(u, c, w)

Decision(u) ==
    \/ Lookup(u) \/ LookupFails(u)
    \/ Authorize(u) \/ AuthorizeFails(u)
    \/ Publish(u) \/ Withdraw(u)

CleanUp(t) ==
    \/ TakeBackend(t)
    \/ \E c \in Cleanups : CleanupAnswered(t, c) \/ CleanupUnanswered(t, c)
    \/ NoteAndContinue(t) \/ NoteAndReturn(t)

Maintenance ==
    \/ \E aged \in SUBSET DOMAIN requests : MaintTick(aged)
    \/ Retry \/ NothingToRetry

Client(c) ==
    \/ Connect(c) \/ Disconnect(c)
    \/ \E a \in Asks, ws \in Workspaces \cup {None} : Ask(c, a[1], a[2], ws)

InputStep(k) ==
    \/ TakeInput(k) \/ Borrow(k) \/ BorrowFails(k)
    \/ Check(k) \/ CheckFails(k)
    \/ Deliver(k) \/ DeliverFails(k)

Input(k) ==
    \/ \E c \in Clients, w \in Windows, n \in 1..MaxActions : StartInput(k, c, w, n)
    \/ InputStep(k)

RecordStep(r) ==
    \/ Register(r) \/ RegisterFails(r)
    \/ Sample(r) \/ Capture(r) \/ Recheck(r) \/ WriteFrame(r)
    \/ LeaveLoop(r) \/ Finalize(r)

Recording(r) ==
    \/ \E c \in Clients, w \in Windows : StartRecord(r, c, w)
    \/ RecordStep(r)
    \/ CancelRecording(r)

Clock ==
    \/ \E t \in Tokens : Expire(t) \/ LeaseLost(t)
    \/ PickerExpires \/ RetryTimer

Next ==
    \/ \E u \in UIs : UICommand(u) \/ Decision(u)
    \/ \E t \in Threads : CleanUp(t)
    \/ Maintenance
    \/ \E c \in Clients : Client(c)
    \/ \E k \in Calls : Input(k)
    \/ \E r \in Recorders : Recording(r)
    \/ Clock

Spec == Init /\ [][Next]_vars

(* Fairness.  A goroutine that can go on does, and a mutex is handed to a  *)
(* waiter that starves (Go's mutexes do); a guard asked for ever does       *)
(* answer; the maintenance ticker and the retry timer fire.  Clients,       *)
(* supervisors, deadlines and leases owe nothing.                           *)
Advance(t) ==
    \/ CleanUp(t)
    \/ t \in UIs /\ Decision(t)
    \/ t \in Calls /\ InputStep(t)
    \/ t = Maint /\ (MaintTick({}) \/ Retry \/ NothingToRetry)

Fairness ==
    /\ \A t \in Threads : /\ SF_vars(Advance(t))
                          /\ SF_vars(\E c \in Cleanups : CleanupAnswered(t, c))
    /\ \A r \in Recorders : WF_vars(RecordStep(r))
    /\ WF_vars(RetryTimer)

FairSpec == Spec /\ Fairness
=============================================================================
