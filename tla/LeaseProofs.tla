---------------------------- MODULE LeaseProofs ----------------------------
(***************************************************************************)
(* No lease is forgotten, and no input call outlives what permits it, for  *)
(* any number of clients, supervisors, calls and tokens and any order of   *)
(* their exchanges with the guard; and together broker and guard keep the  *)
(* contract of PermissionContract.                                         *)
(***************************************************************************)
EXTENDS LeaseInvariant, AuthorityProofs

USE DEF ruleVars, grantVars, retryVars, recVars, lockVars, threadVars

(* A step is a goroutine's, a recording's or the clock's.                   *)
Acts(t) ==
    \/ t \in UIs /\ (UICommand(t) \/ Decision(t))
    \/ CleanUp(t)
    \/ t = Maint /\ Maintenance
    \/ t \in Clients /\ Client(t)
    \/ t \in Calls /\ Input(t)

LEMMA NextActs ==
    ASSUME [Next]_vars
    PROVE  \/ \E t \in Threads : Acts(t)
           \/ \E r \in Recorders : Recording(r)
           \/ Clock
           \/ UNCHANGED vars
  BY DEF Next, Acts, Threads, Sessions

(* The kinds of goroutine are disjoint, and their locals are functions.     *)
Locals ==
    /\ pc \in [Threads -> UIStates \cup CallStates \cup SessionStates \cup MaintStates]
    /\ tok \in [Threads -> Tokens \cup {None}]
    /\ job \in [UIs -> Jobs \cup {None}]
    /\ call \in [Calls -> InputCalls \cup {None}]
    /\ todo \in [Threads -> SUBSET Cleanups]
    /\ reply \in [Threads -> Replies \cup {None}]

LEMMA Kinds ==
    /\ UIs \cap Calls = {} /\ UIs \cap Clients = {} /\ Calls \cap Clients = {}
    /\ Maint \notin UIs /\ Maint \notin Calls /\ Maint \notin Clients
    /\ Maint \in Threads /\ UIs \subseteq Threads /\ Calls \subseteq Threads
    /\ Clients \subseteq Threads
    /\ None \notin Threads /\ None \notin Tokens /\ None \notin Replies /\ Clear \notin Tokens
  BY AuthorityAssumption DEF Threads, Sessions

LEMMA LocalsType == TypeOK => Locals
  BY DEF TypeOK, ThreadsOK, Locals

(* A goroutine's step leaves the locals of the others alone.                *)
LEMMA OthersKeep ==
    ASSUME TypeOK, NEW t \in Threads, Acts(t), NEW s \in Threads \ {t}
    PROVE  /\ pc'[s] = pc[s] /\ tok'[s] = tok[s]
           /\ todo'[s] = todo[s] /\ reply'[s] = reply[s]
           /\ s \in UIs => job'[s] = job[s]
           /\ s \in Calls => call'[s] = call[s]
  <1> DEFINE Kept == /\ pc'[s] = pc[s] /\ tok'[s] = tok[s]
                     /\ todo'[s] = todo[s] /\ reply'[s] = reply[s]
                     /\ s \in UIs => job'[s] = job[s]
                     /\ s \in Calls => call'[s] = call[s]
  <1>t. Locals
    BY LocalsType
  <1>1. ASSUME t \in UIs, UICommand(t) PROVE Kept
    BY <1>1, <1>t
    DEF UICommand, UIOpen, UIClose, Pause, Resume, RevokeAll, CancelShare, SetMode,
        RevokeGrant, Approve, Deny, BeginShare, SelectShare, Decide, GoCleanUp, Locals
  <1>2. ASSUME t \in UIs, Decision(t) PROVE Kept
    BY <1>2, <1>t
    DEF Decision, Lookup, LookupFails, Authorize, AuthorizeFails, Publish, Withdraw,
        GiveUp, Settle, Locals
  <1>3. ASSUME CleanUp(t) PROVE Kept
    BY <1>3, <1>t
    DEF CleanUp, TakeBackend, CleanupAnswered, CleanupUnanswered, Exchange,
        NoteAndContinue, NoteAndReturn, NoteReply, Locals
  <1>4. ASSUME t = Maint, Maintenance PROVE Kept
    BY <1>4, <1>t DEF Maintenance, MaintTick, Retry, NothingToRetry, GoCleanUp, Locals
  <1>5. ASSUME t \in Clients, Client(t) PROVE Kept
    BY <1>5, <1>t DEF Client, Connect, Ask, Disconnect, GoCleanUp, Locals
  <1>6. ASSUME t \in Calls, Input(t) PROVE Kept
    BY <1>6, <1>t
    DEF Input, InputStep, StartInput, TakeInput, Borrow, BorrowFails, Check,
        CheckFails, Deliver, DeliverFails, Finish, GoCleanUp, Locals
  <1>7. QED
    BY <1>1, <1>2, <1>3, <1>4, <1>5, <1>6 DEF Acts

(* What all but the goroutines do changes none of their locals.             *)
LEMMA ClockKeeps ==
    ASSUME \/ \E r \in Recorders : Recording(r)
           \/ Clock
           \/ UNCHANGED vars
    PROVE  UNCHANGED <<pc, tok, job, call, todo, reply, sweep, backend, paused, mode,
                       grants, pending>>
  BY DEF Recording, RecordStep, StartRecord, Register, RegisterFails, Sample, Capture,
         Recheck, WriteFrame, LeaveLoop, Finalize, CancelRecording, Goto, Clock, Expire,
         LeaseLost, PickerExpires, RetryTimer, vars
-----------------------------------------------------------------------------
(* backendMu. *)

HeldBy(t) ==
    /\ pc[t] \in {"cleanup", "authorize", "publish"} => backend = t
    /\ reply[t] # None => pc[t] = "cleanup"
    /\ pc[t] \notin {"lock", "cleanup"} => todo[t] = {}

SweepPlaced == sweep => pc[Maint] \in {"retry", "cleanup"}

LEMMA HeldByActor ==
    ASSUME TypeOK, BackendHeld, NEW t \in Threads, Acts(t)
    PROVE  /\ HeldBy(t)'
           /\ backend' = backend \/ backend \in {None, t}
           /\ SweepPlaced'
  <1> DEFINE Goal == /\ HeldBy(t)'
                     /\ backend' = backend \/ backend \in {None, t}
                     /\ SweepPlaced'
  <1>t. Locals
    BY LocalsType
  <1>h. HeldBy(t) /\ SweepPlaced
    BY DEF BackendHeld, HeldBy, SweepPlaced
  <1>s. ASSUME t # Maint, UNCHANGED sweep PROVE SweepPlaced'
    BY <1>s, <1>h, OthersKeep, Kinds DEF SweepPlaced
  <1>1. ASSUME t \in UIs, UICommand(t) PROVE Goal
    <2>1. UNCHANGED <<backend, sweep, reply>> /\ pc[t] \in {"closed", "ready"}
      BY <1>1
      DEF UICommand, UIOpen, UIClose, Pause, Resume, RevokeAll, CancelShare, SetMode,
          RevokeGrant, Approve, Deny, BeginShare, SelectShare, Decide, Command
    <2>2. pc'[t] \in {"lock", "queued", "ready", "closed"}
      BY <1>1, <1>t, <2>1
      DEF UICommand, UIOpen, UIClose, Pause, Resume, RevokeAll, CancelShare, SetMode,
          RevokeGrant, Approve, Deny, BeginShare, SelectShare, Decide, GoCleanUp, Locals
    <2>3. pc'[t] = "lock" \/ todo'[t] = todo[t]
      BY <1>1, <1>t
      DEF UICommand, UIOpen, UIClose, Pause, Resume, RevokeAll, CancelShare, SetMode,
          RevokeGrant, Approve, Deny, BeginShare, SelectShare, Decide, GoCleanUp, Locals
    <2>4. QED
      BY <1>1, <1>h, <1>s, <2>1, <2>2, <2>3, Kinds DEF HeldBy
  <1>2. ASSUME t \in UIs, Decision(t) PROVE Goal
    <2>1. UNCHANGED <<sweep, reply>>
      BY <1>2
      DEF Decision, Lookup, LookupFails, Authorize, AuthorizeFails, Publish, Withdraw
    <2>2. CASE Lookup(t) \/ Authorize(t)
      BY <1>2, <1>t, <1>h, <1>s, <2>1, <2>2, Kinds
      DEF Lookup, Authorize, Locals, HeldBy
    <2>3. CASE LookupFails(t) \/ AuthorizeFails(t) \/ Publish(t)
      BY <1>2, <1>t, <1>h, <1>s, <2>1, <2>3, Kinds
      DEF LookupFails, AuthorizeFails, Publish, GiveUp, Locals, HeldBy
    <2>4. CASE Withdraw(t)
      BY <1>2, <1>t, <1>h, <1>s, <2>1, <2>4, Kinds DEF Withdraw, GiveUp, Locals, HeldBy
    <2>5. QED
      BY <1>2, <2>2, <2>3, <2>4 DEF Decision
  <1>3. ASSUME CleanUp(t) PROVE Goal
    <2>1. CASE TakeBackend(t)
      BY <2>1, <1>t, <1>h, Kinds DEF TakeBackend, Locals, HeldBy, SweepPlaced
    <2>2. CASE \E c \in Cleanups : CleanupAnswered(t, c) \/ CleanupUnanswered(t, c)
      BY <2>2, <1>t, <1>h, Kinds
      DEF CleanupAnswered, CleanupUnanswered, Exchange, Locals, HeldBy, SweepPlaced
    <2>3. CASE NoteAndContinue(t)
      BY <2>3, <1>t, <1>h, Kinds
      DEF NoteAndContinue, NoteReply, Locals, HeldBy, SweepPlaced
    <2>4. CASE NoteAndReturn(t)
      BY <2>4, <1>t, <1>h, Kinds, AuthorityAssumption
      DEF NoteAndReturn, NoteReply, Rest, Locals, HeldBy, SweepPlaced, Threads, Sessions
    <2>5. QED
      BY <1>3, <2>1, <2>2, <2>3, <2>4 DEF CleanUp
  <1>4. ASSUME t = Maint, Maintenance PROVE Goal
    BY <1>4, <1>t, <1>h
    DEF Maintenance, MaintTick, Retry, NothingToRetry, GoCleanUp, Locals, HeldBy,
        SweepPlaced
  <1>5. ASSUME t \in Clients, Client(t) PROVE Goal
    BY <1>5, <1>t, <1>h, Kinds
    DEF Client, Connect, Ask, Disconnect, GoCleanUp, Locals, HeldBy, SweepPlaced
  <1>6. ASSUME t \in Calls, Input(t) PROVE Goal
    <2>1. /\ UNCHANGED <<backend, sweep, reply>>
          /\ pc[t] \in {"idle", "enqueue", "borrow", "check", "send"}
      BY <1>6
      DEF Input, InputStep, StartInput, TakeInput, Borrow, BorrowFails, Check,
          CheckFails, Deliver, DeliverFails
    <2>2. /\ pc'[t] \in {"idle", "enqueue", "borrow", "check", "send", "lock"}
          /\ pc'[t] = "lock" \/ todo'[t] = todo[t]
      BY <1>6, <1>t, Kinds
      DEF Input, InputStep, StartInput, TakeInput, Borrow, BorrowFails, Check,
          CheckFails, Deliver, DeliverFails, Finish, GoCleanUp, Locals
    <2>3. QED
      BY <1>6, <1>h, <1>s, <2>1, <2>2, Kinds DEF HeldBy
  <1>7. QED
    BY <1>1, <1>2, <1>3, <1>4, <1>5, <1>6 DEF Acts

LEMMA BackendNext == TypeOK /\ BackendHeld /\ [Next]_vars => BackendHeld'
  <1> SUFFICES ASSUME TypeOK, BackendHeld, [Next]_vars
               PROVE  BackendHeld'
    OBVIOUS
  <1>1. ASSUME NEW t \in Threads, Acts(t) PROVE BackendHeld'
    <2>1. ASSUME NEW s \in Threads \ {t} PROVE HeldBy(s)'
      <3>1. HeldBy(s)
        BY DEF BackendHeld, HeldBy
      <3>2. pc'[s] = pc[s] /\ todo'[s] = todo[s] /\ reply'[s] = reply[s]
        BY <1>1, OthersKeep
      <3>3. backend = s => backend' = s
        BY <1>1, HeldByActor, Kinds
      <3>4. QED
        BY <3>1, <3>2, <3>3 DEF HeldBy
    <2>2. QED
      BY <1>1, <2>1, HeldByActor DEF BackendHeld, HeldBy, SweepPlaced
  <1>2. CASE UNCHANGED <<pc, todo, reply, sweep, backend>>
    BY <1>2 DEF BackendHeld
  <1>3. QED
    BY <1>1, <1>2, NextActs, ClockKeeps
-----------------------------------------------------------------------------
(* Tokens. *)

LEMMA OnlyActorPublishes ==
    ASSUME TypeOK, NEW t \in Threads, Acts(t), NEW u \in UIs, Publish(u)
    PROVE  u = t
  <1>1. pc[u] = "publish" /\ pc'[u] = "ready"
    BY LocalsType, Kinds DEF Publish, Locals
  <1>2. QED
    BY <1>1, OthersKeep, Kinds

(* The grants change by dropping some, or by the actor publishing its own.  *)
LEMMA GrantsOfActor ==
    ASSUME TypeOK, NEW t \in Threads, Acts(t), [Next]_vars, NEW x \in DOMAIN grants'
    PROVE  \/ x \in DOMAIN grants /\ grants'[x] = grants[x]
           \/ t \in UIs /\ Publish(t) /\ x = tok[t]
  <1>1. CASE GrantsDrop
    BY <1>1 DEF GrantsDrop
  <1>2. CASE \E u \in UIs : Publish(u)
    <2>1. t \in UIs /\ Publish(t)
      BY <1>2, OnlyActorPublishes
    <2>2. grants' = Put(grants, tok[t], NewGrant(t))
      BY <2>1 DEF Publish
    <2>3. /\ DOMAIN Put(grants, tok[t], NewGrant(t)) = DOMAIN grants \cup {tok[t]}
          /\ \A y \in DOMAIN grants \ {tok[t]} :
                Put(grants, tok[t], NewGrant(t))[y] = grants[y]
      BY DEF Put
    <2>4. QED
      BY <2>1, <2>2, <2>3
  <1>3. QED
    BY <1>1, <1>2, GrantsGrow

(* What becomes of the actor's token.                                       *)
LEMMA TokenMoves ==
    ASSUME TypeOK, BackendHeld, CallsOrderly, NEW t \in Threads, Acts(t)
    PROVE  /\ \/ tok'[t] = tok[t] /\ (t \in Owners' => t \in Owners \/ tok[t] = None)
              \/ tok'[t] = None
              \/ FreshToken(tok'[t]) /\ grants' = grants
              \/ /\ tok'[t] \in DOMAIN grants /\ grants' = grants
                 /\ t \in Calls /\ t \notin Owners'
           /\ t \in UIs /\ Publish(t) => tok'[t] = None
  <1> DEFINE Goal == /\ \/ tok'[t] = tok[t] /\ (t \in Owners' => t \in Owners \/ tok[t] = None)
                        \/ tok'[t] = None
                        \/ FreshToken(tok'[t]) /\ grants' = grants
                        \/ /\ tok'[t] \in DOMAIN grants /\ grants' = grants
                           /\ t \in Calls /\ t \notin Owners'
                     /\ t \in UIs /\ Publish(t) => tok'[t] = None
  <1>t. Locals
    BY LocalsType
  <1>p. t \in UIs /\ Publish(t) => tok'[t] = None
    BY <1>t, Kinds DEF Publish, Locals
  <1>1. ASSUME t \in UIs, UICommand(t) PROVE Goal
    <2>1. CASE \/ \E r \in RequestIds : Approve(t, r)
               \/ \E c \in Clients, w \in Windows : SelectShare(t, c, w)
      <3>1. FreshToken(tok'[t]) /\ grants' = grants
        BY <2>1, <1>t DEF Approve, SelectShare, Decide, Locals
      <3>2. QED
        BY <3>1, <1>p
    <2>2. CASE ~ \/ \E r \in RequestIds : Approve(t, r)
                 \/ \E c \in Clients, w \in Windows : SelectShare(t, c, w)
      <3>1. UNCHANGED tok
        BY <1>1, <2>2
        DEF UICommand, UIOpen, UIClose, Pause, Resume, RevokeAll, CancelShare, SetMode,
            RevokeGrant, Deny, BeginShare
      <3>2. pc'[t] \notin Deciding
        BY <1>1, <2>2, <1>t
        DEF UICommand, UIOpen, UIClose, Pause, Resume, RevokeAll, CancelShare, SetMode,
            RevokeGrant, Deny, BeginShare, GoCleanUp, Deciding, Locals, Command
      <3>3. QED
        BY <1>1, <3>1, <3>2, <1>p, Kinds DEF Owners, Deciders, Borrowers
    <2>3. QED
      BY <2>1, <2>2
  <1>2. ASSUME t \in UIs, Decision(t) PROVE Goal
    <2>1. pc[t] \in Deciding /\ tok'[t] \in {tok[t], None}
      BY <1>2, <1>t
      DEF Decision, Lookup, LookupFails, Authorize, AuthorizeFails, Publish, Withdraw,
          GiveUp, Deciding, Locals
    <2>2. QED
      BY <1>2, <2>1, <1>p DEF Owners, Deciders
  <1>3. ASSUME CleanUp(t) PROVE Goal
    <2>1. /\ tok'[t] \in {tok[t], None}
          /\ pc'[t] \notin Deciding
          /\ t \in Calls => (call'[t] = call[t] /\ pc[t] # "idle") \/ pc'[t] = "idle"
      <3>1. CASE \/ TakeBackend(t)
                 \/ \E c \in Cleanups : CleanupAnswered(t, c) \/ CleanupUnanswered(t, c)
                 \/ NoteAndContinue(t)
        BY <3>1, <1>t
        DEF TakeBackend, CleanupAnswered, CleanupUnanswered, Exchange, NoteAndContinue,
            Deciding, Locals, BackendHeld
      <3>2. CASE NoteAndReturn(t)
        <4>1. /\ pc'[t] = Rest(t)
              /\ tok'[t] \in {tok[t], None}
          BY <3>2, <1>t DEF NoteAndReturn, Locals
        <4>2. Rest(t) \notin Deciding /\ (t \in Calls => Rest(t) = "idle")
          BY Kinds DEF Rest, Threads, Sessions, Deciding
        <4>3. QED
          BY <4>1, <4>2
      <3>3. QED
        BY <1>3, <3>1, <3>2 DEF CleanUp
    <2>2. QED
      BY <2>1, <1>p, Kinds DEF Owners, Deciders, Borrowers
  <1>4. ASSUME t = Maint, Maintenance PROVE Goal
    <2>1. UNCHANGED tok
      BY <1>4 DEF Maintenance, MaintTick, Retry, NothingToRetry
    <2>2. QED
      BY <1>4, <2>1, <1>p, Kinds DEF Owners, Deciders, Borrowers
  <1>5. ASSUME t \in Clients, Client(t) PROVE Goal
    <2>1. UNCHANGED tok
      BY <1>5 DEF Client, Connect, Ask, Disconnect
    <2>2. QED
      BY <1>5, <2>1, <1>p, Kinds DEF Owners, Deciders, Borrowers
  <1>6. ASSUME t \in Calls, Input(t) PROVE Goal
    <2>1. CASE \E c \in Clients, w \in Windows, n \in 1..MaxActions : StartInput(t, c, w, n)
      <3>1. PICK c \in Clients, w \in Windows, n \in 1..MaxActions : StartInput(t, c, w, n)
        BY <2>1
      <3>2. CASE mode = "yolo"
        BY <3>1, <3>2, <1>p, <1>6 DEF StartInput, CallsOrderly
      <3>3. CASE mode # "yolo"
        <4>1. /\ tok'[t] \in DOMAIN grants /\ grants' = grants
              /\ ~call'[t].yolo
          BY <3>1, <3>3, <1>t, <1>6, Kinds DEF StartInput, Locals
        <4>2. QED
          BY <4>1, <1>p, <1>6, Kinds DEF Owners, Deciders, Borrowers
      <3>4. QED
        BY <3>2, <3>3
    <2>2. CASE Borrow(t)
      <3>1. FreshToken(tok'[t]) /\ grants' = grants
        BY <2>2, <1>t, Kinds DEF Borrow, Locals
      <3>2. QED
        BY <3>1, <1>p
    <2>3. CASE \/ TakeInput(t) \/ BorrowFails(t) \/ Check(t) \/ CheckFails(t)
               \/ Deliver(t) \/ DeliverFails(t)
      <3>t. pc[t] # "idle" /\ call[t] \in InputCalls
        BY <2>3, <1>6
        DEF TakeInput, BorrowFails, Check, CheckFails, Deliver, DeliverFails, TypeOK,
            LocalsOK
      <3>1. /\ tok'[t] \in {tok[t], None}
            /\ pc'[t] # "idle" => call'[t].yolo = call[t].yolo
        <4>1. CASE TakeInput(t) \/ Check(t) \/ BorrowFails(t)
          BY <4>1, <3>t, <1>t, <1>6, Kinds DEF TakeInput, Check, BorrowFails, Locals
        <4>2. CASE CheckFails(t) \/ DeliverFails(t)
          BY <4>2, <3>t, <1>t, <1>6, Kinds
          DEF CheckFails, DeliverFails, Finish, GoCleanUp, Locals
        <4>3. CASE Deliver(t)
          BY <4>3, <3>t, <1>t, <1>6, Kinds
          DEF Deliver, Finish, GoCleanUp, Locals, InputCalls
        <4>4. QED
          BY <2>3, <4>1, <4>2, <4>3
      <3>2. QED
        BY <3>1, <3>t, <1>p, <1>6, Kinds DEF Owners, Deciders, Borrowers
    <2>4. QED
      BY <1>6, <2>1, <2>2, <2>3 DEF Input, InputStep
  <1>7. QED
    BY <1>1, <1>2, <1>3, <1>4, <1>5, <1>6 DEF Acts

LEMMA OthersOwn ==
    ASSUME TypeOK, NEW t \in Threads, Acts(t), NEW s \in Threads \ {t}
    PROVE  s \in Owners' <=> s \in Owners
  BY OthersKeep, Kinds DEF Owners, Deciders, Borrowers

LEMMA OwnersThreads == Owners \subseteq Threads
  BY Kinds DEF Owners, Deciders, Borrowers

LEMMA TokensNext ==
    TypeOK /\ BackendHeld /\ CallsOrderly /\ TokensApart /\ [Next]_vars => TokensApart'
  <1> SUFFICES ASSUME TypeOK, BackendHeld, CallsOrderly, TokensApart, [Next]_vars
               PROVE  TokensApart'
    OBVIOUS
  <1>1. ASSUME NEW t \in Threads, Acts(t) PROVE TokensApart'
    <2> SUFFICES ASSUME NEW o \in Owners', tok'[o] # None
                 PROVE  /\ tok'[o] \notin DOMAIN grants'
                        /\ \A s \in Threads \ {o} : tok'[s] # tok'[o]
      BY DEF TokensApart
    <2>o. o \in Threads
      BY Kinds DEF Owners, Deciders, Borrowers
    <2>g. \A x \in DOMAIN grants' : x \in DOMAIN grants \/ (x = tok[t] /\ t \in Owners
                                                             /\ tok'[t] = None)
      BY <1>1, GrantsOfActor, TokenMoves DEF Publish, Owners, Deciders, Deciding
    <2>s. \A s \in Threads \ {t} : tok'[s] = tok[s]
      BY <1>1, OthersKeep
    <2>1. CASE o = t
      <3>1. CASE FreshToken(tok'[t])
        BY <2>1, <2>g, <2>s, <3>1 DEF FreshToken
      <3>2. CASE tok'[t] = tok[t] /\ t \in Owners
        BY <2>1, <2>g, <2>s, <3>2 DEF TokensApart
      <3>3. QED
        BY <1>1, <2>1, <3>1, <3>2, TokenMoves
    <2>2. CASE o # t
      <3>1. o \in Owners /\ tok'[o] = tok[o]
        BY <1>1, <2>2, <2>o, <2>s, OthersOwn
      <3>2. /\ tok[o] \notin DOMAIN grants
            /\ \A s \in Threads \ {o} : tok[s] # tok[o]
        BY <3>1 DEF TokensApart
      <3>3. tok'[t] # tok[o]
        BY <1>1, <2>2, <2>o, <3>1, <3>2, TokenMoves DEF FreshToken
      <3>4. QED
        BY <2>2, <2>g, <2>s, <2>o, <3>1, <3>2, <3>3
    <2>3. QED
      BY <2>1, <2>2
  <1>2. CASE UNCHANGED <<pc, tok, call, grants>>
    BY <1>2 DEF TokensApart, Owners, Deciders, Borrowers
  <1>3. QED
    BY <1>1, <1>2, NextActs, ClockKeeps
-----------------------------------------------------------------------------
(* Input calls. *)

OrderlyCall(k) ==
    /\ pc[k] = "idle" => tok[k] = None
    /\ pc[k] = "borrow" => call[k].yolo /\ tok[k] = None
    /\ pc[k] = "enqueue" /\ call[k].yolo => tok[k] = None
    /\ pc[k] \in {"lock", "cleanup"} =>
          /\ call[k].yolo
          /\ \/ todo[k] = {tok[k]} /\ reply[k] = None
             \/ todo[k] = {} /\ reply[k] # None /\ reply[k].op = tok[k]

MatchedCall(k) ==
    pc[k] # "idle" /\ ~call[k].yolo /\ tok[k] \in DOMAIN grants =>
        GrantMatches(grants[tok[k]], call[k].client, "control",
                     WindowScope(call[k].window), None)

LEMMA RestIdle == \A k \in Calls : Rest(k) = "idle"
  BY Kinds DEF Rest, Threads, Sessions

LEMMA OrderlyActor ==
    ASSUME TypeOK, BackendHeld, CallsOrderly, NEW k \in Calls, Acts(k)
    PROVE  OrderlyCall(k)'
  <1>t. Locals
    BY LocalsType
  <1>c. pc[k] # "idle" => call[k] \in InputCalls
    BY DEF TypeOK, LocalsOK
  <1>h. /\ OrderlyCall(k)
        /\ pc[k] \notin {"lock", "cleanup"} => reply[k] = None
    BY Kinds DEF CallsOrderly, OrderlyCall, BackendHeld
  <1>1. CASE Input(k)
    <2>1. CASE \E c \in Clients, w \in Windows, n \in 1..MaxActions : StartInput(k, c, w, n)
      BY <2>1, <1>t, <1>h, Kinds DEF StartInput, OrderlyCall, Locals
    <2>2. CASE TakeInput(k)
      BY <2>2, <1>t, <1>h, Kinds DEF TakeInput, OrderlyCall, Locals
    <2>3. CASE Borrow(k) \/ BorrowFails(k) \/ Check(k)
      BY <2>3, <1>t, <1>h, Kinds DEF Borrow, BorrowFails, Check, OrderlyCall, Locals
    <2>4. CASE CheckFails(k) \/ DeliverFails(k)
      BY <2>4, <1>t, <1>h, Kinds
      DEF CheckFails, DeliverFails, Finish, GoCleanUp, OrderlyCall, Locals
    <2>5. CASE Deliver(k)
      BY <2>5, <1>t, <1>c, <1>h, Kinds
      DEF Deliver, Finish, GoCleanUp, OrderlyCall, Locals
    <2>6. QED
      BY <1>1, <2>1, <2>2, <2>3, <2>4, <2>5 DEF Input, InputStep
  <1>2. CASE CleanUp(k)
    <2>1. CASE TakeBackend(k)
      BY <2>1, <1>t, <1>h, Kinds DEF TakeBackend, OrderlyCall, Locals
    <2>2. CASE \E c \in Cleanups : CleanupAnswered(k, c) \/ CleanupUnanswered(k, c)
      <3>1. PICK c \in Cleanups, ok \in BOOLEAN : Exchange(k, c, ok)
        BY <2>2 DEF CleanupAnswered, CleanupUnanswered
      <3>2. /\ pc[k] = "cleanup" /\ reply[k] = None /\ c \in todo[k]
            /\ todo'[k] = todo[k] \ {c}
            /\ reply'[k] = [op |-> c, ok |-> ok]
            /\ pc' = pc /\ tok' = tok /\ call' = call
        BY <3>1, <1>t, Kinds DEF Exchange, Locals
      <3>3. call[k].yolo /\ todo[k] = {tok[k]} /\ c = tok[k]
        BY <3>2, <1>h DEF OrderlyCall
      <3>4. todo'[k] = {} /\ reply'[k].op = tok'[k] /\ reply'[k] # None
        BY <3>2, <3>3, <1>t, Kinds DEF Locals, Replies
      <3>5. QED
        BY <3>2, <3>3, <3>4 DEF OrderlyCall
    <2>3. CASE NoteAndContinue(k)
      BY <2>3, <1>h DEF NoteAndContinue, OrderlyCall
    <2>4. CASE NoteAndReturn(k)
      <3>1. pc'[k] = "idle" /\ tok'[k] = None
        BY <2>4, <1>t, Kinds, RestIdle DEF NoteAndReturn, Locals
      <3>2. QED
        BY <3>1 DEF OrderlyCall
    <2>5. QED
      BY <1>2, <2>1, <2>2, <2>3, <2>4 DEF CleanUp
  <1>3. QED
    BY <1>1, <1>2, Kinds DEF Acts

LEMMA MatchedActor ==
    ASSUME TypeOK, BackendHeld, CallsOrderly, NEW k \in Calls, Acts(k)
    PROVE  MatchedCall(k)'
  <1>t. Locals
    BY LocalsType
  <1>c. pc[k] # "idle" => call[k] \in InputCalls
    BY DEF TypeOK, LocalsOK
  <1>h. MatchedCall(k)
    BY DEF CallsOrderly, MatchedCall
  <1>n. None \notin DOMAIN grants
    BY Kinds DEF TypeOK, GrantsOK
  <1>1. CASE Input(k)
    <2>g. grants' = grants
      BY <1>1, QuietInput DEF held
    <2>1. CASE \E c \in Clients, w \in Windows, n \in 1..MaxActions : StartInput(k, c, w, n)
      BY <2>1, <2>g, <1>t, Kinds DEF StartInput, MatchedCall, Locals
    <2>2. CASE TakeInput(k) \/ BorrowFails(k) \/ Check(k)
      BY <2>2, <2>g, <1>t, <1>h, Kinds
      DEF TakeInput, BorrowFails, Check, MatchedCall, Locals
    <2>3. CASE Borrow(k)
      BY <2>3, <2>g, <1>t, Kinds DEF Borrow, FreshToken, MatchedCall, Locals
    <2>4. CASE CheckFails(k) \/ DeliverFails(k)
      BY <2>4, <2>g, <1>t, <1>h, <1>n, Kinds
      DEF CheckFails, DeliverFails, Finish, GoCleanUp, MatchedCall, Locals
    <2>5. CASE Deliver(k)
      <3>1. CASE call[k].left = 1
        BY <2>5, <3>1, <2>g, <1>t, <1>h, Kinds
        DEF Deliver, Finish, GoCleanUp, MatchedCall, Locals
      <3>2. CASE call[k].left # 1
        <4>1. /\ call'[k].yolo = call[k].yolo
              /\ call'[k].client = call[k].client
              /\ call'[k].window = call[k].window
              /\ tok' = tok
              /\ pc[k] # "idle"
          BY <2>5, <3>2, <1>t, <1>c DEF Deliver, Locals, InputCalls
        <4>2. QED
          BY <4>1, <2>g, <1>h DEF MatchedCall
      <3>3. QED
        BY <3>1, <3>2
    <2>6. QED
      BY <1>1, <2>1, <2>2, <2>3, <2>4, <2>5 DEF Input, InputStep
  <1>2. CASE CleanUp(k)
    <2>g. grants' = grants
      BY <1>2, Kinds, QuietCleanUp DEF held
    <2>1. pc'[k] = "idle" \/ (pc[k] # "idle" /\ tok'[k] = tok[k] /\ call'[k] = call[k])
      <3>1. CASE NoteAndReturn(k)
        BY <3>1, <1>t, Kinds, RestIdle DEF NoteAndReturn, Locals
      <3>2. CASE NoteAndContinue(k)
        BY <3>2, Kinds DEF NoteAndContinue, BackendHeld
      <3>3. CASE \/ TakeBackend(k)
                 \/ \E c \in Cleanups : CleanupAnswered(k, c) \/ CleanupUnanswered(k, c)
        BY <3>3, <1>t, Kinds
        DEF TakeBackend, CleanupAnswered, CleanupUnanswered, Exchange, Locals
      <3>4. QED
        BY <1>2, <3>1, <3>2, <3>3 DEF CleanUp
    <2>2. QED
      BY <2>1, <2>g, <1>h DEF MatchedCall
  <1>3. QED
    BY <1>1, <1>2, Kinds DEF Acts

LEMMA CallsNext ==
    ASSUME TypeOK, BackendHeld, CallsOrderly, TokensApart, [Next]_vars
    PROVE  CallsOrderly'
  <1>1. ASSUME NEW t \in Threads, Acts(t), NEW k \in Calls
        PROVE  OrderlyCall(k)' /\ MatchedCall(k)'
    <2>1. CASE k = t
      BY <1>1, <2>1, OrderlyActor, MatchedActor
    <2>2. CASE k # t
      <3>1. /\ pc'[k] = pc[k] /\ tok'[k] = tok[k] /\ todo'[k] = todo[k]
            /\ reply'[k] = reply[k] /\ call'[k] = call[k]
        BY <1>1, <2>2, OthersKeep, Kinds
      <3>2. OrderlyCall(k) /\ MatchedCall(k)
        BY DEF CallsOrderly, OrderlyCall, MatchedCall
      <3>3. tok[k] \in DOMAIN grants' => /\ tok[k] \in DOMAIN grants
                                         /\ grants'[tok[k]] = grants[tok[k]]
        <4>1. t \in UIs /\ Publish(t) => t \in Owners /\ tok[t] # None
          BY Kinds DEF Publish, Owners, Deciders, Deciding, TypeOK, LocalsOK
        <4>2. t \in UIs /\ Publish(t) => tok[k] # tok[t]
          BY <4>1, <2>2, Kinds DEF TokensApart
        <4>3. QED
          BY <1>1, <4>2, GrantsOfActor
      <3>4. OrderlyCall(k)'
        BY <3>1, <3>2 DEF OrderlyCall
      <3>5. MatchedCall(k)'
        BY <3>1, <3>2, <3>3 DEF MatchedCall
      <3>6. QED
        BY <3>4, <3>5
    <2>3. QED
      BY <2>1, <2>2
  <1>2. CASE UNCHANGED <<pc, tok, call, todo, reply, grants>>
    BY <1>2 DEF CallsOrderly
  <1>3. ASSUME NEW t \in Threads, Acts(t) PROVE CallsOrderly'
    BY <1>1, <1>3 DEF CallsOrderly, OrderlyCall, MatchedCall
  <1>4. QED
    BY <1>2, <1>3, NextActs, ClockKeeps
-----------------------------------------------------------------------------
(* Leases. *)

(* Where a lease comes from: it was there, or it was just authorized by a   *)
(* decision or by a YOLO call.                                              *)
ByDecision(u, x) ==
    /\ x = tok[u] /\ leases'[x].window = job[u].scope.id
    /\ \/ leases'[x].told = TRUE /\ Authorize(u)
       \/ leases'[x].told = FALSE /\ AuthorizeFails(u)

ByCall(k, x) ==
    /\ FreshToken(x) /\ leases'[x].window = call[k].window
    /\ \/ leases'[x].told = TRUE /\ Borrow(k) /\ tok'[k] = x
       \/ leases'[x].told = FALSE /\ BorrowFails(k)

LEMMA GuardGrows ==
    ASSUME NEW t, NEW w, NEW told, GuardAuthorize(t, w, told), NEW x \in DOMAIN leases'
    PROVE  \/ x \in DOMAIN leases /\ leases'[x] = leases[x]
           \/ x = t /\ leases'[x].window = w /\ leases'[x].told = told
  BY DEF GuardAuthorize

LEMMA LeaseMoves ==
    ASSUME TypeOK, [Next]_vars, NEW x \in DOMAIN leases'
    PROVE  \/ x \in DOMAIN leases /\ leases'[x] = leases[x]
           \/ \E u \in UIs : ByDecision(u, x)
           \/ \E k \in Calls : ByCall(k, x)
  <1> DEFINE Kept == x \in DOMAIN leases /\ leases'[x] = leases[x]
  <1>q. UNCHANGED leases => Kept
    OBVIOUS
  <1>t. Locals
    BY LocalsType
  <1>1. ASSUME NEW u \in UIs, UICommand(u) PROVE Kept
    BY <1>1, <1>q
    DEF UICommand, UIOpen, UIClose, Pause, Resume, RevokeAll, CancelShare, SetMode,
        RevokeGrant, Approve, Deny, BeginShare, SelectShare, Decide
  <1>2. ASSUME NEW u \in UIs, Decision(u) PROVE Kept \/ ByDecision(u, x)
    <2>1. CASE Authorize(u)
      <3>1. GuardAuthorize(tok[u], job[u].scope.id, TRUE)
        BY <2>1 DEF Authorize
      <3>2. Kept \/ /\ x = tok[u] /\ leases'[x].window = job[u].scope.id
                    /\ leases'[x].told = TRUE
        BY <3>1, GuardGrows
      <3>3. QED
        BY <2>1, <3>2 DEF ByDecision
    <2>2. CASE AuthorizeFails(u)
      <3>1. GuardAuthorize(tok[u], job[u].scope.id, FALSE) \/ UNCHANGED leases
        BY <2>2 DEF AuthorizeFails
      <3>2. Kept \/ /\ x = tok[u] /\ leases'[x].window = job[u].scope.id
                    /\ leases'[x].told = FALSE
        BY <3>1, <1>q, GuardGrows
      <3>3. QED
        BY <2>2, <3>2 DEF ByDecision
    <2>3. CASE Lookup(u) \/ LookupFails(u) \/ Publish(u) \/ Withdraw(u)
      BY <2>3, <1>q DEF Lookup, LookupFails, Publish, Withdraw
    <2>4. QED
      BY <1>2, <2>1, <2>2, <2>3 DEF Decision
  <1>3. ASSUME NEW t \in Threads, CleanUp(t) PROVE Kept
    <2>1. CASE \E c \in Cleanups : CleanupAnswered(t, c) \/ CleanupUnanswered(t, c)
      BY <2>1, <1>q
      DEF CleanupAnswered, CleanupUnanswered, GuardExecutes, GuardClear, GuardRevoke,
          Restrict
    <2>2. CASE TakeBackend(t) \/ NoteAndContinue(t) \/ NoteAndReturn(t)
      BY <2>2, <1>q DEF TakeBackend, NoteAndContinue, NoteAndReturn
    <2>3. QED
      BY <1>3, <2>1, <2>2 DEF CleanUp
  <1>4. ASSUME Maintenance PROVE Kept
    BY <1>4, <1>q DEF Maintenance, MaintTick, Retry, NothingToRetry
  <1>5. ASSUME NEW c \in Clients, Client(c) PROVE Kept
    BY <1>5, <1>q DEF Client, Connect, Ask, Disconnect
  <1>6. ASSUME NEW k \in Calls, Input(k) PROVE Kept \/ ByCall(k, x)
    <2>1. CASE Borrow(k)
      <3>1. PICK s \in Tokens : /\ FreshToken(s)
                                /\ GuardAuthorize(s, call[k].window, TRUE)
                                /\ tok' = [tok EXCEPT ![k] = s]
        BY <2>1 DEF Borrow
      <3>2. tok'[k] = s
        BY <3>1, <1>t, Kinds DEF Locals
      <3>3. QED
        <4>1. Kept \/ /\ x = s /\ leases'[x].window = call[k].window
                      /\ leases'[x].told = TRUE
          BY <3>1, GuardGrows
        <4>2. QED
          BY <2>1, <3>1, <3>2, <4>1 DEF ByCall
    <2>2. CASE BorrowFails(k)
      <3>1. CASE UNCHANGED leases
        BY <3>1, <1>q
      <3>2. ASSUME NEW s \in Tokens, FreshToken(s), GuardAuthorize(s, call[k].window, FALSE)
            PROVE  Kept \/ ByCall(k, x)
        <4>1. Kept \/ /\ x = s /\ leases'[x].window = call[k].window
                      /\ leases'[x].told = FALSE
          BY <3>2, GuardGrows
        <4>2. QED
          BY <2>2, <3>2, <4>1 DEF ByCall
      <3>3. QED
        BY <2>2, <3>1, <3>2 DEF BorrowFails
    <2>3. CASE \/ \E c \in Clients, w \in Windows, n \in 1..MaxActions :
                     StartInput(k, c, w, n)
               \/ TakeInput(k) \/ Check(k) \/ CheckFails(k) \/ Deliver(k) \/ DeliverFails(k)
      BY <2>3, <1>q
      DEF StartInput, TakeInput, Check, CheckFails, Deliver, DeliverFails
    <2>4. QED
      BY <1>6, <2>1, <2>2, <2>3 DEF Input, InputStep
  <1>7. ASSUME NEW r \in Recorders, Recording(r) PROVE Kept
    BY <1>7, <1>q
    DEF Recording, RecordStep, StartRecord, Register, RegisterFails, Sample, Capture,
        Recheck, WriteFrame, LeaveLoop, Finalize, CancelRecording, Goto
  <1>8. ASSUME Clock PROVE Kept
    BY <1>8, <1>q
    DEF Clock, Expire, LeaseLost, LeaseEnds, Restrict, PickerExpires, RetryTimer
  <1>9. CASE UNCHANGED vars
    BY <1>9, <1>q DEF vars
  <1>10. QED
    BY <1>1, <1>2, <1>3, <1>4, <1>5, <1>6, <1>7, <1>8, <1>9 DEF Next

(* Any goroutine's token after a step.                                      *)
LEMMA TokenAfter ==
    ASSUME TypeOK, BackendHeld, CallsOrderly, [Next]_vars, NEW s \in Threads
    PROVE  \/ tok'[s] = tok[s]
           \/ tok'[s] = None
           \/ FreshToken(tok'[s])
           \/ tok'[s] \in DOMAIN grants
  <1>1. ASSUME NEW t \in Threads, Acts(t)
        PROVE  \/ tok'[s] = tok[s]
               \/ tok'[s] = None
               \/ FreshToken(tok'[s])
               \/ tok'[s] \in DOMAIN grants
    BY <1>1, TokenMoves, OthersKeep
  <1>2. QED
    BY <1>1, NextActs, ClockKeeps

LEMMA GrantsAfter ==
    ASSUME TypeOK, [Next]_vars, NEW x \in DOMAIN grants'
    PROVE  \/ x \in DOMAIN grants /\ grants'[x] = grants[x]
           \/ \E u \in UIs : Publish(u) /\ x = tok[u]
  <1>1. CASE UNCHANGED grants
    BY <1>1
  <1>2. QED
    BY <1>1, GrantsOfActor, NextActs, ClockKeeps

LEMMA OrphansNext ==
    ASSUME TypeOK, BackendHeld, CallsOrderly, TokensApart, OrphansUnknown, [Next]_vars
    PROVE  OrphansUnknown'
  <1> SUFFICES ASSUME NEW x \in DOMAIN leases', ~leases'[x].told
               PROVE  x \notin DOMAIN grants' /\ \A s \in Threads : tok'[s] # x
    BY DEF OrphansUnknown
  <1>1. CASE x \in DOMAIN leases /\ leases'[x] = leases[x]
    <2>1. x \notin DOMAIN grants /\ \A s \in Threads : tok[s] # x
      BY <1>1 DEF OrphansUnknown
    <2>2. x # None
      BY <1>1, Kinds DEF TypeOK, LeaseTypeOK
    <2>3. ~FreshToken(x)
      BY <1>1 DEF FreshToken
    <2>4. QED
      BY <2>1, <2>2, <2>3, TokenAfter, GrantsAfter, Kinds
  <1>2. ASSUME NEW u \in UIs, AuthorizeFails(u), x = tok[u] PROVE
          x \notin DOMAIN grants' /\ \A s \in Threads : tok'[s] # x
    <2>1. /\ grants' = grants /\ tok' = [tok EXCEPT ![u] = None]
          /\ u \in Owners /\ tok[u] \in Tokens
      BY <1>2 DEF AuthorizeFails, GiveUp, Owners, Deciders, Deciding, TypeOK, LocalsOK
    <2>2. x \notin DOMAIN grants /\ \A s \in Threads \ {u} : tok[s] # x
      BY <1>2, <2>1, Kinds DEF TokensApart
    <2>3. QED
      BY <1>2, <2>1, <2>2, Kinds, LocalsType DEF Locals
  <1>3. ASSUME NEW k \in Calls, BorrowFails(k), FreshToken(x) PROVE
          x \notin DOMAIN grants' /\ \A s \in Threads : tok'[s] # x
    BY <1>3 DEF BorrowFails, FreshToken
  <1>4. QED
    BY <1>1, <1>2, <1>3, LeaseMoves DEF ByDecision, ByCall
-----------------------------------------------------------------------------
(* The window of a lease. *)

DecidedWindow(u) ==
    u \in Deciders /\ tok[u] \in DOMAIN leases =>
        /\ pc[u] = "publish"
        /\ job[u].cap = "control"
        /\ job[u].scope = WindowScope(leases[tok[u]].window)

GrantedWindow(x) ==
    x \in DOMAIN grants \cap DOMAIN leases =>
        /\ grants[x].cap = "control"
        /\ grants[x].scope = WindowScope(leases[x].window)

CalledWindow(k) ==
    tok[k] \in DOMAIN leases => call[k].window = leases[tok[k]].window

(* A decision's own steps: until it has authorized, its token has no lease. *)
LEMMA DeciderMoves ==
    ASSUME TypeOK, BackendHeld, NEW u \in UIs, Acts(u), u \in Deciders'
    PROVE  \/ FreshToken(tok'[u])
           \/ /\ u \in Deciders /\ tok'[u] = tok[u] /\ job'[u] = job[u]
              /\ pc[u] # "publish"
  <1>t. Locals
    BY LocalsType
  <1>1. CASE UICommand(u)
    <2>1. CASE \/ \E r \in RequestIds : Approve(u, r)
               \/ \E c \in Clients, w \in Windows : SelectShare(u, c, w)
      BY <2>1, <1>t, Kinds DEF Approve, SelectShare, Decide, Locals
    <2>2. CASE ~ \/ \E r \in RequestIds : Approve(u, r)
                 \/ \E c \in Clients, w \in Windows : SelectShare(u, c, w)
      BY <1>1, <2>2, <1>t, Kinds
      DEF UICommand, UIOpen, UIClose, Pause, Resume, RevokeAll, CancelShare, SetMode,
          RevokeGrant, Deny, BeginShare, GoCleanUp, Deciders, Deciding, Locals, Command
    <2>3. QED
      BY <2>1, <2>2
  <1>2. CASE Decision(u)
    <2>1. CASE Lookup(u) \/ Authorize(u)
      BY <2>1, <1>t, Kinds DEF Lookup, Authorize, Deciders, Deciding, Locals
    <2>2. CASE LookupFails(u) \/ AuthorizeFails(u) \/ Publish(u) \/ Withdraw(u)
      BY <2>2, <1>t, Kinds
      DEF LookupFails, AuthorizeFails, Publish, Withdraw, GiveUp, Deciders, Deciding, Locals
    <2>3. QED
      BY <1>2, <2>1, <2>2 DEF Decision
  <1>3. CASE CleanUp(u)
    <2>1. CASE \/ TakeBackend(u)
               \/ \E c \in Cleanups : CleanupAnswered(u, c) \/ CleanupUnanswered(u, c)
      BY <2>1, <1>t, Kinds
      DEF TakeBackend, CleanupAnswered, CleanupUnanswered, Exchange, Deciders, Deciding,
          Locals
    <2>2. CASE NoteAndContinue(u)
      BY <2>2, Kinds DEF NoteAndContinue, Deciders, Deciding, BackendHeld
    <2>3. CASE NoteAndReturn(u)
      <3>1. pc'[u] = Rest(u) /\ Rest(u) \in {"ready", "closed"}
        BY <2>3, <1>t, Kinds DEF NoteAndReturn, Rest, Locals
      <3>2. QED
        BY <3>1 DEF Deciders, Deciding
    <2>4. QED
      BY <1>3, <2>1, <2>2, <2>3 DEF CleanUp
  <1>4. QED
    BY <1>1, <1>2, <1>3, Kinds DEF Acts

LEMMA DecidedNext ==
    ASSUME TypeOK, BackendHeld, CallsOrderly, TokensApart, WindowsAgree, [Next]_vars,
           NEW u \in UIs
    PROVE  DecidedWindow(u)'
  <1> SUFFICES ASSUME u \in Deciders', tok'[u] \in DOMAIN leases'
               PROVE  /\ pc'[u] = "publish"
                      /\ job'[u].cap = "control"
                      /\ job'[u].scope = WindowScope(leases'[tok'[u]].window)
    BY DEF DecidedWindow
  <1> DEFINE x == tok'[u]
             Goal == /\ pc'[u] = "publish"
                     /\ job'[u].cap = "control"
                     /\ job'[u].scope = WindowScope(leases'[x].window)
  <1>t. Locals
    BY LocalsType
  <1>0. /\ x # None
        /\ tok[u] = x /\ u \in Deciders => \A s \in Threads \ {u} : tok[s] # x
    <2>1. x \in Tokens
      BY TypeNext DEF TypeOK, LeaseTypeOK
    <2>2. QED
      BY <2>1, Kinds DEF TokensApart, Owners
  <1>k. \/ FreshToken(x)
        \/ u \in Deciders /\ tok[u] = x /\ job'[u] = job[u]
    <2>1. ASSUME NEW t \in Threads, Acts(t)
          PROVE  FreshToken(x) \/ (u \in Deciders /\ tok[u] = x /\ job'[u] = job[u])
      BY <2>1, DeciderMoves, OthersKeep, Kinds DEF Deciders
    <2>2. QED
      BY <2>1, NextActs, ClockKeeps DEF Deciders
  <1>1. CASE x \in DOMAIN leases /\ leases'[x] = leases[x]
    <2>1. u \in Deciders /\ tok[u] = x /\ job'[u] = job[u]
      BY <1>1, <1>k DEF FreshToken
    <2>2. /\ pc[u] = "publish"
          /\ job[u].cap = "control"
          /\ job[u].scope = WindowScope(leases[x].window)
      BY <1>1, <2>1 DEF WindowsAgree
    <2>3. pc'[u] = "publish"
      <3>1. ASSUME NEW t \in Threads, Acts(t) PROVE pc'[u] = pc[u]
        BY <3>1, <1>1, <2>2, DeciderMoves, OthersKeep, Kinds DEF FreshToken
      <3>2. QED
        BY <2>2, <3>1, NextActs, ClockKeeps
    <2>4. QED
      BY <1>1, <2>1, <2>2, <2>3
  <1>2. ASSUME NEW v \in UIs, ByDecision(v, x) PROVE Goal
    <2>1. pc[v] = "authorize" /\ v \in Deciders /\ tok[v] \in Tokens
      BY <1>2
      DEF ByDecision, Authorize, AuthorizeFails, Deciders, Deciding, TypeOK, LocalsOK
    <2>2. u \in Deciders /\ tok[u] = x /\ job'[u] = job[u]
      BY <1>2, <1>k, <2>1, Kinds DEF ByDecision, FreshToken
    <2>3. v = u
      BY <1>2, <2>1, <2>2, Kinds DEF ByDecision, TokensApart, Owners
    <2>4. Authorize(u) /\ leases'[x].window = job[u].scope.id
      BY <1>2, <2>3, <1>t, <1>0, Kinds DEF ByDecision, AuthorizeFails, GiveUp, Locals
    <2>5. pc'[u] = "publish"
      BY <2>4, <1>t, Kinds DEF Authorize, Locals
    <2>6. job[u].cap = "control" /\ job[u] \in Jobs
      BY <2>1, <2>3 DEF TypeOK, LocalsOK, Deciding
    <2>7. job[u].scope = WindowScope(job[u].scope.id)
      BY <2>6 DEF Jobs, ValidScope, Scopes, WindowScope
    <2>8. QED
      BY <2>2, <2>4, <2>5, <2>6, <2>7
  <1>3. ASSUME NEW k \in Calls, ByCall(k, x) PROVE Goal
    <2>1. tok[u] # x /\ tok'[u] = tok[u]
      BY <1>3, <1>t, Kinds DEF ByCall, FreshToken, Borrow, BorrowFails, Locals
    <2>2. QED
      BY <2>1
  <1>4. QED
    BY <1>1, <1>2, <1>3, LeaseMoves

LEMMA GrantedNext ==
    ASSUME TypeOK, BackendHeld, TokensApart, WindowsAgree, [Next]_vars,
           NEW x \in DOMAIN grants' \cap DOMAIN leases'
    PROVE  GrantedWindow(x)'
  <1>1. CASE x \in DOMAIN leases /\ leases'[x] = leases[x]
    <2>1. CASE x \in DOMAIN grants /\ grants'[x] = grants[x]
      BY <1>1, <2>1 DEF WindowsAgree, GrantedWindow
    <2>2. ASSUME NEW u \in UIs, Publish(u), x = tok[u] PROVE GrantedWindow(x)'
      <3>1. /\ job[u].cap = "control"
            /\ job[u].scope = WindowScope(leases[x].window)
        BY <1>1, <2>2 DEF WindowsAgree, Deciders, Deciding, Publish
      <3>2. grants' = Put(grants, tok[u], NewGrant(u))
        BY <2>2 DEF Publish
      <3>3. Put(grants, tok[u], NewGrant(u))[tok[u]] = NewGrant(u)
        BY DEF Put
      <3>4. QED
        BY <1>1, <2>2, <3>1, <3>2, <3>3 DEF GrantedWindow, NewGrant
    <2>3. QED
      BY <2>1, <2>2, GrantsAfter
  <1>2. ASSUME NEW u \in UIs, ByDecision(u, x) PROVE FALSE
    <2>1. u \in Owners /\ tok[u] \in Tokens /\ x = tok[u] /\ grants' = grants
      BY <1>2
      DEF ByDecision, Authorize, AuthorizeFails, Owners, Deciders, Deciding, TypeOK,
          LocalsOK
    <2>2. QED
      BY <2>1, Kinds DEF TokensApart
  <1>3. ASSUME NEW k \in Calls, ByCall(k, x) PROVE FALSE
    BY <1>3 DEF ByCall, FreshToken, Borrow, BorrowFails
  <1>4. QED
    BY <1>1, <1>2, <1>3, LeaseMoves

(* The window of a call does not change while it lasts.                     *)
LEMMA CallMoves ==
    ASSUME TypeOK, CallsOrderly, NEW k \in Calls, Acts(k)
    PROVE  \/ tok'[k] = None
           \/ tok'[k] = tok[k] /\ call'[k].window = call[k].window
           \/ Borrow(k) /\ call' = call
           \/ /\ tok'[k] \in DOMAIN grants
              /\ grants[tok'[k]].cap = "control"
              /\ grants[tok'[k]].scope = WindowScope(call'[k].window)
              /\ UNCHANGED leases
  <1>t. Locals
    BY LocalsType
  <1>c. pc[k] # "idle" => call[k] \in InputCalls
    BY DEF TypeOK, LocalsOK
  <1>1. CASE \E c \in Clients, w \in Windows, n \in 1..MaxActions : StartInput(k, c, w, n)
    <2>1. PICK c \in Clients, w \in Windows, n \in 1..MaxActions : StartInput(k, c, w, n)
      BY <1>1
    <2>2. CASE mode = "yolo"
      BY <2>1, <2>2 DEF StartInput, CallsOrderly
    <2>3. CASE mode # "yolo"
      <3>1. PICK t \in DOMAIN grants \ expired :
               /\ GrantMatches(grants[t], c, "control", WindowScope(w), None)
               /\ tok' = [tok EXCEPT ![k] = t]
        BY <2>1, <2>3 DEF StartInput
      <3>2. tok'[k] = t /\ call'[k].window = w /\ UNCHANGED leases
        BY <2>1, <2>3, <3>1, <1>t, Kinds DEF StartInput, Locals
      <3>3. grants[t].cap = "control" /\ grants[t].scope = WindowScope(w)
        BY <3>1 DEF GrantMatches
      <3>4. QED
        BY <3>2, <3>3
    <2>4. QED
      BY <2>2, <2>3
  <1>2. CASE \/ TakeInput(k) \/ BorrowFails(k) \/ Check(k) \/ CheckFails(k)
             \/ Deliver(k) \/ DeliverFails(k)
    <2>1. CASE TakeInput(k) \/ Check(k) \/ CheckFails(k) \/ DeliverFails(k)
      BY <2>1, <1>t, Kinds
      DEF TakeInput, Check, CheckFails, DeliverFails, Finish, Locals
    <2>2. CASE BorrowFails(k)
      BY <2>2 DEF BorrowFails, CallsOrderly
    <2>3. CASE Deliver(k)
      BY <2>3, <1>t, <1>c, Kinds DEF Deliver, Finish, Locals, InputCalls
    <2>4. QED
      BY <1>2, <2>1, <2>2, <2>3
  <1>3. CASE Borrow(k)
    BY <1>3 DEF Borrow
  <1>4. CASE CleanUp(k)
    BY <1>4, <1>t, Kinds
    DEF CleanUp, TakeBackend, CleanupAnswered, CleanupUnanswered, Exchange,
        NoteAndContinue, NoteAndReturn, Locals
  <1>5. QED
    BY <1>1, <1>2, <1>3, <1>4, Kinds DEF Acts, Input, InputStep

LEMMA CalledNext ==
    ASSUME TypeOK, BackendHeld, CallsOrderly, TokensApart, OrphansUnknown, WindowsAgree,
           [Next]_vars, NEW k \in Calls
    PROVE  CalledWindow(k)'
  <1> SUFFICES ASSUME tok'[k] \in DOMAIN leases'
               PROVE  call'[k].window = leases'[tok'[k]].window
    BY DEF CalledWindow
  <1> DEFINE x == tok'[k]
  <1>t. Locals
    BY LocalsType
  <1>0. x # None
    BY TypeNext, Kinds DEF TypeOK, LeaseTypeOK
  <1>k. \/ tok'[k] = tok[k] /\ call'[k].window = call[k].window
        \/ Borrow(k) /\ call' = call
        \/ /\ x \in DOMAIN grants
           /\ grants[x].cap = "control"
           /\ grants[x].scope = WindowScope(call'[k].window)
           /\ UNCHANGED leases
    <2>1. ASSUME NEW t \in Threads, Acts(t)
          PROVE  \/ tok'[k] = tok[k] /\ call'[k].window = call[k].window
                 \/ Borrow(k) /\ call' = call
                 \/ /\ x \in DOMAIN grants
                    /\ grants[x].cap = "control"
                    /\ grants[x].scope = WindowScope(call'[k].window)
                    /\ UNCHANGED leases
      BY <2>1, <1>0, CallMoves, OthersKeep, Kinds
    <2>2. QED
      BY <2>1, NextActs, ClockKeeps
  <1>1. CASE x \in DOMAIN grants /\ grants[x].cap = "control"
             /\ grants[x].scope = WindowScope(call'[k].window) /\ UNCHANGED leases
    <2>1. x \in DOMAIN leases /\ leases'[x] = leases[x]
      BY <1>1
    <2>2. grants[x].scope = WindowScope(leases[x].window)
      BY <1>1, <2>1 DEF WindowsAgree
    <2>3. WindowScope(call'[k].window) = WindowScope(leases[x].window)
      BY <1>1, <2>2
    <2>4. QED
      BY <2>1, <2>3 DEF WindowScope
  <1>2. CASE Borrow(k) /\ call' = call
    <2>1. PICK s \in Tokens : /\ FreshToken(s)
                              /\ GuardAuthorize(s, call[k].window, TRUE)
                              /\ tok' = [tok EXCEPT ![k] = s]
      BY <1>2 DEF Borrow
    <2>2. x = s /\ s \notin DOMAIN leases
      BY <2>1, <1>t, Kinds DEF Locals, FreshToken
    <2>3. s \in DOMAIN leases'
      BY <2>2
    <2>4. leases'[s].window = call[k].window
      BY <2>1, <2>2, <2>3 DEF GuardAuthorize
    <2>5. QED
      BY <1>2, <2>2, <2>4
  <1>3. CASE tok'[k] = tok[k] /\ call'[k].window = call[k].window
    <2>1. CASE x \in DOMAIN leases /\ leases'[x] = leases[x]
      BY <1>3, <2>1 DEF WindowsAgree
    <2>2. ASSUME NEW u \in UIs, ByDecision(u, x) PROVE FALSE
      BY <1>3, <2>2, <1>0, Kinds
      DEF ByDecision, Authorize, AuthorizeFails, TokensApart, Owners, Deciders, Deciding
    <2>3. ASSUME NEW h \in Calls, ByCall(h, x) PROVE FALSE
      BY <1>3, <2>3, Kinds DEF ByCall, FreshToken
    <2>4. QED
      BY <2>1, <2>2, <2>3, LeaseMoves
  <1>4. QED
    BY <1>k, <1>1, <1>2, <1>3

LEMMA WindowsNext ==
    ASSUME TypeOK, BackendHeld, CallsOrderly, TokensApart, OrphansUnknown, WindowsAgree,
           [Next]_vars
    PROVE  WindowsAgree'
  <1>1. \A u \in UIs : DecidedWindow(u)'
    BY DecidedNext
  <1>2. \A x \in DOMAIN grants' \cap DOMAIN leases' : GrantedWindow(x)'
    BY GrantedNext
  <1>3. \A k \in Calls : CalledWindow(k)'
    BY CalledNext
  <1>4. QED
    BY <1>1, <1>2, <1>3
    DEF WindowsAgree, DecidedWindow, GrantedWindow, CalledWindow, Deciders
-----------------------------------------------------------------------------
(* Exchanges with the guard. *)

(* A temporary lease stays borrowed until its call has cleaned up.          *)
LEMMA BorrowedKept ==
    ASSUME TypeOK, BackendHeld, CallsOrderly, [Next]_vars,
           NEW k \in Calls, pc[k] # "idle", call[k].yolo, tok[k] \in Tokens
    PROVE  \/ pc'[k] # "idle" /\ call'[k].yolo /\ tok'[k] = tok[k]
           \/ NoteAndReturn(k) /\ reply[k] # None /\ reply[k].op = tok[k]
  <1> DEFINE Goal == \/ pc'[k] # "idle" /\ call'[k].yolo /\ tok'[k] = tok[k]
                     \/ NoteAndReturn(k) /\ reply[k] # None /\ reply[k].op = tok[k]
  <1>t. Locals
    BY LocalsType
  <1>c. call[k] \in InputCalls
    BY DEF TypeOK, LocalsOK
  <1>n. pc[k] # "borrow"
    BY Kinds DEF CallsOrderly
  <1>1. ASSUME Acts(k) PROVE Goal
    <2>1. CASE Input(k)
      <3>1. CASE TakeInput(k) \/ Check(k) \/ CheckFails(k) \/ DeliverFails(k)
        BY <3>1, <1>t, Kinds
        DEF TakeInput, Check, CheckFails, DeliverFails, Finish, GoCleanUp, Locals
      <3>2. CASE Deliver(k)
        BY <3>2, <1>t, <1>c, Kinds DEF Deliver, Finish, GoCleanUp, Locals, InputCalls
      <3>3. QED
        BY <2>1, <1>n, <3>1, <3>2 DEF Input, InputStep, StartInput, Borrow, BorrowFails
    <2>2. CASE CleanUp(k)
      <3>1. CASE \/ TakeBackend(k) \/ NoteAndContinue(k)
                 \/ \E c \in Cleanups : CleanupAnswered(k, c) \/ CleanupUnanswered(k, c)
        BY <3>1, <1>t, Kinds
        DEF TakeBackend, CleanupAnswered, CleanupUnanswered, Exchange, NoteAndContinue,
            Locals
      <3>2. CASE NoteAndReturn(k)
        <4>1. reply[k] # None /\ pc[k] = "cleanup"
          BY <3>2, Kinds DEF NoteAndReturn, BackendHeld
        <4>2. reply[k].op = tok[k]
          BY <4>1 DEF CallsOrderly
        <4>3. QED
          BY <3>2, <4>1, <4>2
      <3>3. QED
        BY <2>2, <3>1, <3>2 DEF CleanUp
    <2>3. QED
      BY <1>1, <2>1, <2>2, Kinds DEF Acts
  <1>2. ASSUME NEW t \in Threads \ {k}, Acts(t) PROVE Goal
    BY <1>2, OthersKeep, Kinds
  <1>3. QED
    BY <1>1, <1>2, NextActs, ClockKeeps

(* A goroutine that cleans up does nothing else.                            *)
Noting(t) == NoteAndContinue(t) \/ NoteAndReturn(t)

LEMMA CleaningActs ==
    ASSUME TypeOK, BackendHeld, NEW t \in Threads, pc[t] \in {"lock", "cleanup"}, Acts(t)
    PROVE  CleanUp(t) \/ UNCHANGED <<threadVars, pending, leases>>
  <1>t. Locals
    BY LocalsType
  <1>1. ASSUME t \in UIs, UICommand(t) PROVE FALSE
    BY <1>1
    DEF UICommand, UIOpen, UIClose, Pause, Resume, RevokeAll, CancelShare, SetMode,
        RevokeGrant, Approve, Deny, BeginShare, SelectShare, Command
  <1>2. ASSUME t \in UIs, Decision(t) PROVE FALSE
    BY <1>2
    DEF Decision, Lookup, LookupFails, Authorize, AuthorizeFails, Publish, Withdraw
  <1>3. ASSUME t = Maint, Maintenance PROVE FALSE
    BY <1>3 DEF Maintenance, MaintTick, Retry, NothingToRetry
  <1>4. ASSUME t \in Clients, Client(t) PROVE UNCHANGED <<threadVars, pending, leases>>
    BY <1>4 DEF Client, Connect, Disconnect, Ask
  <1>5. ASSUME t \in Calls, Input(t) PROVE FALSE
    BY <1>5
    DEF Input, InputStep, StartInput, TakeInput, Borrow, BorrowFails, Check, CheckFails,
        Deliver, DeliverFails
  <1>6. QED
    BY <1>1, <1>2, <1>3, <1>4, <1>5 DEF Acts

LEMMA ReplyMoves ==
    ASSUME TypeOK, BackendHeld, [Next]_vars, NEW t \in Threads
    PROVE  \/ reply'[t] = reply[t]
           \/ Noting(t) /\ reply[t] # None /\ reply'[t] = None
           \/ \E c \in Cleanups : /\ CleanupAnswered(t, c)
                                  /\ reply'[t] = [op |-> c, ok |-> TRUE]
           \/ \E c \in Cleanups : /\ CleanupUnanswered(t, c)
                                  /\ reply'[t] = [op |-> c, ok |-> FALSE]
  <1> DEFINE Goal == \/ reply'[t] = reply[t]
                     \/ Noting(t) /\ reply[t] # None /\ reply'[t] = None
                     \/ \E c \in Cleanups : /\ CleanupAnswered(t, c)
                                            /\ reply'[t] = [op |-> c, ok |-> TRUE]
                     \/ \E c \in Cleanups : /\ CleanupUnanswered(t, c)
                                            /\ reply'[t] = [op |-> c, ok |-> FALSE]
  <1>t. Locals
    BY LocalsType
  <1>1. ASSUME CleanUp(t) PROVE Goal
    BY <1>1, <1>t
    DEF CleanUp, TakeBackend, CleanupAnswered, CleanupUnanswered, Exchange,
        NoteAndContinue, NoteAndReturn, NoteReply, Noting, Locals
  <1>2. ASSUME Acts(t), ~CleanUp(t) PROVE UNCHANGED reply
    BY <1>2
    DEF Acts, UICommand, UIOpen, UIClose, Pause, Resume, RevokeAll, CancelShare, SetMode,
        RevokeGrant, Approve, Deny, BeginShare, SelectShare, Decide, Decision, Lookup,
        LookupFails, Authorize, AuthorizeFails, Publish, Withdraw, Maintenance, MaintTick,
        Retry, NothingToRetry, Client, Connect, Ask, Disconnect, Input, InputStep,
        StartInput, TakeInput, Borrow, BorrowFails, Check, CheckFails, Deliver,
        DeliverFails
  <1>3. ASSUME NEW s \in Threads \ {t}, Acts(s) PROVE reply'[t] = reply[t]
    BY <1>3, OthersKeep
  <1>4. QED
    BY <1>1, <1>2, <1>3, NextActs, ClockKeeps

LEMMA AnsweredRemoves ==
    ASSUME NEW t \in Threads, NEW c \in Cleanups, CleanupAnswered(t, c),
           NEW x \in DOMAIN leases'
    PROVE  c # Clear /\ c # x
  BY DEF CleanupAnswered, GuardExecutes, GuardClear, GuardRevoke, Restrict

LEMMA AnswersNext ==
    ASSUME TypeOK, BackendHeld, CallsOrderly, TokensApart, AnswersTrue, [Next]_vars
    PROVE  AnswersTrue'
  <1> SUFFICES ASSUME NEW t \in Threads, reply'[t] # None, reply'[t].ok,
                      NEW x \in DOMAIN leases',
                      reply'[t].op = Clear \/ reply'[t].op = x
               PROVE  reply'[t].op = Clear /\ (leases'[x].told => Borrowed(x)')
    BY DEF AnswersTrue
  <1>t. Locals
    BY LocalsType
  <1>x. x \in Tokens
    BY TypeNext DEF TypeOK, LeaseTypeOK
  <1>1. ASSUME NEW c \in Cleanups, CleanupAnswered(t, c),
               reply'[t] = [op |-> c, ok |-> TRUE]
        PROVE  FALSE
    BY <1>1, AnsweredRemoves
  <1>2. CASE reply'[t] = reply[t]
    <2>1. pc[t] = "cleanup" /\ backend = t
      BY <1>2 DEF BackendHeld
    <2>2. CASE x \in DOMAIN leases /\ leases'[x] = leases[x]
      <3>1. reply[t].op = Clear /\ (leases[x].told => Borrowed(x))
        BY <1>2, <1>x, <2>2, Kinds DEF AnswersTrue
      <3>2. ASSUME leases[x].told PROVE Borrowed(x)'
        <4>1. PICK k \in Calls : pc[k] # "idle" /\ call[k].yolo /\ tok[k] = x
          BY <3>1, <3>2 DEF Borrowed
        <4>2. ~(NoteAndReturn(k) /\ reply[k] # None /\ reply[k].op = tok[k])
          <5>1. SUFFICES ASSUME reply[k] # None, reply[k].op = tok[k]
                         PROVE  FALSE
            OBVIOUS
          <5>2. backend = k
            BY <5>1, Kinds DEF BackendHeld
          <5>3. QED
            BY <5>1, <5>2, <2>1, <3>1, <4>1, <1>x, Kinds
        <4>3. QED
          BY <4>1, <4>2, <1>x, BorrowedKept DEF Borrowed
      <3>3. QED
        BY <1>2, <2>2, <3>1, <3>2
    <2>3. ASSUME NEW u \in UIs, ByDecision(u, x) PROVE FALSE
      <3>1. pc[u] = "authorize"
        BY <2>3 DEF ByDecision, Authorize, AuthorizeFails
      <3>2. QED
        BY <2>1, <3>1, Kinds DEF BackendHeld
    <2>4. ASSUME NEW k \in Calls, ByCall(k, x)
          PROVE  reply'[t].op = Clear /\ (leases'[x].told => Borrowed(x)')
      <3>1. reply[t].op # x
        BY <1>2, <2>4 DEF ByCall, FreshToken
      <3>2. ASSUME Borrow(k), tok'[k] = x PROVE Borrowed(x)'
        <4>1. pc'[k] = "check" /\ call' = call /\ call[k].yolo
          BY <3>2, <1>t, Kinds DEF Borrow, Locals, CallsOrderly
        <4>2. QED
          BY <3>2, <4>1 DEF Borrowed
      <3>3. QED
        BY <1>2, <2>4, <3>1, <3>2 DEF ByCall
    <2>5. QED
      BY <2>2, <2>3, <2>4, LeaseMoves
  <1>3. ASSUME NEW c \in Cleanups, reply'[t] = [op |-> c, ok |-> FALSE]
        PROVE  FALSE
    <2>1. reply'[t].ok = FALSE
      BY <1>3
    <2>2. QED
      BY <2>1
  <1>4. QED
    BY <1>1, <1>2, <1>3, ReplyMoves
-----------------------------------------------------------------------------
(* What is outstanding stays so until the guard confirms it. *)

LEMMA TodoKept ==
    ASSUME TypeOK, BackendHeld, [Next]_vars, NEW t \in Threads, NEW c \in todo[t]
    PROVE  \/ c \in todo'[t]
           \/ CleanupAnswered(t, c)
           \/ reply'[t] = [op |-> c, ok |-> FALSE]
  <1> DEFINE Goal == \/ c \in todo'[t]
                     \/ CleanupAnswered(t, c)
                     \/ reply'[t] = [op |-> c, ok |-> FALSE]
  <1>t. Locals
    BY LocalsType
  <1>p. pc[t] \in {"lock", "cleanup"}
    BY DEF BackendHeld
  <1>1. ASSUME CleanUp(t) PROVE Goal
    <2>1. CASE TakeBackend(t) \/ NoteAndContinue(t)
      BY <2>1 DEF TakeBackend, NoteAndContinue
    <2>2. ASSUME NEW d \in Cleanups, CleanupAnswered(t, d) PROVE Goal
      BY <2>2, <1>t DEF CleanupAnswered, Exchange, Locals
    <2>3. ASSUME NEW d \in Cleanups, CleanupUnanswered(t, d) PROVE Goal
      BY <2>3, <1>t DEF CleanupUnanswered, Exchange, Locals
    <2>4. CASE NoteAndReturn(t)
      BY <2>4 DEF NoteAndReturn
    <2>5. QED
      BY <1>1, <2>1, <2>2, <2>3, <2>4 DEF CleanUp
  <1>2. ASSUME Acts(t) PROVE Goal
    BY <1>1, <1>2, <1>p, CleaningActs
  <1>3. ASSUME NEW s \in Threads \ {t}, Acts(s) PROVE todo'[t] = todo[t]
    BY <1>3, OthersKeep
  <1>4. QED
    BY <1>2, <1>3, NextActs, ClockKeeps

LEMMA PendingKept ==
    ASSUME TypeOK, [Next]_vars, NEW c \in pending
    PROVE  \/ c \in pending'
           \/ \E t \in Threads : /\ Noting(t) /\ reply[t] # None /\ reply[t].ok
                                 /\ reply[t].op \in {c, Clear}
  <1> DEFINE Goal == \/ c \in pending'
                     \/ \E t \in Threads : /\ Noting(t) /\ reply[t] # None /\ reply[t].ok
                                           /\ reply[t].op \in {c, Clear}
  <1>1. ASSUME NEW t \in Threads, CleanUp(t) PROVE Goal
    <2>1. CASE Noting(t)
      BY <2>1 DEF Noting, NoteAndContinue, NoteAndReturn, NoteReply
    <2>2. CASE ~Noting(t)
      BY <1>1, <2>2
      DEF Noting, CleanUp, TakeBackend, CleanupAnswered, CleanupUnanswered, Exchange
    <2>3. QED
      BY <2>1, <2>2
  <1>2. ASSUME NEW t \in Threads, Acts(t), ~CleanUp(t) PROVE UNCHANGED pending
    BY <1>2
    DEF Acts, UICommand, UIOpen, UIClose, Pause, Resume, RevokeAll, CancelShare, SetMode,
        RevokeGrant, Approve, Deny, BeginShare, SelectShare, Decide, Decision, Lookup,
        LookupFails, Authorize, AuthorizeFails, Publish, Withdraw, Maintenance, MaintTick,
        Retry, NothingToRetry, Client, Connect, Ask, Disconnect, Input, InputStep,
        StartInput, TakeInput, Borrow, BorrowFails, Check, CheckFails, Deliver,
        DeliverFails
  <1>3. QED
    BY <1>1, <1>2, NextActs, ClockKeeps

LEMMA SweepKept ==
    ASSUME TypeOK, BackendHeld, [Next]_vars, sweep = TRUE
    PROVE  sweep' = TRUE \/ Clear \in todo'[Maint]
  <1> DEFINE Goal == sweep' = TRUE \/ Clear \in todo'[Maint]
  <1>t. Locals
    BY LocalsType
  <1>p. pc[Maint] \in {"retry", "cleanup"}
    BY DEF BackendHeld
  <1>1. ASSUME NEW t \in Threads, CleanUp(t) PROVE Goal
    <2>1. CASE NoteAndReturn(t)
      <3>1. CASE t = Maint
        <4>1. todo' = [todo EXCEPT ![Maint] = {Clear}]
          BY <2>1, <3>1 DEF NoteAndReturn
        <4>2. QED
          BY <4>1, <1>t, Kinds DEF Locals
      <3>2. CASE t # Maint
        BY <2>1, <3>2 DEF NoteAndReturn
      <3>3. QED
        BY <3>1, <3>2
    <2>2. CASE ~NoteAndReturn(t)
      BY <1>1, <2>2
      DEF CleanUp, TakeBackend, CleanupAnswered, CleanupUnanswered, Exchange,
          NoteAndContinue
    <2>3. QED
      BY <2>1, <2>2
  <1>2. ASSUME Maintenance PROVE Goal
    <2>1. CASE Retry
      BY <2>1 DEF Retry
    <2>2. CASE NothingToRetry
      <3>1. todo' = [todo EXCEPT ![Maint] = {Clear}]
        BY <2>2 DEF NothingToRetry, GoCleanUp
      <3>2. QED
        BY <3>1, <1>t, Kinds DEF Locals
    <2>3. QED
      BY <1>2, <1>p, <2>1, <2>2 DEF Maintenance, MaintTick
  <1>3. ASSUME NEW t \in Threads, Acts(t), ~CleanUp(t), ~Maintenance PROVE UNCHANGED sweep
    BY <1>3
    DEF Acts, UICommand, UIOpen, UIClose, Pause, Resume, RevokeAll, CancelShare, SetMode,
        RevokeGrant, Approve, Deny, BeginShare, SelectShare, Decide, Decision, Lookup,
        LookupFails, Authorize, AuthorizeFails, Publish, Withdraw, Client, Connect, Ask,
        Disconnect, Input, InputStep, StartInput, TakeInput, Borrow, BorrowFails, Check,
        CheckFails, Deliver, DeliverFails
  <1>4. QED
    BY <1>1, <1>2, <1>3, NextActs, ClockKeeps

(* A cleanup of c that is still to come, for one c.                         *)
Coming(c) ==
    \/ c \in pending
    \/ \E t \in Threads : c \in todo[t] \/ reply[t] = [op |-> c, ok |-> FALSE]

Confirmed(c) ==
    \/ \E t \in Threads : CleanupAnswered(t, c)
    \/ \E t \in Threads : /\ Noting(t) /\ reply[t] # None /\ reply[t].ok
                          /\ reply[t].op \in {c, Clear}

LEMMA ComingKept ==
    ASSUME TypeOK, BackendHeld, [Next]_vars, NEW c \in Cleanups, Coming(c)
    PROVE  Coming(c)' \/ Confirmed(c)
  <1>1. CASE c \in pending
    BY <1>1, PendingKept DEF Coming, Confirmed
  <1>2. ASSUME NEW t \in Threads, c \in todo[t] PROVE Coming(c)' \/ Confirmed(c)
    BY <1>2, TodoKept DEF Coming, Confirmed
  <1>3. ASSUME NEW t \in Threads, reply[t] = [op |-> c, ok |-> FALSE]
        PROVE  Coming(c)' \/ Confirmed(c)
    <2>1. reply[t] # None /\ reply[t].op = c /\ reply[t].ok = FALSE
      <3>1. [op |-> c, ok |-> FALSE] \in Replies
        BY DEF Replies
      <3>2. reply[t] # None
        BY <1>3, <3>1, Kinds
      <3>3. QED
        BY <1>3, <3>2
    <2>2. CASE reply'[t] = reply[t]
      BY <1>3, <2>2 DEF Coming
    <2>3. CASE Noting(t)
      <3>1. c \in pending'
        BY <2>1, <2>3 DEF Noting, NoteAndContinue, NoteAndReturn, NoteReply
      <3>2. QED
        BY <3>1 DEF Coming
    <2>4. ASSUME NEW d \in Cleanups, CleanupAnswered(t, d) \/ CleanupUnanswered(t, d)
          PROVE  FALSE
      BY <2>1, <2>4 DEF CleanupAnswered, CleanupUnanswered, Exchange
    <2>5. QED
      BY <2>2, <2>3, <2>4, ReplyMoves
  <1>4. QED
    BY <1>1, <1>2, <1>3 DEF Coming

LEMMA OutstandingKept ==
    ASSUME TypeOK, BackendHeld, [Next]_vars, NEW x \in Tokens, Outstanding(x),
           x \in DOMAIN leases'
    PROVE  \/ Outstanding(x)'
           \/ \E t \in Threads : /\ Noting(t) /\ reply[t] # None /\ reply[t].ok
                                 /\ reply[t].op \in {x, Clear}
  <1>1. \A c \in {x, Clear} : \A t \in Threads : ~CleanupAnswered(t, c)
    BY AnsweredRemoves DEF Cleanups
  <1>2. CASE sweep
    <2>1. sweep = TRUE
      BY <1>2 DEF TypeOK, ThreadsOK
    <2>2. QED
      BY <2>1, SweepKept, Kinds DEF Outstanding, ClearComing
  <1>3. CASE Coming(Clear) \/ Coming(x)
    BY <1>1, <1>3, ComingKept
    DEF Coming, Confirmed, Outstanding, ClearComing, RevokeComing, Cleanups
  <1>4. QED
    BY <1>2, <1>3 DEF Coming, Outstanding, ClearComing, RevokeComing
-----------------------------------------------------------------------------
(* Every lease is accounted for. *)

Granted(x) ==
    /\ x \in DOMAIN grants
    /\ grants[x].cap = "control"
    /\ grants[x].scope = WindowScope(leases[x].window)

(* A control grant goes only with a cleanup of its lease.                   *)
LEMMA DroppedIsComing ==
    ASSUME TypeOK, [Next]_vars, NEW x \in DOMAIN grants, x \notin DOMAIN grants',
           grants[x].cap = "control"
    PROVE  Outstanding(x)'
  <1>t. Locals
    BY LocalsType
  <1>c. ASSUME NEW t \in Threads, Clear \in todo'[t] PROVE Outstanding(x)'
    BY <1>c DEF Outstanding, ClearComing
  <1>x. ASSUME NEW t \in Threads, x \in todo'[t] PROVE Outstanding(x)'
    BY <1>x DEF Outstanding, RevokeComing
  <1>1. ASSUME NEW u \in UIs, UICommand(u) PROVE Outstanding(x)'
    <2>1. CASE GoCleanUp(u, {Clear})
      BY <2>1, <1>t, <1>c, Kinds DEF GoCleanUp, Locals
    <2>2. CASE \E t \in Tokens : RevokeGrant(u, t)
      <3>1. PICK t \in Tokens : RevokeGrant(u, t)
        BY <2>2
      <3>2. t = x
        BY <3>1 DEF RevokeGrant, DropGrants, Drop, Restrict
      <3>3. todo' = [todo EXCEPT ![u] = {x}]
        BY <3>1, <3>2 DEF RevokeGrant, GoCleanUp
      <3>4. QED
        BY <3>3, <1>t, <1>x, Kinds DEF Locals
    <2>3. QED
      BY <1>1, <2>1, <2>2
      DEF UICommand, UIOpen, UIClose, Pause, Resume, RevokeAll, CancelShare, SetMode,
          Approve, Deny, BeginShare, SelectShare, Decide
  <1>2. ASSUME NEW u \in UIs, Decision(u) PROVE FALSE
    <2>1. CASE Publish(u)
      BY <2>1 DEF Publish, Put
    <2>2. QED
      BY <1>2, <2>1, QuietDecision DEF held
  <1>3. ASSUME Maintenance PROVE Outstanding(x)'
    <2>1. ASSUME NEW aged, MaintTick(aged) PROVE Outstanding(x)'
      <3>1. x \in expired
        BY <2>1 DEF MaintTick, DropGrants, Drop, Restrict
      <3>2. sweep' = \E t \in DOMAIN grants \cap expired : grants[t].cap = "control"
        BY <2>1 DEF MaintTick
      <3>3. QED
        BY <3>1, <3>2 DEF Outstanding, ClearComing
    <2>2. QED
      BY <1>3, <2>1, QuietMaintenance DEF Maintenance, held
  <1>4. ASSUME NEW c \in Clients, Client(c) PROVE Outstanding(x)'
    <2>1. CASE Disconnect(c)
      <3>1. grants[x].client = c
        BY <2>1, DisconnectShrinks DEF TypeOK
      <3>2. /\ x \in {t \in {g \in DOMAIN grants : grants[g].client = c} :
                      grants[t].cap = "control"}
            /\ todo' = [todo EXCEPT ![c] =
                         {t \in {g \in DOMAIN grants : grants[g].client = c} :
                            grants[t].cap = "control"}]
        BY <2>1, <3>1 DEF Disconnect, GoCleanUp
      <3>3. x \in todo'[c]
        BY <3>2, <1>t, Kinds DEF Locals
      <3>4. QED
        BY <3>3, <1>x, Kinds
    <2>2. QED
      BY <1>4, <2>1 DEF Client, Connect, Ask
  <1>5. QED
    BY <1>1, <1>2, <1>3, <1>4, QuietCleanUp, QuietInput, QuietRecording, QuietClock
    DEF Next, held, vars, PickerExpires

LEMMA GrantedKept ==
    ASSUME TypeOK, TokensApart, [Next]_vars, NEW x \in DOMAIN leases \cap DOMAIN leases',
           leases'[x] = leases[x], Granted(x)
    PROVE  Granted(x)' \/ Outstanding(x)'
  <1>1. CASE x \notin DOMAIN grants'
    BY <1>1, DroppedIsComing DEF Granted
  <1>2. CASE x \in DOMAIN grants'
    <2>1. ASSUME NEW u \in UIs, Publish(u), x = tok[u] PROVE FALSE
      BY <2>1, Kinds
      DEF Granted, Publish, TokensApart, Owners, Deciders, Deciding, TypeOK, LocalsOK
    <2>2. grants'[x] = grants[x]
      BY <1>2, <2>1, GrantsAfter
    <2>3. QED
      BY <1>2, <2>2 DEF Granted
  <1>3. QED
    BY <1>1, <1>2

LEMMA PublishingKept ==
    ASSUME TypeOK, BackendHeld, WindowsAgree, [Next]_vars, NEW u \in UIs, pc[u] = "publish",
           NEW x \in DOMAIN leases \cap DOMAIN leases', x = tok[u],
           leases'[x] = leases[x]
    PROVE  \/ pc'[u] = "publish" /\ tok'[u] = x
           \/ Granted(x)'
           \/ Outstanding(x)'
  <1>t. Locals
    BY LocalsType
  <1>w. job[u].cap = "control" /\ job[u].scope = WindowScope(leases[x].window)
    BY DEF WindowsAgree, Deciders, Deciding
  <1>1. CASE Publish(u)
    <2>1. grants' = Put(grants, x, NewGrant(u))
      BY <1>1 DEF Publish
    <2>2. /\ x \in DOMAIN Put(grants, x, NewGrant(u))
          /\ Put(grants, x, NewGrant(u))[x] = NewGrant(u)
      BY DEF Put
    <2>3. QED
      BY <1>w, <2>1, <2>2 DEF NewGrant, Granted
  <1>2. CASE Withdraw(u)
    <2>1. todo' = [todo EXCEPT ![u] = {x}]
      BY <1>2, <1>w DEF Withdraw
    <2>2. x \in todo'[u]
      BY <2>1, <1>t, Kinds DEF Locals
    <2>3. QED
      BY <2>2, Kinds DEF Outstanding, RevokeComing
  <1>3. ASSUME Acts(u), ~Publish(u), ~Withdraw(u) PROVE pc'[u] = pc[u] /\ tok'[u] = tok[u]
    <2>1. ASSUME UICommand(u) PROVE FALSE
      BY <2>1
      DEF UICommand, UIOpen, UIClose, Pause, Resume, RevokeAll, CancelShare, SetMode,
          RevokeGrant, Approve, Deny, BeginShare, SelectShare, Command
    <2>2. ASSUME Decision(u) PROVE FALSE
      BY <1>3, <2>2 DEF Decision, Lookup, LookupFails, Authorize, AuthorizeFails
    <2>3. ASSUME CleanUp(u) PROVE pc'[u] = pc[u] /\ tok'[u] = tok[u]
      <3>1. CASE NoteAndContinue(u) \/ TakeBackend(u)
                 \/ \E c \in Cleanups : CleanupAnswered(u, c) \/ CleanupUnanswered(u, c)
        BY <3>1
        DEF NoteAndContinue, TakeBackend, CleanupAnswered, CleanupUnanswered, Exchange
      <3>2. CASE NoteAndReturn(u)
        BY <3>2, Kinds DEF NoteAndReturn, BackendHeld
      <3>3. QED
        BY <2>3, <3>1, <3>2 DEF CleanUp
    <2>4. QED
      BY <1>3, <2>1, <2>2, <2>3, Kinds DEF Acts
  <1>4. ASSUME NEW t \in Threads \ {u}, Acts(t) PROVE pc'[u] = pc[u] /\ tok'[u] = tok[u]
    BY <1>4, OthersKeep, Kinds
  <1>5. QED
    BY <1>1, <1>2, <1>3, <1>4, NextActs, ClockKeeps

LEMMA AccountedNext ==
    ASSUME TypeOK, BackendHeld, CallsOrderly, TokensApart, WindowsAgree, AnswersTrue,
           LeaseAccounted, [Next]_vars
    PROVE  LeaseAccounted'
  <1> SUFFICES ASSUME NEW x \in DOMAIN leases', leases'[x].told
               PROVE  \/ Granted(x)'
                      \/ \E u \in UIs : pc'[u] = "publish" /\ tok'[u] = x
                      \/ Borrowed(x)'
                      \/ Outstanding(x)'
    BY DEF LeaseAccounted, Granted
  <1> DEFINE Goal == \/ Granted(x)'
                     \/ \E u \in UIs : pc'[u] = "publish" /\ tok'[u] = x
                     \/ Borrowed(x)'
                     \/ Outstanding(x)'
  <1>t. Locals
    BY LocalsType
  <1>x. x \in Tokens
    BY TypeNext DEF TypeOK, LeaseTypeOK
  <1>1. ASSUME NEW u \in UIs, ByDecision(u, x) PROVE Goal
    <2>1. Authorize(u) /\ x = tok[u]
      BY <1>1 DEF ByDecision
    <2>2. pc'[u] = "publish" /\ tok'[u] = x
      BY <2>1, <1>t, Kinds DEF Authorize, Locals
    <2>3. QED
      BY <2>2
  <1>2. ASSUME NEW k \in Calls, ByCall(k, x) PROVE Goal
    <2>1. Borrow(k) /\ tok'[k] = x
      BY <1>2 DEF ByCall
    <2>2. pc'[k] = "check" /\ call' = call /\ call[k].yolo
      BY <2>1, <1>t, Kinds DEF Borrow, Locals, CallsOrderly
    <2>3. QED
      BY <2>1, <2>2 DEF Borrowed
  <1>3. CASE x \in DOMAIN leases /\ leases'[x] = leases[x]
    <2>1. CASE Granted(x)
      BY <1>3, <2>1, GrantedKept
    <2>2. ASSUME NEW u \in UIs, pc[u] = "publish", tok[u] = x PROVE Goal
      BY <1>3, <2>2, PublishingKept
    <2>3. ASSUME NEW k \in Calls, pc[k] # "idle", call[k].yolo, tok[k] = x PROVE Goal
      <3>1. CASE pc'[k] # "idle" /\ call'[k].yolo /\ tok'[k] = tok[k]
        BY <2>3, <3>1 DEF Borrowed
      <3>2. CASE NoteAndReturn(k) /\ reply[k] # None /\ reply[k].op = x
        <4>1. reply[k].ok = FALSE
          BY <1>3, <1>t, <1>x, <3>2, Kinds DEF AnswersTrue, Locals, Replies
        <4>2. x \in pending'
          BY <3>2, <4>1 DEF NoteAndReturn, NoteReply
        <4>3. QED
          BY <4>2 DEF Outstanding, RevokeComing
      <3>3. QED
        BY <2>3, <3>1, <3>2, <1>x, BorrowedKept
    <2>4. CASE Outstanding(x)
      <3>1. ASSUME NEW t \in Threads, Noting(t), reply[t] # None, reply[t].ok,
                   reply[t].op \in {x, Clear}
            PROVE  Goal
        <4>1. reply[t].op = Clear /\ Borrowed(x)
          BY <1>3, <1>x, <3>1, Kinds DEF AnswersTrue
        <4>2. QED
          BY <4>1, <2>3 DEF Borrowed
      <3>2. QED
        BY <1>x, <2>4, <3>1, OutstandingKept
    <2>5. QED
      BY <1>3, <2>1, <2>2, <2>3, <2>4 DEF LeaseAccounted, Granted, Borrowed
  <1>4. QED
    BY <1>1, <1>2, <1>3, LeaseMoves
-----------------------------------------------------------------------------
LEMMA LeaseInvInit == Init => LeaseInv
  <1> SUFFICES ASSUME Init
               PROVE  LeaseInv
    OBVIOUS
  <1>1. /\ \A u \in UIs : pc[u] = "closed"
        /\ \A k \in Calls : pc[k] = "idle"
        /\ \A c \in Clients : pc[c] = "closed"
        /\ pc[Maint] = "tick"
    BY Kinds DEF Init, Sessions
  <1>2. \A t \in Threads : /\ pc[t] \in {"closed", "idle", "tick"}
                           /\ tok[t] = None /\ todo[t] = {} /\ reply[t] = None
    BY <1>1 DEF Init, Threads, Sessions
  <1>3. DOMAIN leases = {} /\ DOMAIN grants = {} /\ sweep = FALSE
    BY DEF Init, LeaseInit
  <1>4. Owners = {} /\ Deciders = {}
    BY <1>1 DEF Owners, Deciders, Borrowers, Deciding
  <1>5. BackendHeld
    BY <1>2, <1>3 DEF BackendHeld
  <1>6. CallsOrderly
    BY <1>1, <1>2, Kinds DEF CallsOrderly
  <1>7. WindowsAgree
    BY <1>2, <1>3, <1>4, Kinds DEF WindowsAgree
  <1>8. TokensApart /\ OrphansUnknown /\ AnswersTrue /\ LeaseAccounted
    BY <1>2, <1>3, <1>4 DEF TokensApart, OrphansUnknown, AnswersTrue, LeaseAccounted
  <1>9. QED
    BY <1>5, <1>6, <1>7, <1>8, InitType DEF LeaseInv

LEMMA LeaseInvNext == LeaseInv /\ [Next]_vars => LeaseInv'
  <1> SUFFICES ASSUME LeaseInv, [Next]_vars
               PROVE  LeaseInv'
    OBVIOUS
  <1>1. /\ TypeOK /\ BackendHeld /\ TokensApart /\ CallsOrderly /\ OrphansUnknown
        /\ WindowsAgree /\ AnswersTrue /\ LeaseAccounted
    BY DEF LeaseInv
  <1>2. TypeOK' /\ BackendHeld' /\ TokensApart' /\ CallsOrderly'
    BY <1>1, TypeNext, BackendNext, TokensNext, CallsNext
  <1>3. OrphansUnknown' /\ WindowsAgree'
    BY <1>1, OrphansNext, WindowsNext
  <1>4. AnswersTrue' /\ LeaseAccounted'
    BY <1>1, AnswersNext, AccountedNext
  <1>5. QED
    BY <1>2, <1>3, <1>4 DEF LeaseInv

LEMMA LeaseInvAlways == Spec => []LeaseInv
  BY LeaseInvInit, LeaseInvNext, PTL DEF Spec

(* However decisions, YOLO calls, revocations, expiries and lost answers    *)
(* interleave, no lease the broker knows of is left with the guard.         *)
THEOREM NoLeaseForgotten == Spec => []LeaseAccounted
  BY LeaseInvAlways, PTL DEF LeaseInv

(* A delivery reaches the window that was permitted.                        *)
THEOREM DeliveriesHit == Spec => []DeliveryHitsItsWindow
  <1>1. LeaseInv => DeliveryHitsItsWindow
    BY DEF LeaseInv, WindowsAgree, DeliveryHitsItsWindow, CanDeliver
  <1>2. QED
    BY <1>1, LeaseInvAlways, PTL

(* Revoking, expiring, pausing, changing the mode or disconnecting stops    *)
(* the calls that rested on a grant once the guard has confirmed it.        *)
THEOREM RevocationStops == Spec => []RevocationStopsInput
  <1>1. LeaseInv => RevocationStopsInput
    <2> SUFFICES ASSUME LeaseInv, NEW k \in Calls, CanDeliver(k), ~call[k].yolo,
                        ~Outstanding(tok[k])
                 PROVE  /\ tok[k] \in DOMAIN grants
                        /\ GrantMatches(grants[tok[k]], call[k].client, "control",
                                        WindowScope(call[k].window), None)
      BY DEF RevocationStopsInput
    <2> DEFINE x == tok[k]
    <2>1. x \in DOMAIN leases /\ pc[k] = "send" /\ x \in Tokens
      BY DEF CanDeliver, LeaseInv, TypeOK, LeaseTypeOK
    <2>2. leases[x].told
      BY <2>1, Kinds DEF LeaseInv, OrphansUnknown
    <2>3. ASSUME NEW o \in Owners, tok[o] = x PROVE FALSE
      <3>1. o # k
        BY <2>1, Kinds DEF Owners, Deciders, Borrowers
      <3>2. QED
        BY <2>1, <2>3, <3>1, Kinds DEF LeaseInv, TokensApart
    <2>4. ~Borrowed(x) /\ ~ \E u \in UIs : pc[u] = "publish" /\ tok[u] = x
      BY <2>3 DEF Borrowed, Owners, Borrowers, Deciders, Deciding
    <2>5. x \in DOMAIN grants
      BY <2>1, <2>2, <2>4 DEF LeaseInv, LeaseAccounted
    <2>6. QED
      BY <2>1, <2>5 DEF LeaseInv, CallsOrderly
  <1>2. QED
    BY <1>1, LeaseInvAlways, PTL
-----------------------------------------------------------------------------
(* A pause stops input. *)

NoDelivery == \A k \in Calls : ~CanDeliver(k)

LEMMA PauseClears ==
    ASSUME TypeOK, [Next]_vars, ~paused, paused'
    PROVE  \E u \in UIs : Clear \in todo'[u]
  <1>t. Locals
    BY LocalsType
  <1>1. ASSUME NEW u \in UIs, UICommand(u) PROVE Clear \in todo'[u]
    <2>1. GoCleanUp(u, {Clear})
      BY <1>1
      DEF UICommand, UIOpen, UIClose, Pause, Resume, RevokeAll, CancelShare, SetMode,
          RevokeGrant, Approve, Deny, BeginShare, SelectShare, Decide
    <2>2. QED
      BY <2>1, <1>t, Kinds DEF GoCleanUp, Locals
  <1>2. ASSUME NEW u \in UIs, Decision(u) PROVE UNCHANGED paused
    BY <1>2, QuietDecision DEF held, Publish
  <1>3. Maintenance => UNCHANGED paused
    BY DEF Maintenance, MaintTick, Retry, NothingToRetry
  <1>4. ASSUME NEW c \in Clients, Client(c) PROVE UNCHANGED paused
    BY <1>4 DEF Client, Connect, Ask, Disconnect
  <1>5. QED
    BY <1>1, <1>2, <1>3, <1>4, QuietCleanUp, QuietInput, ClockKeeps DEF Next, held

LEMMA SendKeepsToken ==
    ASSUME TypeOK, BackendHeld, [Next]_vars, NEW k \in Calls, pc[k] = "send", pc'[k] = "send"
    PROVE  tok'[k] = tok[k]
  <1>t. Locals
    BY LocalsType
  <1>1. ASSUME Acts(k) PROVE FALSE
    <2>1. CASE Input(k)
      BY <2>1, <1>t, Kinds
      DEF Input, InputStep, StartInput, TakeInput, Borrow, BorrowFails, Check,
          CheckFails, Deliver, DeliverFails, Finish, GoCleanUp, Locals
    <2>2. CASE CleanUp(k)
      BY <2>2, Kinds
      DEF CleanUp, TakeBackend, CleanupAnswered, CleanupUnanswered, Exchange,
          NoteAndContinue, NoteAndReturn, BackendHeld
    <2>3. QED
      BY <1>1, <2>1, <2>2, Kinds DEF Acts
  <1>2. ASSUME NEW t \in Threads \ {k}, Acts(t) PROVE tok'[k] = tok[k]
    BY <1>2, OthersKeep, Kinds
  <1>3. QED
    BY <1>1, <1>2, NextActs, ClockKeeps

LEMMA NoDeliveryKept ==
    ASSUME LeaseInv, NoDelivery, paused, [Next]_vars
    PROVE  NoDelivery'
  <1> SUFFICES ASSUME NEW k \in Calls, pc'[k] = "send", NEW x \in DOMAIN leases',
                      tok'[k] = x
               PROVE  FALSE
    BY DEF NoDelivery, CanDeliver
  <1>1. pc[k] = "send"
    BY SendAfterCheck DEF LeaseInv, Check, CallAllowed, Allowed, Accepting
  <1>2. tok[k] = x /\ x \notin DOMAIN leases
    BY <1>1, SendKeepsToken DEF LeaseInv, NoDelivery, CanDeliver
  <1>3. ASSUME NEW u \in UIs, ByDecision(u, x) PROVE FALSE
    <2>1. u \in Owners /\ tok[u] \in Tokens /\ tok[u] = x
      BY <1>3
      DEF ByDecision, Authorize, AuthorizeFails, Owners, Deciders, Deciding, LeaseInv,
          TypeOK, LocalsOK
    <2>2. QED
      BY <1>2, <2>1, Kinds DEF LeaseInv, TokensApart
  <1>4. ASSUME NEW h \in Calls, ByCall(h, x) PROVE FALSE
    BY <1>2, <1>4, Kinds DEF ByCall, FreshToken
  <1>5. QED
    BY <1>2, <1>3, <1>4, LeaseMoves DEF LeaseInv

LEMMA AnsweredClearEmpties ==
    ASSUME NEW t \in Threads, CleanupAnswered(t, Clear)
    PROVE  NoDelivery'
  BY AnsweredRemoves DEF NoDelivery, CanDeliver, Cleanups

LEMMA ClearedNext ==
    ASSUME LeaseInv, ClearedWhilePaused, [Next]_vars
    PROVE  ClearedWhilePaused'
  <1> SUFFICES ASSUME paused', NEW t \in Threads, reply'[t] = [op |-> Clear, ok |-> TRUE]
               PROVE  (\E s \in Threads : Clear \in todo'[s]) \/ NoDelivery'
    BY DEF ClearedWhilePaused, NoDelivery
  <1>l. TypeOK /\ BackendHeld
    BY DEF LeaseInv
  <1>r. reply'[t] # None /\ reply'[t].ok = TRUE /\ reply'[t].op = Clear
    <2>1. [op |-> Clear, ok |-> TRUE] \in Replies
      BY DEF Replies, Cleanups
    <2>2. reply'[t] # None
      BY <2>1, Kinds
    <2>3. reply'[t].ok = TRUE /\ reply'[t].op = Clear
      OBVIOUS
    <2>4. QED
      BY <2>2, <2>3
  <1>1. CASE ~paused
    BY <1>1, <1>l, PauseClears, Kinds
  <1>2. ASSUME NEW c \in Cleanups, CleanupAnswered(t, c), reply'[t] = [op |-> c, ok |-> TRUE]
        PROVE  NoDelivery'
    <2>1. c = Clear
      BY <1>2, <1>r
    <2>2. QED
      BY <1>2, <2>1, AnsweredClearEmpties
  <1>3. ASSUME NEW c \in Cleanups, reply'[t] = [op |-> c, ok |-> FALSE] PROVE FALSE
    <2>1. reply'[t].ok = FALSE
      BY <1>3
    <2>2. QED
      BY <1>r, <2>1
  <1>4. CASE paused /\ reply'[t] = reply[t]
    <2>1. (\E s \in Threads : Clear \in todo[s]) \/ NoDelivery
      BY <1>4 DEF ClearedWhilePaused, NoDelivery
    <2>2. ASSUME NEW s \in Threads, Clear \in todo[s]
          PROVE  Clear \in todo'[s] \/ NoDelivery'
      <3>1. pc[t] = "cleanup" /\ backend = t
        BY <1>4, <1>r, <1>l DEF BackendHeld
      <3>2. ASSUME reply'[s] = [op |-> Clear, ok |-> FALSE] PROVE Clear \in todo'[s]
        <4>1. s # t
          BY <1>r, <3>2, <1>3 DEF Cleanups
        <4>2. reply[s] = None
          BY <3>1, <4>1, <1>l DEF BackendHeld
        <4>3. pc[s] # "cleanup"
          BY <3>1, <4>1, <1>l DEF BackendHeld
        <4>4. [op |-> Clear, ok |-> FALSE] \in Replies
          BY DEF Replies, Cleanups
        <4>5. reply'[s] # reply[s]
          BY <3>2, <4>2, <4>4, Kinds
        <4>6. QED
          BY <1>l, <3>2, <4>2, <4>3, <4>5, ReplyMoves
          DEF CleanupAnswered, CleanupUnanswered, Exchange
      <3>3. QED
        BY <1>l, <2>2, <3>2, TodoKept, AnsweredClearEmpties
    <2>3. QED
      BY <1>4, <2>1, <2>2, NoDeliveryKept
  <1>5. QED
    BY <1>l, <1>r, <1>1, <1>2, <1>3, <1>4, ReplyMoves

LEMMA PauseNext ==
    ASSUME LeaseInv, ClearedWhilePaused, PauseStopsInput, [Next]_vars
    PROVE  PauseStopsInput'
  <1> SUFFICES ASSUME paused', ~ClearComing'
               PROVE  NoDelivery'
    BY DEF PauseStopsInput, NoDelivery
  <1>l. TypeOK /\ BackendHeld
    BY DEF LeaseInv
  <1>1. paused
    BY <1>l, PauseClears, Kinds DEF ClearComing
  <1>2. CASE NoDelivery
    BY <1>1, <1>2, NoDeliveryKept
  <1>3. ASSUME NEW s \in Threads, Clear \in todo[s] PROVE NoDelivery'
    BY <1>l, <1>3, TodoKept, AnsweredClearEmpties DEF ClearComing
  <1>4. CASE sweep
    <2>1. sweep = TRUE
      BY <1>4, <1>l DEF TypeOK, ThreadsOK
    <2>2. QED
      BY <2>1, <1>l, SweepKept, Kinds DEF ClearComing
  <1>5. CASE Coming(Clear)
    <2>1. Confirmed(Clear)
      BY <1>5, <1>l, ComingKept DEF Coming, ClearComing, Cleanups
    <2>2. ASSUME NEW t \in Threads, reply[t] # None, reply[t].ok, reply[t].op = Clear
          PROVE  NoDelivery'
      <3>1. reply[t] = [op |-> Clear, ok |-> TRUE]
        BY <1>l, <2>2, LocalsType DEF Locals, Replies
      <3>2. (\E s \in Threads : Clear \in todo[s]) \/ NoDelivery
        BY <1>1, <3>1 DEF ClearedWhilePaused, NoDelivery
      <3>3. QED
        BY <3>2, <1>2, <1>3
    <2>3. QED
      BY <2>1, <2>2, AnsweredClearEmpties DEF Confirmed
  <1>6. QED
    BY <1>1, <1>2, <1>4, <1>5 DEF PauseStopsInput, NoDelivery, ClearComing, Coming

(* Once the clear that a pause sends is confirmed, no input call, wherever  *)
(* it was when the user paused, delivers anything until the user resumes.   *)
THEOREM PauseStops == Spec => []PauseStopsInput
  <1>1. Init => ClearedWhilePaused /\ PauseStopsInput
    BY DEF Init, ClearedWhilePaused, PauseStopsInput
  <1>2. LeaseInv /\ ClearedWhilePaused /\ PauseStopsInput /\ [Next]_vars
           => ClearedWhilePaused' /\ PauseStopsInput'
    BY ClearedNext, PauseNext
  <1>3. QED
    BY <1>1, <1>2, LeaseInvAlways, PTL DEF Spec
-----------------------------------------------------------------------------
(* The contract of broker and guard.  Every step of Authority gives up some *)
(* tokens, lets some leases lapse, or is one of the few that make a token   *)
(* worth something.                                                         *)

Active == DOMAIN Decided \cup DOMAIN grants \cup Temporary

(* The decisions are by different tokens, apart from everything else.       *)
DecidedFacts ==
    /\ DOMAIN Decided = {tok[u] : u \in Deciders}
    /\ \A u \in Deciders :
          /\ Decided[tok[u]] = NewGrant(u)
          /\ tok[u] \in Tokens
          /\ tok[u] \notin DOMAIN grants
          /\ tok[u] \notin Temporary
          /\ \A v \in Deciders : tok[v] = tok[u] => v = u

LEMMA DecidedIs == TypeOK /\ TokensApart => DecidedFacts
  <1> SUFFICES ASSUME TypeOK, TokensApart PROVE DecidedFacts
    OBVIOUS
  <1>1. DOMAIN Decided = {tok[u] : u \in Deciders}
    BY DEF Decided
  <1>2. ASSUME NEW u \in Deciders
        PROVE  /\ Decided[tok[u]] = NewGrant(u)
               /\ tok[u] \in Tokens
               /\ tok[u] \notin DOMAIN grants
               /\ tok[u] \notin Temporary
               /\ \A v \in Deciders : tok[v] = tok[u] => v = u
    <2>1. u \in UIs /\ tok[u] \in Tokens /\ tok[u] # None
      BY Kinds DEF Deciders, TypeOK, LocalsOK
    <2>2. /\ tok[u] \notin DOMAIN grants
          /\ \A t \in Threads \ {u} : tok[t] # tok[u]
      BY <2>1 DEF TokensApart, Owners
    <2>3. \A v \in Deciders : tok[v] = tok[u] => v = u
      BY <2>2, Kinds DEF Deciders
    <2>4. tok[u] \notin Temporary
      BY <2>1, <2>2, Kinds DEF Temporary, Borrowers
    <2>5. (CHOOSE v \in Deciders : tok[v] = tok[u]) = u
      BY <2>3
    <2>6. Decided[tok[u]] = NewGrant(u)
      BY <2>5 DEF Decided
    <2> QED BY <2>1, <2>2, <2>3, <2>4, <2>6
  <1> QED BY <1>1, <1>2 DEF DecidedFacts

(* The temporary tokens are in no grant, and each is of one call.           *)
LEMMA TemporaryApart ==
    ASSUME TypeOK, TokensApart, NEW k \in Borrowers, tok[k] # None
    PROVE  /\ tok[k] \in Tokens \ DOMAIN grants
           /\ \A h \in Borrowers : tok[h] = tok[k] => h = k
  <1>1. k \in Threads /\ k \in Owners /\ Borrowers \subseteq Threads
    BY Kinds DEF Borrowers, Owners
  <1>2. tok[k] \in Tokens
    BY <1>1 DEF TypeOK, ThreadsOK
  <1> QED BY <1>1, <1>2 DEF TokensApart

(* No lease is forgotten: what is left is being taken back.                 *)
NothingForgotten == Ending = Heard \ Active

LEMMA EndingIs == TypeOK /\ TokensApart /\ LeaseAccounted => NothingForgotten
  <1> SUFFICES ASSUME TypeOK, TokensApart, LeaseAccounted PROVE NothingForgotten
    OBVIOUS
  <1>1. \A x : x \in Active <=> \/ x \in DOMAIN grants \cup Temporary
                                \/ \E u \in Deciders : tok[u] = x
    BY DEF Active, Decided
  <1>2. ASSUME NEW x \in Heard, x \notin Active PROVE Outstanding(x)
    <2>1. x \notin DOMAIN grants
      BY <1>1, <1>2
    <2>2. ~ \E u \in UIs : pc[u] = "publish" /\ tok[u] = x
      BY <1>1, <1>2 DEF Deciders, Deciding
    <2>3. ~ Borrowed(x)
      <3>1. x # None
        BY Kinds DEF Heard, TypeOK, LeaseTypeOK
      <3> QED BY <1>1, <1>2, <3>1 DEF Borrowed, Temporary, Borrowers
    <2> QED BY <2>1, <2>2, <2>3 DEF LeaseAccounted, Heard
  <1> QED BY <1>1, <1>2 DEF Ending, NothingForgotten

(* Both, before and after a step.                                           *)
Settled == DecidedFacts /\ NothingForgotten

LEMMA InvSettled == LeaseInv => Settled
  BY DecidedIs, EndingIs DEF LeaseInv, Settled

LEMMA InvSettledNext == LeaseInv' => Settled'
  BY InvSettled, PTL

Authorities == <<Decided, grants, Temporary, KnownLeases>>

LEMMA KnownIs == DOMAIN KnownLeases = Heard
  BY DEF KnownLeases

LEMMA WithoutIs ==
    ASSUME NEW f, NEW S
    PROVE  /\ DOMAIN Contract!Without(f, S) = DOMAIN f \ S
           /\ \A x \in DOMAIN f \ S : Contract!Without(f, S)[x] = f[x]
  BY DEF Contract!Without, Contract!Restrict

(* What the steps are called in the contract.                               *)
Ends(S) ==
    /\ Decided' = Contract!Without(Decided, S)
    /\ grants' = Contract!Without(grants, S)
    /\ Temporary' = Temporary \ S
    /\ UNCHANGED KnownLeases

LEMMA EndsIsEnd ==
    ASSUME NothingForgotten, NothingForgotten',
           NEW S \in SUBSET Active, Ends(S)
    PROVE  Contract!End(S)
  <1>1. Heard' = Heard
    BY KnownIs DEF Ends, KnownLeases
  <1>2. Active' = Active \ S
    <2>1. DOMAIN Decided' = DOMAIN Decided \ S
      BY WithoutIs DEF Ends
    <2>2. DOMAIN grants' = DOMAIN grants \ S
      BY WithoutIs DEF Ends
    <2> QED BY <2>1, <2>2 DEF Ends, Active
  <1>3. Ending' = Ending \cup (S \cap Heard)
    BY <1>1, <1>2 DEF NothingForgotten
  <1> QED BY <1>3, KnownIs DEF Ends, Contract!End

LEMMA EndingKept ==
    ASSUME NothingForgotten, NothingForgotten', UNCHANGED Authorities
    PROVE  Ending' = Ending
  <1>1. Heard' = Heard
    BY KnownIs DEF Authorities, KnownLeases
  <1>2. Active' = Active
    BY DEF Active, Authorities
  <1> QED BY <1>1, <1>2 DEF NothingForgotten

ContractStep == Contract!Next \/ UNCHANGED Contract!vars

LEMMA RevokeStep ==
    ASSUME NothingForgotten, NothingForgotten',
           NEW S \in SUBSET Active, Ends(S), UNCHANGED <<Open, pending>>
    PROVE  ContractStep
  <1>1. Contract!End(S)
    BY EndsIsEnd
  <1>2. S \in SUBSET Contract!InForce
    BY DEF Active, Contract!InForce
  <1>3. Contract!Revoke
    BY <1>1, <1>2 DEF Contract!Revoke
  <1> QED BY <1>3 DEF ContractStep, Contract!Next

LEMMA StutterStep ==
    ASSUME NothingForgotten, NothingForgotten',
           UNCHANGED Authorities, UNCHANGED <<Open, pending>>
    PROVE  ContractStep
  BY EndingKept DEF ContractStep, Contract!vars, Authorities

LEMMA UnlockStep ==
    ASSUME NothingForgotten, NothingForgotten',
           UNCHANGED Authorities, UNCHANGED pending, ~Open, Open'
    PROVE  ContractStep
  <1>1. Contract!Unlock
    BY EndingKept DEF Contract!Unlock, Authorities, Open
  <1> QED BY <1>1 DEF ContractStep, Contract!Next

LEMMA LockStep ==
    ASSUME NothingForgotten, NothingForgotten',
           Ends(DOMAIN grants), UNCHANGED pending, ~Open'
    PROVE  ContractStep
  <1>1. Contract!End(DOMAIN grants)
    BY EndsIsEnd DEF Active
  <1>2. CASE Open
    <2>1. Contract!Lock
      BY <1>1, <1>2 DEF Contract!Lock, Open
    <2> QED BY <2>1 DEF ContractStep, Contract!Next
  <1>3. CASE ~Open
    <2>1. Open' = Open
      BY <1>3 DEF Open
    <2> QED BY <2>1, RevokeStep DEF Active
  <1> QED BY <1>2, <1>3

LEMMA NoteStep ==
    ASSUME NothingForgotten, NothingForgotten',
           NEW S \in SUBSET Temporary, Ends(S), UNCHANGED Open
    PROVE  ContractStep
  <1>1. Contract!End(S)
    BY EndsIsEnd DEF Active
  <1>2. Contract!Note
    BY <1>1 DEF Contract!Note
  <1> QED BY <1>2 DEF ContractStep, Contract!Next

LEMMA LapseStep ==
    ASSUME NothingForgotten, NothingForgotten',
           NEW S \in SUBSET DOMAIN leases,
           leases' = Restrict(leases, DOMAIN leases \ S),
           UNCHANGED <<Decided, grants, Temporary, Open, pending>>
    PROVE  ContractStep
  <1>1. Heard' = Heard \ S
    BY DEF Heard, Restrict
  <1>2. KnownLeases' = Contract!Without(KnownLeases, S \cap Heard)
    <2>1. \A x \in Heard' : leases'[x] = leases[x]
      BY <1>1 DEF Heard, Restrict
    <2>2. KnownLeases' = [x \in Heard \ S |-> leases[x].window]
      BY <1>1, <2>1 DEF KnownLeases
    <2>3. Heard \ S = DOMAIN KnownLeases \ (S \cap Heard)
      BY KnownIs
    <2>4. \A x \in Heard \ S : KnownLeases[x] = leases[x].window
      BY DEF KnownLeases
    <2>5. Contract!Without(KnownLeases, S \cap Heard) = [x \in Heard \ S |-> leases[x].window]
      BY <2>3, <2>4 DEF Contract!Without, Contract!Restrict
    <2> QED BY <2>2, <2>5
  <1>3. Active' = Active
    BY DEF Active
  <1>4. Ending' = Ending \ (S \cap Heard)
    BY <1>1, <1>3 DEF NothingForgotten
  <1>5. Contract!Lapse
    BY <1>2, <1>4, KnownIs DEF Contract!Lapse
  <1> QED BY <1>5 DEF ContractStep, Contract!Next
-----------------------------------------------------------------------------
(* How the steps of a goroutine change the sets of the contract.            *)

LEMMA GivingNothing ==
    ASSUME NEW f, f = [x \in DOMAIN f |-> f[x]], NEW S, S \cap DOMAIN f = {}
    PROVE  Contract!Without(f, S) = f
  <1>1. DOMAIN f \ S = DOMAIN f
    OBVIOUS
  <1> QED BY <1>1 DEF Contract!Without, Contract!Restrict

LEMMA GrantsMap == TypeOK => grants = [x \in DOMAIN grants |-> grants[x]]
  BY DEF TypeOK, GrantsOK

LEMMA DecidedMap == Decided = [x \in DOMAIN Decided |-> Decided[x]]
  BY DEF Decided

(* The decisions U are over, and the others go on.                          *)
Deserted(U) ==
    /\ Deciders' = Deciders \ U
    /\ \A u \in Deciders \ U : tok'[u] = tok[u] /\ job'[u] = job[u]

LEMMA DecidedLoses ==
    ASSUME DecidedFacts, DecidedFacts', NEW U, Deserted(U)
    PROVE  Decided' = Contract!Without(Decided, {tok[u] : u \in Deciders \cap U})
  <1> DEFINE S == {tok[u] : u \in Deciders \cap U}
             D == DOMAIN Decided \ S
  <1>1. DOMAIN Decided' = D
    BY DEF DecidedFacts, Deserted
  <1>2. ASSUME NEW x \in D PROVE Decided'[x] = Decided[x]
    <2>1. PICK u \in Deciders : x = tok[u]
      BY DEF DecidedFacts
    <2>2. u \in Deciders \ U
      BY <2>1
    <2>3. u \in Deciders' /\ tok'[u] = x /\ job'[u] = job[u]
      BY <2>1, <2>2 DEF Deserted
    <2>4. Decided'[x] = NewGrant(u)' /\ Decided[x] = NewGrant(u)
      BY <2>1, <2>3 DEF DecidedFacts
    <2> QED BY <2>3, <2>4 DEF NewGrant
  <1>3. Decided' = [x \in D |-> Decided'[x]]
    <2>1. Decided' = [x \in DOMAIN Decided' |-> Decided'[x]]
      BY DEF Decided
    <2> QED BY <2>1, <1>1
  <1>4. Decided' = [x \in D |-> Decided[x]]
    BY <1>2, <1>3
  <1> QED BY <1>4 DEF Contract!Without, Contract!Restrict

LEMMA DecidedKept ==
    ASSUME DecidedFacts, DecidedFacts', Deserted({})
    PROVE  Decided' = Decided
  <1>1. Decided' = Contract!Without(Decided, {tok[u] : u \in Deciders \cap {}})
    BY DecidedLoses
  <1>2. {tok[u] : u \in Deciders \cap {}} = {}
    OBVIOUS
  <1> QED BY <1>1, <1>2, DecidedMap, GivingNothing

(* Supervisor u begins a decision.                                          *)
LEMMA DecidedGains ==
    ASSUME DecidedFacts, DecidedFacts', NEW u \in Deciders', u \notin Deciders,
           Deciders' = Deciders \cup {u},
           \A v \in Deciders : tok'[v] = tok[v] /\ job'[v] = job[v]
    PROVE  Decided' = Contract!With(Decided, tok'[u], NewGrant(u)')
  <1> DEFINE D == DOMAIN Decided \cup {tok'[u]}
  <1>1. DOMAIN Decided' = D
    BY DEF DecidedFacts
  <1>2. Decided'[tok'[u]] = NewGrant(u)'
    BY DEF DecidedFacts
  <1>3. ASSUME NEW x \in DOMAIN Decided PROVE Decided'[x] = Decided[x]
    <2>1. PICK v \in Deciders : x = tok[v]
      BY DEF DecidedFacts
    <2>2. v \in Deciders' /\ tok'[v] = x /\ job'[v] = job[v]
      BY <2>1
    <2>3. Decided'[x] = NewGrant(v)' /\ Decided[x] = NewGrant(v)
      BY <2>1, <2>2 DEF DecidedFacts
    <2> QED BY <2>2, <2>3 DEF NewGrant
  <1>4. Decided' = [x \in D |-> Decided'[x]]
    <2>1. Decided' = [x \in DOMAIN Decided' |-> Decided'[x]]
      BY DEF Decided
    <2> QED BY <2>1, <1>1
  <1>5. Decided' = [x \in D |-> IF x = tok'[u] THEN NewGrant(u)' ELSE Decided[x]]
    BY <1>2, <1>3, <1>4
  <1> QED BY <1>5 DEF Contract!With

LEMMA DecidersKept ==
    ASSUME TypeOK, NEW t \in Threads \ UIs, Acts(t)
    PROVE  Deserted({})
  BY OthersKeep, Kinds DEF Deserted, Deciders

LEMMA BorrowersKept ==
    ASSUME TypeOK, NEW t \in Threads \ Calls, Acts(t)
    PROVE  Temporary' = Temporary
  <1>1. Borrowers' = Borrowers /\ \A k \in Borrowers : tok'[k] = tok[k]
    BY OthersKeep, Kinds DEF Borrowers
  <1> QED BY <1>1 DEF Temporary

(* Grants go, with no decision or call concerned.                           *)
LEMMA GrantsGo ==
    ASSUME TypeOK, TokensApart, DecidedFacts, NEW S \in SUBSET DOMAIN grants,
           grants' = Drop(grants, S),
           UNCHANGED <<Decided, Temporary, leases>>
    PROVE  Ends(S)
  <1>1. Contract!Without(Decided, S) = Decided
    <2>1. S \cap DOMAIN Decided = {}
      BY DEF DecidedFacts
    <2> QED BY <2>1, DecidedMap, GivingNothing
  <1>2. Temporary \ S = Temporary
    BY TemporaryApart DEF Temporary
  <1>3. Contract!Without(grants, S) = Drop(grants, S)
    BY DEF Contract!Without, Contract!Restrict, Drop, Restrict
  <1>4. UNCHANGED KnownLeases
    BY DEF KnownLeases, Heard
  <1> QED BY <1>1, <1>2, <1>3, <1>4 DEF Ends
-----------------------------------------------------------------------------
(* The commands of a supervisor. *)

(* A command that starts no decision.                                       *)
OtherCommand(u) ==
    \/ UIOpen(u) \/ UIClose(u)
    \/ Pause(u) \/ Resume(u) \/ RevokeAll(u) \/ CancelShare(u)
    \/ \E m \in {"approve", "yolo"} : SetMode(u, m)
    \/ \E t \in Tokens : RevokeGrant(u, t)
    \/ \E r \in RequestIds : Deny(u, r)
    \/ \E c \in Clients \cup {None}, cap \in {"observe", "control"} : BeginShare(u, c, cap)

LEMMA OtherCommandKeeps ==
    ASSUME LeaseInv, LeaseInv', NEW u \in UIs, OtherCommand(u)
    PROVE  UNCHANGED <<Decided, Temporary, leases, pending>>
  <1>t. TypeOK /\ Locals /\ Acts(u)
    BY LocalsType DEF LeaseInv, OtherCommand, Acts, UICommand
  <1>1. UNCHANGED <<leases, pending>>
    BY DEF OtherCommand, UIOpen, UIClose, Pause, Resume, RevokeAll, CancelShare,
           SetMode, RevokeGrant, Deny, BeginShare
  <1>2. pc[u] \notin Deciding
    BY DEF OtherCommand, UIOpen, UIClose, Pause, Resume, RevokeAll, CancelShare,
           SetMode, RevokeGrant, Deny, BeginShare, Command, Deciding
  <1>3. pc'[u] \notin Deciding
    BY <1>2, <1>t, Kinds
    DEF OtherCommand, UIOpen, UIClose, Pause, Resume, RevokeAll, CancelShare,
        SetMode, RevokeGrant, Deny, BeginShare, GoCleanUp, Deciding, Locals
  <1>4. Deserted({})
    BY <1>2, <1>3, <1>t, OthersKeep, Kinds DEF Deserted, Deciders
  <1>5. Decided' = Decided
    BY <1>4, InvSettled, InvSettledNext, DecidedKept DEF Settled
  <1>6. Temporary' = Temporary
    BY <1>t, BorrowersKept, Kinds
  <1> QED BY <1>1, <1>5, <1>6

LEMMA OtherCommandStep ==
    ASSUME LeaseInv, LeaseInv', NEW u \in UIs, OtherCommand(u)
    PROVE  ContractStep
  <1>i. TypeOK /\ TokensApart /\ DecidedFacts /\ NothingForgotten /\ NothingForgotten'
    BY InvSettled, InvSettledNext DEF LeaseInv, Settled
  <1>k. UNCHANGED <<Decided, Temporary, leases, pending>>
    BY OtherCommandKeeps
  <1>s. ASSUME UNCHANGED <<grants, Open>> PROVE ContractStep
    <2>1. UNCHANGED Authorities
      BY <1>k, <1>s DEF Authorities, KnownLeases, Heard
    <2> QED BY <1>i, <1>k, <1>s, <2>1, StutterStep
  <1>c. ASSUME ClearLocked PROVE Ends(DOMAIN grants)
    BY <1>c, <1>i, <1>k, GrantsGo DEF ClearLocked, DropGrants
  <1>1. ASSUME UIOpen(u) PROVE ContractStep
    <2>1. UNCHANGED grants /\ UNCHANGED paused /\ uis' # {}
      BY <1>1 DEF UIOpen
    <2>2. UNCHANGED Authorities
      BY <1>k, <2>1 DEF Authorities, KnownLeases, Heard
    <2>3. CASE Open
      <3>1. UNCHANGED Open
        BY <2>1, <2>3 DEF Open
      <3> QED BY <1>s, <2>1, <3>1
    <2>4. CASE ~Open /\ paused
      <3>1. UNCHANGED Open
        BY <2>1, <2>4 DEF Open
      <3> QED BY <1>s, <2>1, <3>1
    <2>5. CASE ~Open /\ ~paused
      <3>1. Open'
        BY <2>1, <2>5 DEF Open
      <3> QED BY <1>i, <1>k, <2>2, <2>5, <3>1, UnlockStep
    <2> QED BY <2>3, <2>4, <2>5
  <1>2. ASSUME UIClose(u) PROVE ContractStep
    <2>1. CASE uis' = {} /\ ClearLocked
      <3>1. ~Open'
        BY <2>1 DEF Open
      <3> QED BY <1>i, <1>k, <1>c, <2>1, <3>1, LockStep
    <2>2. CASE uis' # {} /\ UNCHANGED <<paused, grants>>
      <3>1. UNCHANGED Open
        BY <1>2, <2>2 DEF Open, UIClose
      <3> QED BY <1>s, <2>2, <3>1
    <2> QED BY <1>2, <2>1, <2>2 DEF UIClose
  <1>3. ASSUME Pause(u) PROVE ContractStep
    <2>1. ~Open' /\ ClearLocked
      BY <1>3 DEF Pause, Open
    <2> QED BY <1>i, <1>k, <1>c, <2>1, LockStep
  <1>4. ASSUME Resume(u) PROVE ContractStep
    <2>1. UNCHANGED <<grants, uis>> /\ paused' = FALSE
      BY <1>4 DEF Resume
    <2>2. UNCHANGED Authorities
      BY <1>k, <2>1 DEF Authorities, KnownLeases, Heard
    <2>3. CASE Open \/ uis = {}
      <3>1. UNCHANGED Open
        BY <2>1, <2>3 DEF Open
      <3> QED BY <1>s, <2>1, <3>1
    <2>4. CASE ~Open /\ uis # {}
      <3>1. Open'
        BY <2>1, <2>4 DEF Open
      <3> QED BY <1>i, <1>k, <2>2, <2>4, <3>1, UnlockStep
    <2> QED BY <2>3, <2>4
  <1>5. ASSUME RevokeAll(u) \/ \E m \in {"approve", "yolo"} : SetMode(u, m)
        PROVE  ContractStep
    <2>1. ClearLocked /\ UNCHANGED <<paused, uis>>
      BY <1>5 DEF RevokeAll, SetMode
    <2>2. UNCHANGED Open
      BY <2>1 DEF Open
    <2>3. DOMAIN grants \in SUBSET Active
      BY DEF Active
    <2> QED BY <1>i, <1>k, <1>c, <2>1, <2>2, <2>3, RevokeStep
  <1>6. ASSUME NEW t \in Tokens, RevokeGrant(u, t) PROVE ContractStep
    <2>1. /\ grants' = Drop(grants, {t}) /\ UNCHANGED <<paused, uis>>
          /\ {t} \in SUBSET DOMAIN grants
      BY <1>6 DEF RevokeGrant, DropGrants
    <2>2. Ends({t})
      BY <1>i, <1>k, <2>1, GrantsGo
    <2>3. UNCHANGED Open /\ {t} \in SUBSET Active
      BY <2>1 DEF Open, Active
    <2> QED BY <1>i, <1>k, <2>2, <2>3, RevokeStep
  <1>7. ASSUME \/ CancelShare(u)
               \/ \E r \in RequestIds : Deny(u, r)
               \/ \E c \in Clients \cup {None}, cap \in {"observe", "control"} :
                     BeginShare(u, c, cap)
        PROVE  ContractStep
    <2>1. UNCHANGED <<grants, paused, uis>>
      BY <1>7 DEF CancelShare, Deny, BeginShare
    <2>2. UNCHANGED Open
      BY <2>1 DEF Open
    <2> QED BY <1>s, <2>1, <2>2
  <1> QED BY <1>1, <1>2, <1>3, <1>4, <1>5, <1>6, <1>7 DEF OtherCommand

LEMMA SameGrants == Contract!Grants = Grants
  BY DEF Contract!Grants, Grants, Contract!Capabilities, Capabilities, Contract!Scopes,
         Scopes, Contract!ValidScope, ValidScope

(* Approving a request, or a choice in the share picker, draws a token.     *)
LEMMA DecideStep ==
    ASSUME LeaseInv, LeaseInv', NEW u \in UIs,
           \/ \E r \in RequestIds : Approve(u, r)
           \/ \E c \in Clients, w \in Windows : SelectShare(u, c, w)
    PROVE  ContractStep
  <1>i. TypeOK /\ TokensApart /\ Settled /\ Settled' /\ TypeOK'
    BY InvSettled, InvSettledNext DEF LeaseInv
  <1>t. Locals /\ Acts(u)
    BY <1>i, LocalsType DEF Acts, UICommand
  <1>1. /\ pc[u] = "ready" /\ pc'[u] = "queued" /\ Accepting
        /\ UNCHANGED <<paused, uis, pending, grants, leases>>
        /\ FreshToken(tok'[u]) /\ tok'[u] \in Tokens
    BY <1>t, Kinds DEF Approve, SelectShare, Decide, Command, Locals
  <1> DEFINE x == tok'[u]
             g == NewGrant(u)'
  <1>2. /\ u \in Deciders' /\ u \notin Deciders /\ Deciders' = Deciders \cup {u}
        /\ \A v \in Deciders : tok'[v] = tok[v] /\ job'[v] = job[v]
    BY <1>1, <1>i, <1>t, OthersKeep, Kinds DEF Deciders, Deciding
  <1>3. Decided' = Contract!With(Decided, x, g)
    BY <1>2, <1>i, DecidedGains DEF Settled
  <1>4. Temporary' = Temporary
    BY <1>i, <1>t, BorrowersKept, Kinds
  <1>5. UNCHANGED KnownLeases /\ Heard' = Heard
    BY <1>1 DEF KnownLeases, Heard
  <1>6. x \notin Heard /\ x \notin Active
    BY <1>1, <1>i, Kinds
    DEF FreshToken, Heard, Active, Settled, DecidedFacts, Temporary, Deciders, Borrowers
  <1>7. g \in Grants
    <2>1. job'[u] \in Jobs
      BY <1>i, <1>1 DEF TypeOK, LocalsOK, Deciding
    <2> QED BY <2>1 DEF NewGrant, Jobs, Grants
  <1>8. Ending' = Ending
    <2>1. Active' = Active \cup {x}
      BY <1>3, <1>4, <1>1 DEF Active, Contract!With
    <2> QED BY <2>1, <1>5, <1>6, <1>i DEF Settled, NothingForgotten
  <1>9. Open /\ UNCHANGED Open /\ pending = {}
    BY <1>1 DEF Open, Accepting
  <1>10. x \in Contract!Unused
    BY <1>1, <1>6, <1>i
    DEF Contract!Unused, Contract!InForce, Active, Settled, NothingForgotten
  <1>11. Contract!Decide(x, g)
    BY <1>1, <1>3, <1>4, <1>5, <1>8, <1>9, <1>10 DEF Contract!Decide
  <1>12. \E y \in Tokens : \E h \in Contract!Grants : Contract!Decide(y, h)
    BY <1>1, <1>7, <1>11, SameGrants
  <1> QED BY <1>12 DEF ContractStep, Contract!Next
-----------------------------------------------------------------------------
(* The steps of a decision. *)

(* A decision ends, and its token with it.                                  *)
LEMMA DecisionEnds ==
    ASSUME LeaseInv, LeaseInv', NEW u \in UIs, Decision(u),
           u \in Deciders, u \notin Deciders',
           UNCHANGED <<grants, paused, uis, pending, KnownLeases>>
    PROVE  ContractStep
  <1>i. TypeOK /\ TokensApart /\ Settled /\ Settled'
    BY InvSettled, InvSettledNext DEF LeaseInv
  <1>t. Acts(u)
    BY DEF Acts
  <1> DEFINE S == {tok[u]}
  <1>1. Decided' = Contract!Without(Decided, S)
    <2>1. Deserted({u})
      BY <1>i, <1>t, OthersKeep, Kinds DEF Deserted, Deciders
    <2>2. {tok[v] : v \in Deciders \cap {u}} = S
      OBVIOUS
    <2> QED BY <2>1, <2>2, <1>i, DecidedLoses DEF Settled
  <1>2. Contract!Without(grants, S) = grants
    <2>1. S \cap DOMAIN grants = {}
      BY <1>i DEF Settled, DecidedFacts
    <2> QED BY <2>1, <1>i, GrantsMap, GivingNothing
  <1>3. Temporary' = Temporary \ S
    <2>1. Temporary' = Temporary
      BY <1>i, <1>t, BorrowersKept, Kinds
    <2> QED BY <2>1, <1>i DEF Settled, DecidedFacts
  <1>4. Ends(S)
    BY <1>1, <1>2, <1>3 DEF Ends
  <1>5. S \in SUBSET Active
    BY <1>i DEF Settled, DecidedFacts, Active
  <1>6. UNCHANGED Open
    BY DEF Open
  <1> QED BY <1>i, <1>4, <1>5, <1>6, RevokeStep DEF Settled

LEMMA UnheardLease ==
    ASSUME NEW x, x \notin DOMAIN leases, NEW w, GuardAuthorize(x, w, FALSE)
    PROVE  UNCHANGED KnownLeases
  <1>1. Heard' = Heard /\ \A y \in Heard : leases'[y] = leases[y]
    BY DEF GuardAuthorize, Heard
  <1> QED BY <1>1 DEF KnownLeases

LEMMA HeardLease ==
    ASSUME NEW x, x \notin DOMAIN leases, NEW w, GuardAuthorize(x, w, TRUE)
    PROVE  /\ KnownLeases' = Contract!With(KnownLeases, x, w)
           /\ Heard' = Heard \cup {x}
  <1>1. /\ Heard' = Heard \cup {x} /\ leases'[x].window = w
        /\ \A y \in Heard : leases'[y] = leases[y]
    BY DEF GuardAuthorize, Heard
  <1>2. x \notin Heard
    BY DEF Heard
  <1>3. KnownLeases' = [y \in Heard \cup {x} |-> IF y = x THEN w ELSE leases[y].window]
    BY <1>1, <1>2 DEF KnownLeases
  <1>4. Contract!With(KnownLeases, x, w)
           = [y \in Heard \cup {x} |-> IF y = x THEN w ELSE leases[y].window]
    <2>1. \A y \in Heard : KnownLeases[y] = leases[y].window
      BY DEF KnownLeases
    <2> QED BY <2>1, KnownIs DEF Contract!With
  <1> QED BY <1>1, <1>3, <1>4

LEMMA LookupStep ==
    ASSUME LeaseInv, LeaseInv', NEW u \in UIs, Lookup(u)
    PROVE  ContractStep
  <1>i. TypeOK /\ Settled /\ Settled'
    BY InvSettled, InvSettledNext DEF LeaseInv
  <1>t. Locals /\ Acts(u)
    BY <1>i, LocalsType DEF Acts, Decision
  <1>1. /\ pc[u] \in Deciding /\ pc'[u] \in Deciding
        /\ UNCHANGED <<grants, paused, uis, pending, leases, tok, job>>
    BY <1>t, Kinds DEF Lookup, Deciding, Locals
  <1>2. Deserted({})
    BY <1>1, <1>i, <1>t, OthersKeep, Kinds DEF Deserted, Deciders
  <1>3. UNCHANGED Authorities
    BY <1>1, <1>2, <1>i, <1>t, DecidedKept, BorrowersKept, Kinds
    DEF Authorities, KnownLeases, Heard, Settled
  <1>4. UNCHANGED Open
    BY <1>1 DEF Open
  <1> QED BY <1>1, <1>3, <1>4, <1>i, StutterStep DEF Settled

LEMMA AuthorizeStep ==
    ASSUME LeaseInv, LeaseInv', NEW u \in UIs, Authorize(u)
    PROVE  ContractStep
  <1>i. TypeOK /\ Settled /\ Settled'
    BY InvSettled, InvSettledNext DEF LeaseInv
  <1>t. Locals /\ Acts(u)
    BY <1>i, LocalsType DEF Acts, Decision
  <1> DEFINE x == tok[u]
  <1>1. /\ pc[u] = "authorize" /\ pc'[u] = "publish"
        /\ GuardAuthorize(x, job[u].scope.id, TRUE)
        /\ UNCHANGED <<grants, paused, uis, pending, tok, job>>
    BY <1>t, Kinds DEF Authorize, Locals
  <1>2. u \in Deciders /\ Deserted({})
    BY <1>1, <1>i, <1>t, OthersKeep, Kinds DEF Deserted, Deciders, Deciding
  <1>3. Decided' = Decided /\ Temporary' = Temporary
    BY <1>2, <1>i, <1>t, DecidedKept, BorrowersKept, Kinds DEF Settled
  <1>4. x \notin DOMAIN leases
    BY <1>1, <1>2 DEF LeaseInv, WindowsAgree
  <1>5. /\ KnownLeases' = Contract!With(KnownLeases, x, job[u].scope.id)
        /\ Heard' = Heard \cup {x}
    BY <1>1, <1>4, HeardLease
  <1>6. /\ x \in DOMAIN Decided /\ x \in Tokens
        /\ Decided[x].cap = "control" /\ Decided[x].scope.id = job[u].scope.id
    <2>1. /\ x \in DOMAIN Decided /\ x \in Tokens /\ Decided[x] = NewGrant(u)
      BY <1>2, <1>i DEF Settled, DecidedFacts
    <2>2. job[u].cap = "control"
      BY <1>1, <1>i DEF TypeOK, LocalsOK
    <2> QED BY <2>1, <2>2 DEF NewGrant
  <1>7. Ending' = Ending
    <2>1. Active' = Active /\ x \in Active
      BY <1>1, <1>3, <1>6 DEF Active
    <2> QED BY <2>1, <1>5, <1>i DEF Settled, NothingForgotten
  <1>8. x \notin DOMAIN KnownLeases
    BY <1>4, KnownIs DEF Heard
  <1>9. UNCHANGED Open
    BY <1>1 DEF Open
  <1>10. Contract!Authorize(x)
    BY <1>1, <1>3, <1>5, <1>6, <1>7, <1>8, <1>9 DEF Contract!Authorize
  <1>11. \E y \in Tokens : Contract!Authorize(y)
    BY <1>6, <1>10
  <1> QED BY <1>11 DEF ContractStep, Contract!Next

LEMMA PublishStep ==
    ASSUME LeaseInv, LeaseInv', NEW u \in UIs, Publish(u)
    PROVE  ContractStep
  <1>i. TypeOK /\ Settled /\ Settled'
    BY InvSettled, InvSettledNext DEF LeaseInv
  <1>t. Locals /\ Acts(u)
    BY <1>i, LocalsType DEF Acts, Decision
  <1> DEFINE x == tok[u]
  <1>1. /\ pc[u] = "publish" /\ pc'[u] = "ready" /\ Accepting
        /\ grants' = Put(grants, x, NewGrant(u))
        /\ UNCHANGED <<paused, uis, pending, leases>>
    BY <1>t, Kinds DEF Publish, StillCurrent, Locals
  <1>2. u \in Deciders /\ Deserted({u})
    BY <1>1, <1>i, <1>t, OthersKeep, Kinds DEF Deserted, Deciders, Deciding
  <1>3. Decided' = Contract!Without(Decided, {x})
    <2>1. {tok[v] : v \in Deciders \cap {u}} = {x}
      BY <1>2
    <2> QED BY <2>1, <1>2, <1>i, DecidedLoses DEF Settled
  <1>4. x \in DOMAIN Decided /\ x \in Tokens /\ Decided[x] = NewGrant(u)
    BY <1>2, <1>i DEF Settled, DecidedFacts
  <1>5. grants' = Contract!With(grants, x, Decided[x])
    BY <1>1, <1>4 DEF Put, Contract!With
  <1>6. Temporary' = Temporary /\ UNCHANGED KnownLeases /\ Heard' = Heard
    BY <1>1, <1>i, <1>t, BorrowersKept, Kinds DEF KnownLeases, Heard
  <1>7. Ending' = Ending
    <2>1. DOMAIN Decided' = DOMAIN Decided \ {x} /\ DOMAIN grants' = DOMAIN grants \cup {x}
      BY <1>3, <1>5, WithoutIs DEF Contract!With
    <2>2. Active' = Active
      BY <2>1, <1>4, <1>6 DEF Active
    <2> QED BY <2>2, <1>6, <1>i DEF Settled, NothingForgotten
  <1>8. Open /\ UNCHANGED Open /\ pending = {}
    BY <1>1 DEF Open, Accepting
  <1>9. Contract!Grant(x)
    BY <1>1, <1>3, <1>4, <1>5, <1>6, <1>7, <1>8 DEF Contract!Grant
  <1>10. \E y \in Tokens : Contract!Grant(y)
    BY <1>4, <1>9
  <1> QED BY <1>10 DEF ContractStep, Contract!Next

LEMMA DecisionStep ==
    ASSUME LeaseInv, LeaseInv', NEW u \in UIs, Decision(u)
    PROVE  ContractStep
  <1>t. TypeOK /\ Locals
    BY LocalsType DEF LeaseInv
  <1>1. CASE LookupFails(u) \/ Withdraw(u)
    <2>1. /\ pc[u] \in Deciding /\ pc'[u] \in {"ready", "cleanup"}
          /\ UNCHANGED <<grants, paused, uis, pending, leases>>
      BY <1>1, <1>t, Kinds DEF LookupFails, Withdraw, GiveUp, Deciding, Locals
    <2>2. UNCHANGED KnownLeases
      BY <2>1 DEF KnownLeases, Heard
    <2>3. u \in Deciders /\ u \notin Deciders'
      BY <2>1 DEF Deciders, Deciding
    <2> QED BY <2>1, <2>2, <2>3, DecisionEnds
  <1>2. CASE AuthorizeFails(u)
    <2>1. /\ pc[u] = "authorize" /\ pc'[u] = "ready"
          /\ UNCHANGED <<grants, paused, uis, pending>>
          /\ GuardAuthorize(tok[u], job[u].scope.id, FALSE) \/ UNCHANGED leases
      BY <1>2, <1>t, Kinds DEF AuthorizeFails, GiveUp, Locals
    <2>2. u \in Deciders /\ u \notin Deciders'
      BY <2>1 DEF Deciders, Deciding
    <2>3. tok[u] \notin DOMAIN leases
      BY <2>1, <2>2 DEF LeaseInv, WindowsAgree
    <2>4. UNCHANGED KnownLeases
      <3>1. CASE UNCHANGED leases
        BY <3>1 DEF KnownLeases, Heard
      <3> QED BY <2>1, <2>3, <3>1, UnheardLease
    <2> QED BY <2>1, <2>2, <2>4, DecisionEnds
  <1> QED BY <1>1, <1>2, LookupStep, AuthorizeStep, PublishStep DEF Decision
-----------------------------------------------------------------------------
(* The exchanges of cleanupGuard. *)

(* A step in which no decision begins, ends or changes.                     *)
LEMMA NoDecision ==
    ASSUME LeaseInv, LeaseInv', NEW t \in Threads, Acts(t),
           t \in UIs => /\ pc[t] \notin Deciding
                        /\ pc'[t] \notin Deciding
    PROVE  Decided' = Decided
  <1>1. TypeOK
    BY DEF LeaseInv
  <1>2. Deserted({})
    BY <1>1, OthersKeep, Kinds DEF Deserted, Deciders
  <1> QED BY <1>2, InvSettled, InvSettledNext, DecidedKept DEF Settled

LEMMA CleanUpDecides ==
    ASSUME LeaseInv, LeaseInv', NEW t \in Threads, CleanUp(t)
    PROVE  Decided' = Decided
  <1>t. TypeOK /\ Locals /\ Acts(t)
    BY LocalsType DEF LeaseInv, Acts
  <1>1. ASSUME t \in UIs
        PROVE  pc[t] \notin Deciding /\ pc'[t] \notin Deciding
    <2>1. pc[t] \in {"lock", "cleanup"}
      BY <1>t DEF CleanUp, TakeBackend, CleanupAnswered, CleanupUnanswered, Exchange,
                  NoteAndContinue, NoteAndReturn, LeaseInv, BackendHeld
    <2>2. pc'[t] \in {"lock", "cleanup", "ready", "closed"}
      <3>1. CASE NoteAndReturn(t)
        BY <3>1, <1>1, <1>t, Kinds DEF NoteAndReturn, Rest, Locals
      <3>2. CASE ~NoteAndReturn(t)
        BY <3>2, <2>1, <1>t
        DEF CleanUp, TakeBackend, CleanupAnswered, CleanupUnanswered, Exchange,
            NoteAndContinue, Locals
      <3> QED BY <3>1, <3>2
    <2> QED BY <2>1, <2>2 DEF Deciding
  <1> QED BY <1>1, <1>t, NoDecision

(* No call's token is given up before its lease has been.                   *)
LEMMA CleanUpBorrows ==
    ASSUME LeaseInv, NEW t \in Threads, CleanUp(t), ~NoteAndReturn(t)
    PROVE  Temporary' = Temporary
  <1>t. TypeOK /\ Locals /\ Acts(t)
    BY LocalsType DEF LeaseInv, Acts
  <1>1. /\ tok' = tok /\ call' = call
        /\ pc[t] # "idle" /\ pc'[t] # "idle"
    BY <1>t
    DEF CleanUp, TakeBackend, CleanupAnswered, CleanupUnanswered, Exchange,
        NoteAndContinue, Locals, LeaseInv, BackendHeld
  <1>2. Borrowers' = Borrowers
    BY <1>1, <1>t, OthersKeep, Kinds DEF Borrowers
  <1> QED BY <1>1, <1>2 DEF Temporary

LEMMA ExecutedLapses ==
    ASSUME NEW c \in Cleanups, GuardExecutes(c)
    PROVE  \E S \in SUBSET DOMAIN leases : leases' = Restrict(leases, DOMAIN leases \ S)
  <1>1. CASE c = Clear
    <2>1. leases' = Restrict(leases, {})
      BY <1>1 DEF GuardExecutes, GuardClear
    <2>2. DOMAIN leases \ DOMAIN leases = {}
      OBVIOUS
    <2> QED BY <2>1, <2>2
  <1>2. CASE c # Clear
    <2>1. leases' = Restrict(leases, DOMAIN leases \ {c})
      BY <1>2 DEF GuardExecutes, GuardRevoke
    <2>2. DOMAIN leases \ {c} = DOMAIN leases \ ({c} \cap DOMAIN leases)
      OBVIOUS
    <2> QED BY <2>1, <2>2
  <1> QED BY <1>1, <1>2

(* A call that noted its exchange is over, and its token with it.           *)
LEMMA ReturnStep ==
    ASSUME LeaseInv, LeaseInv', NEW t \in Threads, NoteAndReturn(t)
    PROVE  ContractStep
  <1>i. TypeOK /\ TokensApart /\ Settled /\ Settled'
    BY InvSettled, InvSettledNext DEF LeaseInv
  <1>t. Locals /\ Acts(t)
    BY <1>i, LocalsType DEF Acts, CleanUp
  <1>1. Decided' = Decided
    BY CleanUpDecides DEF CleanUp
  <1>2. UNCHANGED <<grants, leases, paused, uis>>
    BY DEF NoteAndReturn
  <1>3. UNCHANGED KnownLeases /\ UNCHANGED Open
    BY <1>2 DEF KnownLeases, Heard, Open
  <1>4. CASE t \notin Calls
    <2>1. Temporary' = Temporary
      BY <1>4, <1>i, <1>t, BorrowersKept
    <2>2. Ends({})
      BY <2>1, <1>1, <1>2, <1>3, <1>i, GrantsMap, DecidedMap, GivingNothing DEF Ends
    <2> QED BY <2>2, <1>3, <1>i, NoteStep DEF Settled
  <1>5. CASE t \in Calls
    <2> DEFINE S == Temporary \cap {tok[t]}
    <2>1. t \in Borrowers /\ t \notin Borrowers'
      <3>1. pc[t] = "cleanup"
        BY DEF NoteAndReturn, LeaseInv, BackendHeld
      <3>2. pc'[t] = "idle"
        BY <1>5, <1>t, RestIdle DEF NoteAndReturn, Locals
      <3> QED BY <1>5, <3>1, <3>2 DEF Borrowers, LeaseInv, CallsOrderly
    <2>2. Borrowers' = Borrowers \ {t} /\ \A k \in Borrowers \ {t} : tok'[k] = tok[k]
      BY <2>1, <1>i, <1>t, OthersKeep, Kinds DEF Borrowers
    <2>3. Temporary' = Temporary \ S
      <3>1. \A k \in Borrowers \ {t} : tok[k] # None => tok[k] # tok[t]
        BY <2>1, <1>i, TemporaryApart
      <3> QED BY <2>1, <2>2, <3>1 DEF Temporary
    <2>4. S \cap DOMAIN Decided = {} /\ S \cap DOMAIN grants = {}
      <3>1. S \cap DOMAIN grants = {}
        BY <2>1, <1>i, TemporaryApart DEF Temporary
      <3> QED BY <3>1, <1>i DEF Settled, DecidedFacts
    <2>5. Ends(S)
      <3> HIDE DEF S
      <3> QED BY <2>3, <2>4, <1>1, <1>2, <1>3, <1>i, GrantsMap, DecidedMap, GivingNothing
              DEF Ends
    <2>6. S \in SUBSET Temporary
      OBVIOUS
    <2> HIDE DEF S
    <2> QED BY <2>5, <2>6, <1>3, <1>i, NoteStep DEF Settled
  <1> QED BY <1>4, <1>5

LEMMA CleanUpStep ==
    ASSUME LeaseInv, LeaseInv', NEW t \in Threads, CleanUp(t)
    PROVE  ContractStep
  <1>i. TypeOK /\ TokensApart /\ Settled /\ Settled'
    BY InvSettled, InvSettledNext DEF LeaseInv
  <1>1. CASE NoteAndReturn(t)
    BY <1>1, ReturnStep
  <1>2. CASE ~NoteAndReturn(t)
    <2>1. Decided' = Decided /\ Temporary' = Temporary
      BY <1>2, CleanUpDecides, CleanUpBorrows
    <2>2. UNCHANGED <<grants, paused, uis>>
      BY <1>2 DEF CleanUp, TakeBackend, CleanupAnswered, CleanupUnanswered, Exchange,
                  NoteAndContinue
    <2>3. UNCHANGED Open
      BY <2>2 DEF Open
    <2>s. ASSUME UNCHANGED leases PROVE UNCHANGED KnownLeases
      BY <2>s DEF KnownLeases, Heard
    <2>4. CASE TakeBackend(t)
      <3>1. UNCHANGED <<leases, pending>>
        BY <2>4 DEF TakeBackend
      <3> QED BY <3>1, <2>1, <2>2, <2>3, <2>s, <1>i, StutterStep DEF Settled, Authorities
    <2>5. ASSUME NEW c \in Cleanups, CleanupAnswered(t, c) \/ CleanupUnanswered(t, c)
          PROVE  ContractStep
      <3>1. UNCHANGED pending /\ (GuardExecutes(c) \/ UNCHANGED leases)
        BY <2>5 DEF CleanupAnswered, CleanupUnanswered, Exchange
      <3>2. CASE UNCHANGED leases
        BY <3>1, <3>2, <2>1, <2>2, <2>3, <2>s, <1>i, StutterStep DEF Settled, Authorities
      <3>3. CASE GuardExecutes(c)
        <4>1. PICK S \in SUBSET DOMAIN leases :
                 leases' = Restrict(leases, DOMAIN leases \ S)
          BY <3>3, ExecutedLapses
        <4> QED BY <4>1, <3>1, <2>1, <2>2, <2>3, <1>i, LapseStep DEF Settled
      <3> QED BY <3>1, <3>2, <3>3
    <2>6. CASE NoteAndContinue(t)
      <3>1. UNCHANGED leases
        BY <2>6 DEF NoteAndContinue
      <3>2. Ends({})
        BY <3>1, <2>1, <2>2, <2>s, <1>i, GrantsMap, DecidedMap, GivingNothing DEF Ends
      <3> QED BY <3>2, <2>3, <1>i, NoteStep DEF Settled
    <2> QED BY <1>2, <2>4, <2>5, <2>6 DEF CleanUp
  <1> QED BY <1>1, <1>2
-----------------------------------------------------------------------------
(* The steps that only give up grants, or none. *)
LEMMA DroppingStep ==
    ASSUME LeaseInv, LeaseInv', NEW t \in Threads \ (UIs \cup Calls), Acts(t),
           NEW S \in SUBSET DOMAIN grants, grants' = Drop(grants, S),
           UNCHANGED <<leases, paused, uis, pending>>
    PROVE  ContractStep
  <1>i. TypeOK /\ TokensApart /\ Settled /\ Settled'
    BY InvSettled, InvSettledNext DEF LeaseInv
  <1>1. Decided' = Decided /\ Temporary' = Temporary
    BY <1>i, NoDecision, BorrowersKept
  <1>2. Ends(S)
    BY <1>1, <1>i, GrantsGo DEF Settled
  <1>3. UNCHANGED Open /\ S \in SUBSET Active
    BY DEF Open, Active
  <1> QED BY <1>2, <1>3, <1>i, RevokeStep DEF Settled

LEMMA QuietStep ==
    ASSUME LeaseInv, LeaseInv', NEW t \in Threads \ (UIs \cup Calls), Acts(t),
           UNCHANGED <<grants, leases, paused, uis, pending>>
    PROVE  ContractStep
  <1>i. TypeOK /\ Settled /\ Settled'
    BY InvSettled, InvSettledNext DEF LeaseInv
  <1>1. UNCHANGED Authorities
    BY <1>i, NoDecision, BorrowersKept DEF Authorities, KnownLeases, Heard
  <1>2. UNCHANGED Open
    BY DEF Open
  <1> QED BY <1>1, <1>2, <1>i, StutterStep DEF Settled

LEMMA MaintenanceStep ==
    ASSUME LeaseInv, LeaseInv', Maintenance
    PROVE  ContractStep
  <1>1. Maint \in Threads \ (UIs \cup Calls) /\ Acts(Maint)
    BY Kinds DEF Acts
  <1>2. ASSUME NEW aged \in SUBSET DOMAIN requests, MaintTick(aged) PROVE ContractStep
    <2>1. /\ grants' = Drop(grants, DOMAIN grants \cap expired)
          /\ UNCHANGED <<leases, paused, uis, pending>>
      BY <1>2 DEF MaintTick, DropGrants
    <2> QED BY <1>1, <2>1, DroppingStep
  <1>3. CASE Retry \/ NothingToRetry
    <2>1. UNCHANGED <<grants, leases, paused, uis, pending>>
      BY <1>3 DEF Retry, NothingToRetry
    <2> QED BY <1>1, <2>1, QuietStep
  <1> QED BY <1>2, <1>3 DEF Maintenance

LEMMA ClientStep ==
    ASSUME LeaseInv, LeaseInv', NEW c \in Clients, Client(c)
    PROVE  ContractStep
  <1>1. c \in Threads \ (UIs \cup Calls) /\ Acts(c)
    BY Kinds DEF Acts
  <1>2. CASE Disconnect(c)
    <2>1. /\ grants' = Drop(grants, {t \in DOMAIN grants : grants[t].client = c})
          /\ UNCHANGED <<leases, paused, uis, pending>>
      BY <1>2 DEF Disconnect, DropGrants
    <2> QED BY <1>1, <2>1, DroppingStep
  <1>3. CASE ~Disconnect(c)
    <2>1. UNCHANGED <<grants, leases, paused, uis, pending>>
      BY <1>3 DEF Client, Connect, Ask
    <2> QED BY <1>1, <2>1, QuietStep
  <1> QED BY <1>2, <1>3
-----------------------------------------------------------------------------
(* The steps of an input call. *)

(* Call k has drawn a temporary token.                                      *)
Holds(k) == k \in Borrowers /\ tok[k] # None

LEMMA HoldingKept ==
    ASSUME TypeOK, NEW k \in Calls, Acts(k), Holds(k)' <=> Holds(k),
           Holds(k) => tok'[k] = tok[k]
    PROVE  Temporary' = Temporary
  <1>1. ASSUME NEW h \in Calls
        PROVE  (Holds(h)' <=> Holds(h)) /\ (Holds(h) => tok'[h] = tok[h])
    BY <1>1, OthersKeep, Kinds DEF Holds, Borrowers
  <1>2. Temporary = {tok[h] : h \in {i \in Calls : Holds(i)}}
    BY DEF Temporary, Holds, Borrowers
  <1>3. Temporary' = {tok'[h] : h \in {i \in Calls : Holds(i)'}}
    BY DEF Temporary, Holds, Borrowers
  <1> QED BY <1>1, <1>2, <1>3

LEMMA BorrowStep ==
    ASSUME LeaseInv, LeaseInv', NEW k \in Calls, Borrow(k)
    PROVE  ContractStep
  <1>i. TypeOK /\ TokensApart /\ Settled /\ Settled'
    BY InvSettled, InvSettledNext DEF LeaseInv
  <1>t. Locals /\ Acts(k) /\ k \in Threads
    BY <1>i, LocalsType, Kinds DEF Acts, Input, InputStep
  <1>1. PICK x \in Tokens : /\ FreshToken(x)
                            /\ GuardAuthorize(x, call[k].window, TRUE)
                            /\ tok' = [tok EXCEPT ![k] = x]
    BY DEF Borrow
  <1> DEFINE w == call[k].window
  <1>2. /\ pc[k] = "borrow" /\ pc'[k] = "check" /\ call' = call /\ tok'[k] = x
        /\ call[k].yolo /\ tok[k] = None /\ call[k] \in InputCalls /\ x # None
        /\ UNCHANGED <<grants, paused, uis, pending>>
    BY <1>1, <1>t, <1>i, Kinds DEF Borrow, Locals, LeaseInv, CallsOrderly, TypeOK, LocalsOK
  <1>3. x \notin DOMAIN leases /\ x \notin Heard /\ x \notin Active
    BY <1>1, <1>i, Kinds
    DEF FreshToken, Heard, Active, Settled, DecidedFacts, Temporary, Deciders, Borrowers
  <1>4. KnownLeases' = Contract!With(KnownLeases, x, w) /\ Heard' = Heard \cup {x}
    BY <1>1, <1>3, HeardLease
  <1>5. Decided' = Decided
    BY <1>t, NoDecision, Kinds
  <1>6. Temporary' = Temporary \cup {x}
    <2>1. ASSUME NEW h \in Calls \ {k}
          PROVE  (h \in Borrowers' <=> h \in Borrowers) /\ tok'[h] = tok[h]
      BY <2>1, <1>i, <1>t, OthersKeep, Kinds DEF Borrowers
    <2>2. k \in Borrowers /\ k \in Borrowers'
      BY <1>2 DEF Borrowers
    <2>3. Borrowers' = Borrowers /\ Borrowers \subseteq Calls
      BY <2>1, <2>2 DEF Borrowers
    <2> QED BY <2>1, <2>2, <2>3, <1>2 DEF Temporary
  <1>7. Ending' = Ending
    <2>1. Active' = Active \cup {x}
      BY <1>2, <1>5, <1>6 DEF Active
    <2> QED BY <2>1, <1>3, <1>4, <1>i DEF Settled, NothingForgotten
  <1>8. UNCHANGED Open
    BY <1>2 DEF Open
  <1>9. x \in Contract!Unused
    BY <1>3, <1>i DEF Contract!Unused, Contract!InForce, Active, Settled, NothingForgotten
  <1>10. w \in Windows
    BY <1>2 DEF InputCalls
  <1>11. Contract!Borrow(x, w)
    BY <1>2, <1>4, <1>5, <1>6, <1>7, <1>8, <1>9 DEF Contract!Borrow
  <1>12. \E y \in Tokens : \E v \in Windows : Contract!Borrow(y, v)
    BY <1>10, <1>11
  <1> QED BY <1>12 DEF ContractStep, Contract!Next

LEMMA InputContractStep ==
    ASSUME LeaseInv, LeaseInv', NEW k \in Calls, Input(k)
    PROVE  ContractStep
  <1>i. TypeOK /\ Settled /\ Settled'
    BY InvSettled, InvSettledNext DEF LeaseInv
  <1>t. Locals /\ Acts(k) /\ k \in Threads /\ k \notin UIs
    BY <1>i, LocalsType, Kinds DEF Acts
  <1>c. pc[k] # "idle" => call[k] \in InputCalls
    BY <1>i DEF TypeOK, LocalsOK
  <1>o. /\ pc[k] = "idle" => tok[k] = None
        /\ pc[k] = "borrow" => tok[k] = None
    BY DEF LeaseInv, CallsOrderly
  <1>1. CASE Borrow(k)
    BY <1>1, BorrowStep
  <1>2. CASE ~Borrow(k)
    <2>1. (Holds(k)' <=> Holds(k)) /\ (Holds(k) => tok'[k] = tok[k])
      <3>1. ASSUME NEW c \in Clients, NEW w \in Windows, NEW n \in 1..MaxActions,
                   StartInput(k, c, w, n)
            PROVE  ~Holds(k) /\ ~Holds(k)'
        BY <3>1, <1>t, <1>o DEF StartInput, Holds, Borrowers, Locals
      <3>2. CASE TakeInput(k) \/ Check(k)
        BY <3>2, <1>t DEF TakeInput, Check, Holds, Borrowers, Locals
      <3>3. CASE BorrowFails(k)
        BY <3>3, <1>o, <1>t DEF BorrowFails, Holds, Borrowers, Locals
      <3>4. CASE CheckFails(k) \/ DeliverFails(k)
        BY <3>4, <1>t
        DEF CheckFails, DeliverFails, Finish, GoCleanUp, Holds, Borrowers, Locals
      <3>5. CASE Deliver(k)
        <4>1. CASE call[k].left = 1
          BY <3>5, <4>1, <1>t DEF Deliver, Finish, GoCleanUp, Holds, Borrowers, Locals
        <4>2. CASE call[k].left # 1
          <5>1. /\ pc[k] = "send" /\ pc'[k] = "check" /\ tok' = tok
                /\ call'[k].yolo = call[k].yolo
            BY <3>5, <4>2, <1>t, <1>c DEF Deliver, Locals, InputCalls
          <5> QED BY <5>1 DEF Holds, Borrowers
        <4> QED BY <4>1, <4>2
      <3> QED BY <1>2, <3>1, <3>2, <3>3, <3>4, <3>5 DEF Input, InputStep
    <2>2. Temporary' = Temporary
      BY <2>1, <1>i, <1>t, HoldingKept
    <2>3. Decided' = Decided
      BY <1>t, NoDecision
    <2>4. /\ UNCHANGED <<grants, paused, uis, pending>>
          /\ BorrowFails(k) \/ UNCHANGED leases
      BY <1>2 DEF Input, InputStep, StartInput, TakeInput, BorrowFails, Check, CheckFails,
                  Deliver, DeliverFails
    <2>5. UNCHANGED KnownLeases
      <3>1. CASE UNCHANGED leases
        BY <3>1 DEF KnownLeases, Heard
      <3>2. ASSUME NEW x \in Tokens, FreshToken(x), GuardAuthorize(x, call[k].window, FALSE)
            PROVE  UNCHANGED KnownLeases
        BY <3>2, UnheardLease DEF FreshToken
      <3> QED BY <2>4, <3>1, <3>2 DEF BorrowFails
    <2>6. UNCHANGED Authorities /\ UNCHANGED Open
      BY <2>2, <2>3, <2>4, <2>5 DEF Authorities, Open
    <2> QED BY <2>4, <2>6, <1>i, StutterStep DEF Settled
  <1> QED BY <1>1, <1>2
-----------------------------------------------------------------------------
(* Recordings and the clock have no part in it, but that leases lapse.      *)
LEMMA ElseStep ==
    ASSUME LeaseInv, LeaseInv',
           \/ \E r \in Recorders : Recording(r)
           \/ Clock
           \/ UNCHANGED vars
    PROVE  ContractStep
  <1>i. TypeOK /\ Settled /\ Settled'
    BY InvSettled, InvSettledNext DEF LeaseInv
  <1>1. UNCHANGED <<pc, tok, job, call, paused, grants, pending>>
    BY ClockKeeps
  <1>2. UNCHANGED uis
    BY DEF Recording, RecordStep, StartRecord, Register, RegisterFails, Sample, Capture,
           Recheck, WriteFrame, LeaveLoop, Finalize, CancelRecording, Goto, Clock, Expire,
           LeaseLost, PickerExpires, RetryTimer, vars
  <1>3. Decided' = Decided /\ Temporary' = Temporary
    BY <1>1 DEF Decided, Temporary, Deciders, Borrowers, NewGrant
  <1>4. UNCHANGED Open
    BY <1>1, <1>2 DEF Open
  <1>5. CASE UNCHANGED leases
    <2>1. UNCHANGED Authorities
      BY <1>1, <1>3, <1>5 DEF Authorities, KnownLeases, Heard
    <2> QED BY <2>1, <1>1, <1>4, <1>i, StutterStep DEF Settled
  <1>6. ASSUME NEW t \in Tokens, LeaseLost(t) PROVE ContractStep
    <2>1. /\ {t} \in SUBSET DOMAIN leases
          /\ leases' = Restrict(leases, DOMAIN leases \ {t})
      BY <1>6 DEF LeaseLost, LeaseEnds
    <2> QED BY <2>1, <1>1, <1>3, <1>4, <1>i, LapseStep DEF Settled
  <1>7. (\E t \in Tokens : LeaseLost(t)) \/ UNCHANGED leases
    BY DEF Recording, RecordStep, StartRecord, Register, RegisterFails, Sample, Capture,
           Recheck, WriteFrame, LeaveLoop, Finalize, CancelRecording, Goto, Clock, Expire,
           PickerExpires, RetryTimer, vars
  <1> QED BY <1>5, <1>6, <1>7

LEMMA ContractNext ==
    ASSUME LeaseInv, LeaseInv', [Next]_vars
    PROVE  [Contract!Next]_(Contract!vars)
  <1>1. ASSUME NEW u \in UIs, UICommand(u) PROVE ContractStep
    BY <1>1, OtherCommandStep, DecideStep DEF UICommand, OtherCommand
  <1>2. ContractStep
    BY <1>1, DecisionStep, CleanUpStep, MaintenanceStep, ClientStep, InputContractStep,
       ElseStep
    DEF Next
  <1> QED BY <1>2 DEF ContractStep

LEMMA ContractInit == Init => Contract!Init
  <1> SUFFICES ASSUME Init PROVE Contract!Init
    OBVIOUS
  <1>1. Deciders = {} /\ Borrowers = {} /\ Heard = {} /\ DOMAIN grants = {}
    <2>1. /\ \A u \in UIs : pc[u] = "closed"
          /\ \A k \in Calls : pc[k] = "idle"
      BY Kinds DEF Init, Sessions
    <2>2. DOMAIN leases = {} /\ DOMAIN grants = {}
      BY DEF Init, LeaseInit
    <2> QED BY <2>1, <2>2 DEF Deciders, Deciding, Borrowers, Heard
  <1>2. Decided = Contract!Empty
    BY <1>1 DEF Decided, Contract!Empty
  <1>3. grants = Contract!Empty
    BY DEF Init, Contract!Empty
  <1>4. Temporary = {} /\ Ending = {}
    BY <1>1 DEF Temporary, Ending
  <1>5. KnownLeases = Contract!Empty
    BY <1>1 DEF KnownLeases, Contract!Empty
  <1>6. Open = FALSE /\ pending = {}
    BY DEF Init, Open
  <1> QED BY <1>2, <1>3, <1>4, <1>5, <1>6 DEF Contract!Init

(* The broker's locks, exchanges and retries keep the contract: a token is  *)
(* drawn, granted, taken back and gone, in that order and only once.        *)
THEOREM HonoursContract == Spec => ImplementsContract
  <1>1. Init => Contract!Init
    BY ContractInit
  <1>2. LeaseInv /\ LeaseInv' /\ [Next]_vars => [Contract!Next]_(Contract!vars)
    BY ContractNext
  <1> QED BY <1>1, <1>2, LeaseInvAlways, PTL DEF Spec, ImplementsContract, Contract!Spec
=============================================================================
