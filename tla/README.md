# hyprland-computer-use in TLA+

Hyprland Computer Use lets MCP clients (agents) look at and operate single
windows of a Wayland desktop, with permission given by the person at the
console.  This directory models the parts of it that decide *who may do what
to which window, and when that stops*: TLA+ modules, TLC configurations that
check them on small instances, and proofs that TLAPS checks for every size.

Line numbers refer to `src/internal/app` unless another directory is given.

## 1. Inventory

| Part | State it keeps | Operations | What is hard about it |
|---|---|---|---|
| **Permission broker** `broker.go` | mode, paused, supervisor count, clients, requests, grants, `authority` counter, unconfirmed revocations, retry time | permit, decide, revoke, clear, disconnect, pause, mode, maintenance (every 100 ms), cleanupGuard, retryRevocations | a decision spans a lock, a wait for `backendMu`, an exchange with the guard and a second lock; revocation is immediate in the broker and eventual in the guard |
| **Sharing** `sharing.go` | the open picker (one minute) | beginShare, selectShare, cancel_share | the picker is replaced, cancelled, expires or loses its recipient while a selection is authorized |
| **Input** `desktop.go` | `inputMu`; per call: token, remaining actions | input | check-then-send; a YOLO call borrows a lease of its own and gives it back in a deferred call that takes `backendMu` while holding `inputMu` |
| **Recording** `desktop.go` | recordings with a context each | record, stop_recording, the sampling loop | permit and registration are separate critical sections; a capture lies between two permission checks |
| **Compositor guard** `native/guard.cpp` | leases (token, window, root surface, deadline), peers | authorize, revoke, clear, expire, deliver | single-threaded, but its replies may be lost, and a lease may end at any moment |
| **Guard transport** `desktop.go`, `guard.cpp` | bound instance ID | guardExchange, readPeer | a timeout does not say whether the request ran |
| **MCP server** `tools.go`, `cli.go` | one goroutine per connection | the ten tools | a connection ends when the calls it serves have returned |
| **OAuth provider** `oauth.go`, `oauth_refresh.go` | clients (persisted), pending, codes, access and refresh tokens, rate table | register, authorize, continue, decide, token, refresh, verify, revoke | capacity limits, single use, reuse detection with an unlock before the revocation |
| **HTTP gateway** `http.go` | peers, with nil for a reservation | admitMCP, newServer, activation, the watcher goroutine, revokePrincipal | reservation against creation against revocation; a ten second timer against the first call |
| **Observation** `observation.go`, `observation_delay.go`, `capture_options.go` | none; its locals while grim runs | observe, delay, crop | two permission checks and two comparisons around a picture of a window that moves meanwhile |
| **Input transaction** `native/input_transaction.hpp`, `pointer_gesture.hpp`, `text_*.hpp` | borrowed focus, pressed keys and buttons, `inputFaulted` | borrow, press, release, restore | an exception at any step must release and restore everything |
| **Independent seat** `native/independent_seat.hpp`, `seat_policy.hpp` | agent focus, 128 input serials, popup grabs | begin, key, text, pointer, revoke, reset, tick | single-use serials against revoke, clear and expiry |
| **Surface routing** `native/surface_*.hpp`, `window_state.go` | none | tree, selection, hit test | pure, over trees |
| **Setup and repair** `setup*.go`, `native/setup_inspector.cpp` | the staged build, a pidfd, what it has done so far; in the session: loaded plugins, brokers | repairNative, inspectGuard, stop, restart | every call may fail, others start brokers and load guards meanwhile, and what is reported must still be so |
| **Sockets and locks** `broker.go` 618-678, `setup_process.go` 25-188, `startup.go`, `guard.cpp` 499-586 | lock files, socket paths | listenUnix and Close, lifecycleLock, findBroker, plugin init and exit | stale sockets after a crash, two starters, a pid that is given out again |
| **Wayland devices** `keyboard*.go` | virtual devices | start, watch, close | a start needs the connection, and its end stops the broker |
| **Tray, console, QML** `tray*.go`, `console.go`, `quickshell/` | menu state | activate, update, shutdown | coalesced activations |
| **Arguments** `pointer.go`, `text.go`, `input_schema.go` | none | validation, key names, text chunks | pure |

How they interact.  Every MCP connection, supervisor connection, input call
and recording is a goroutine.  They share the broker's fields under `b.mu`,
which is never held across I/O.  Exchanges with the guard that take authority
away, and the decisions that give it, are serialized by `backendMu`; input
calls are serialized by `inputMu`, and take `backendMu` only to give a
temporary lease back.  The guard is reached by one connection per exchange,
with a timeout of at most two seconds; the guard runs each request to
completion on Hyprland's event loop and drops the requests of peers that hung
up.  The guard checks leases on its own, whatever the broker believes.

What makes the parts correct:

* broker and guard together: nothing can be delivered once a pause, a
  revocation or an expiry has been confirmed; no lease is forgotten; while the
  outcome of a cleanup is unknown nothing new is permitted, and that state
  ends;
* broker: a paused or unsupervised broker and a disconnected client hold
  nothing; a decision yields at most one grant;
* recording: bounded, ended by its cancellation;
* locks: every command returns;
* OAuth and gateway: one connection per approved code, lifetimes never
  extended, a revoked family has no session; limits hold under concurrency; a
  registration that was answered survives a restart;
* observation: pixels of a window only under a permission that covers it where
  they were taken;
* brokers: one behind the socket; a signal reaches nothing else;
* input transaction and seat: nothing stays pressed, a serial is used once and
  only under its lease;
* setup: the reported outcome is the true one.

## 2. Plan

1. **Permission core** (done): `Permissions`, `LeaseTable`, `Authority`,
   `AuthorityProps`, `MCAuthority`; proofs in `AuthorityProofs`,
   `LeaseInvariant`, `LeaseProofs`.
2. **What the core promises** (done): the abstract `PermissionContract` (a
   token is drawn, granted, taken back and gone; uncertainty is a state of its
   own); `Authority` is shown to implement it, in `AuthorityProps` for TLC and
   in `LeaseProofs` for every size.
3. **Remote access** (done): `OAuth` (the provider's tables and lifetimes),
   `HttpGateway` (peers and sessions over it), `HttpGatewayProps`, `MCRemote`,
   the abstract `ClientLifecycle`; proofs in `HttpGatewayInvariant`,
   `OAuthProofs`, `GatewayProofs`; `ClientRegistry` and `MCRestart` for the
   registry file and restarts.
4. **Guard internals** (done): `FocusBorrowing` (the input transaction, with a
   fault at every call), `AgentSeat` (serials, grabs, leases), `AgentSeatProps`,
   `MCBorrowing`, `MCSeat`; proofs in `BorrowingInvariant`, `BorrowingProofs`,
   `SeatProofs`.
5. **Lifecycle** (done): `BrokerProcess` (processes, locks, sockets, guards,
   findBroker), `SetupRepair` over it, `SetupProps`, `MCSetup`; proofs in
   `SetupProofs`.  Left for later: the broker's last clear at its end, composed
   with `LeaseTable`; the tray's shutdown.
6. **Observation** (done): `Observation` over `Authority`, `MCViews`; proofs in
   `ObservationProofs`.
7. **Pure algorithms**: surface selection and hit testing, crop and scale
   bounds, text chunks.

Bounds stay at two of each actor that races and one of everything else, with a
run of its own for each pair of actors that interact.

## 3. The permission core

### Modules

| Module | Models |
|---|---|
| `Permissions` | capabilities, scopes, grants, requests; `validScope` and `grantMatches` |
| `LeaseTable` | the guard's lease table: `GuardAuthorize`, `GuardRevoke`, `GuardClear`, `LeaseEnds` |
| `Authority` | the broker, sharing, input calls and recordings, composed with `LeaseTable`; `Spec` and `FairSpec` |
| `PermissionContract` | what broker and guard promise together about tokens |
| `AuthorityProps` | the properties, and `Authority` seen as `PermissionContract` |
| `Observation` | views of a window (`observation.go`) over `Authority`, with their property |
| `MCAuthority`, `MCViews` | values of constants, the symmetry and a weaker fairness for TLC |
| `AuthorityProofs` | proofs about the broker's own state, its types first |
| `LeaseInvariant` | the inductive invariant that relates broker and guard |
| `LeaseProofs` | proofs about broker and guard together |
| `ObservationProofs` | proofs about views |

### State and steps

A critical section under `b.mu` is one step: inside it nothing blocks and
nothing is called that could.  Between critical sections the goroutine's
position is `pc` and its locals are `tok` (the grant or lease token it works
with), `job` (the copy of the request or picker a decision works from), `call`
and `todo` (the cleanups it still has to send).  `backendMu` and `inputMu` are
the variables `backend` and `inputLock`.

An exchange with the guard is a step of its own.  It may fail before the guard
runs it, run and be answered, or run and lose its answer
(`CleanupAnswered`, `CleanupUnanswered`, `AuthorizeFails`, `BorrowFails`).
What the broker records of a cleanup (`NoteReply`, the critical section of
`cleanupGuard`) is the step after.  A request is never run after the broker
gave up on it, because `readPeer` drops a peer that hung up.

| Code | Actions |
|---|---|
| `handleUI` open, close | `UIOpen`, `UIClose` |
| pause, mode, revoke, revoke_all, deny | `Pause`, `Resume`, `SetMode`, `RevokeGrant`, `RevokeAll`, `Deny` |
| `beginShare`, cancel_share | `BeginShare`, `CancelShare` |
| `decide`, `selectShare` | `Approve` or `SelectShare`, then `Lookup`/`LookupFails`, `Authorize`/`AuthorizeFails`, `Publish`/`Withdraw` |
| `clearBackend`, `revoke`, `disconnect`, `retryRevocations`, the deferred revoke | `TakeBackend` or `Retry`, then per cleanup an exchange and `NoteAndContinue` or `NoteAndReturn` |
| `maintenance` | `MaintTick`, `Retry` or `NothingToRetry`, and the clear |
| `serveMCP` | `Connect`, `Disconnect` |
| `permit` | `Ask`, and the guards of `StartInput` and `StartRecord` |
| `input` | `StartInput`, `TakeInput`, `Borrow`/`BorrowFails`, then per action `Check`/`CheckFails`, `Deliver`/`DeliverFails` |
| `record` | `StartRecord`, `Register`/`RegisterFails`, `Sample`, `Capture`, `Recheck`, `WriteFrame`, `LeaveLoop`, `Finalize` |
| `observeWithOptions`, `captureWithOptions` | `Look`, `Permit` or `AskToView`, `Shoot`, `Compare`, `CompareAgain`, `Release`, `Return`; the user's `Move` |
| clocks | `Expire`, `PickerExpires`, `RetryTimer`, `LeaseLost` |

Abstractions, all named in the modules' comments:

* the counter `b.authority` is only compared with a snapshot, so the model
  keeps the set of handlers whose snapshot is still current;
* time is a set of tokens whose deadline has passed, which any step of the
  clock may extend; the same for the picker and the retry timer;
* random IDs are fresh: not in use anywhere (`FreshToken` and the like);
* labels, reasons, durations, titles and geometry are left out, the lookups
  that may fail because of them fail nondeterministically;
* an input call is a number of deliveries; the status queries before them can
  only end the call, like `CheckFails` and `DeliverFails`;
* `Drained` states what the MCP library does when a connection ends: it
  returns after the calls it serves;
* `leases[t].told` records whether the reply to the authorize arrived.  A
  lease whose reply was lost is unknown to the broker, which is why
  `LeaseAccounted` speaks of the others; it can be used by no call, and ends by
  a clear or by its own deadline.

### Properties

* `PausedHoldsNothing`, `DisconnectedHoldsNothing`: no grant, pending request
  or picker survives a pause, the loss of the last supervisor or, for its own
  client, a disconnect, whatever decision was in flight.
* `PauseStopsInput`: after a confirmed pause no call can deliver, wherever it
  was.
* `RevocationStopsInput`: a call permitted by a grant can deliver only while
  that grant stands, or while the guard has not confirmed that it is gone.
* `LeaseAccounted`: every lease the broker knows of belongs to a grant, a
  decision or a YOLO call in progress, or is being taken back (proved; the runs
  check it as part of the next).
* `ImplementsContract`: seen through `Open`, `Decided`, `Temporary`,
  `KnownLeases` and `Ending`, every step of the core is one of
  `PermissionContract` or changes nothing of it.  A token is drawn by a decision
  or by a call in YOLO mode, becomes a grant only with a supervisor, unpaused
  and with nothing unconfirmed, and is never granted again once it was taken
  back; its lease is for the window that was decided, and stays known until the
  guard ends it.  The contract has no lease that is nobody's: `Ending` holds only
  those that a clear or a revoke is coming for, so a lease that is forgotten
  breaks the refinement.
* `DeliveryHitsItsWindow`: the guard takes the window from the lease; it is the
  one the call was permitted for.
* `UncertaintyBlocks`: while a cleanup is unconfirmed no grant appears and no
  call passes its permission check.
* `OneGrantPerDecision`: a grant appears only in the step that uses up its
  request or picker, and a settled request stays settled.
* `RecordingsBounded`: the limit on running recordings (proved; no run).
* `FramesStayCovered`: a picture is released only under a permission that, at
  that moment, covers the window on a workspace where it has been since the
  picture was taken.  Nothing is locked between the look, the picture, the
  comparisons and the second check; a window that leaves its workspace and is
  back when it is compared is not told from one that stayed, which is why the
  property says "has been": the picture may then be of another workspace.
* `CleanupConfirmed`, `CommandsReturn`, `CallsReturn`, `ExpiryReachesGuard`:
  progress.
* `CancelledRecordingEnds`: a recording that was cancelled, or whose client has
  gone, ends.  Permission alone would not end it in YOLO mode, and `record` is
  permitted in one section and registered in another, so that a disconnect
  between the two would find nothing to cancel.

### Runs

| Run | Question | Instance |
|---|---|---|
| `Input` | input against approval, revocation, pause, mode changes, expiry, disconnect, lost replies | 1 supervisor, 1 client, 2 windows, a call of 1 action, 2 tokens |
| `Modes` | calls with temporary leases return and stopped recordings end, whatever pauses and mode changes run | 1 supervisor, 1 client, a call of 2 actions, 1 recording; fair, the guard owing nothing |
| `Sharing` | shares and decisions at the same time, against recipients that disconnect | 2 supervisors, 2 clients, 2 pickers, 1 request |
| `Views` | a view against a window that moves, decisions, revocations, mode changes | 1 client, 1 window, 2 workspaces, 2 tokens, 1 request, 1 view |
| `Progress` | cleanups, decisions and disconnects end | 1 supervisor, 1 client, 1 request, no place left to record in; fair |
| `Expiry`, `Recall` | two disagreements with the documents, below | 2 clients; 1 client, 1 call |

Why the bounds are enough.  The races are between two holders of the same
thing: a decision and a revocation (two supervisors, or a supervisor and a
client that disconnects), a call and whoever takes its lease, two clients
(recipient and bystander), two tokens (a lease that goes while another comes),
two windows (right and wrong), two workspaces (where a window was seen and where
it is).  The broker never compares three of anything, the limits are reached with
one or two, and the theorems below have no bounds.  A batch between two of its
actions is in the state of a shorter one that has waited before its check, so
`Input` needs one action; that the loop ends is `Modes`'s question.  Two calls at once meet only at `inputMu`, where
the second waits in the state it would be delayed in anyway; the theorems are
about any number of them.  The only bounds on behaviour are the finite sets of
IDs: an ID may be drawn again when nothing refers to it any more, so the runs do
not stop when they run out.  The fair runs use no symmetry, which would be
unsound for liveness.  Deadlock is checked in every run.

### Fairness

`FairSpec` assumes that a goroutine that can go on repeatedly does
(strong fairness, because a mutex may be taken by others in between; Go's
mutexes hand over to a waiter that has starved for a millisecond), that the
guard answers a cleanup it is asked for again and again, and that the ticker
and the retry timer fire.  Without the last two the code does not promise
anything: a guard that never answers leaves `revocation_unconfirmed` set.
Nothing is assumed of clients, supervisors, deadlines or leases.  A
recorder's steps are weakly fair: the write to ffmpeg is raced against the
context, and the wait for ffmpeg has a time limit.  `Modes` assumes less
(`SilentGuardSpec` of `MCAuthority`): goroutines go on, but the guard may leave
every question unanswered until its time limit, for ever; a call returns all
the same.

### Where the code disagrees with its documents

* **`Expiry`** (`ClearSparesGrants` fails).  When a control grant expires,
  maintenance clears the whole guard (500-504).  The comment speaks of leases
  whose revoke reply was lost, but `clear` erases the leases of every other
  control grant too.  Such a client keeps its grant, so `permit` succeeds and
  opens no new request, while every delivery is refused until its grant ends.
* **`Recall`** (`ConfirmedRevocationStopsInput` fails).  A YOLO call's lease is
  its own.  After a change to approve mode, the call's check accepts any grant
  of its client for the window; if that grant is revoked right after the check
  and the guard confirms it, the next delivery is still accepted, by the
  call's own lease.  SECURITY.md says that revocation blocks later
  transactions.

## 4. Remote access

### Modules

| Module | Models |
|---|---|
| `OAuth` | the provider: registrations, authorizations, codes, access and refresh tokens, revocation |
| `HttpGateway` | `/mcp`: admission, sessions, watchers, revocation of a connection; extends `OAuth` |
| `ClientLifecycle` | abstract: what the broker may assume of a transport that brings it clients |
| `ClientRegistry` | the registry file and restarts of the broker, over provider and gateway, with their property |
| `HttpGatewayProps` | the properties |
| `MCRemote`, `MCRestart` | the symmetry for TLC |
| `HttpGatewayInvariant` | the inductive invariant, by part |
| `OAuthProofs`, `GatewayProofs` | the proofs about the tables, and about peers and sessions |

### State and steps

The provider's maps under `p.mu` are `apps`, `pending`, `codes`, `tokens` and
`refresh`; every handler is one critical section and one action, except
`authorize`, which cleans up in one section and inserts in another (`CleanUp`,
`Authorize`), and the three revocations, which learn the connection in one
section (`Reuse`, `Revoke`), delete its family in a second (`DropFamily`) and
tell the gateway in a third (`TellGateway`).  `revoker` is where a revocation
is.  `cleanupLocked` is part of every action whose handler calls it.

A deadline is a set `over` of what is past it: an authorization, a code, or a
connection, since all tokens of a connection carry the deadline that was
approved.  `drawn` makes random values fresh, `handed` are the codes that the
browser has taken to a client, `revoked` and `born` are history.

| Code | Actions |
|---|---|
| `register`, `authorize`, `decide`, `continueAuth`, `token`, `refreshToken` | `Register`, `CleanUp` and `Authorize`, `Approve` and `Deny`, `Continue`, `Exchange`, `Refresh` |
| reuse, `/revoke`, the console's revoke | `Reuse`, `Revoke`, then `DropFamily`, `TellGateway` |
| `saveClientsLocked`, `newOAuthProvider` | `BeginRegister`, `Rename`, `Answer`, `SaveFails`, `Restart` |
| `RequireBearerToken`, `verify` | the guards of `PostInitialize`, `PostCall` |
| `admitMCP` | `Reserve`, `Overload`, `Abandon` |
| `newServer` | `Create`; its goroutine: `WatchReady`, `WatchGiveUp`, `WatchStop`, `WatchDone`, `RemovePeer`, `Disconnect` |
| the middleware and its `activate` | `Serve` |
| the MCP library (external) | `Open`, `OpenFails`, `Refuse`, `Return`, `SessionEnds`, `SessionCloses` |

The library is modelled from how `http.go` uses it: it binds a session to the
principal that opened it, takes no call once the session is closing, and `Close`
returns when the calls that were taken have returned.  Without OAuth
(`Guarded = FALSE`) the principal is `None`.

In `ClientRegistry` a registration holds `p.mu` from the table to the answer
(`saving`), with the rename in between, and everything else the provider does
waits (`Otherwise`).  The broker may end at any point; the next one has the file
and nothing else, while clients, browsers and their old values are still there.
A start that refuses the file is no step.

### Properties

* `RefreshWithinAccess`: the refresh history cannot outgrow the 256 access
  tokens, so its own limit of 1,024 is never reached.
* `NoResurrection`: a refresh or an exchange between the two sections of a
  revocation leaves no token behind, nor does a restart.
* `RegistrationsSurvive`: a client that was told of its registration stays
  registered as it was told, over failed writes of others and restarts, and what
  is served is what a restart would serve.
* `EveryPlaceOwned`: a reservation belongs to a request, a peer to a watcher.
* `RevokedNotRecipients`: when a revocation has returned, no client of the
  connection is left with the broker that is not on its way out.
* `OthersKeepTheirSessions`: a session in use is ended for the revocation or
  expiry of its own connection only.
* `ImplementsLifecycle`: the broker's `Drained` assumption.
  `Authority` disconnects a client when none of its calls runs; that the gateway
  brings clients in this way is a refinement of `ClientLifecycle`, whichever of
  revocation, expiry, timer, DELETE and idle timeout ends the session.
* `ProbesEnd`, `SessionsEnd`: progress.

Proved and in no run, because they follow from a check and an insertion in one
section or restate a limit: `LimitsHold`, `PeersBounded` (the documented
limits), `CodeYieldsOneConnection`, `OneLiveRefresh` (single use, rotation) and
`RecipientsWatched` (a call that is served is of a recipient whose watcher has
yet to disconnect it).

### Runs

| Run | Question | Instance |
|---|---|---|
| `Tokens` | the tables, with every deadline, failed writes and restarts; one connection's revocation, the other's session | 1 client, 2 connections, 3 tokens of each kind, 1 peer |
| `Sessions` | admission, sessions and calls against revocation and expiry; the refinement; liveness | 1 connection, 2 peers for 1 place, 2 requests, fair |

Why the bounds are enough.  The tables' limits are reached with two or three
entries, and a limit is compared with a cardinality only.  Two connections are
needed to tell a family from another, two requests and two peers for one place
to race an admission against a call and another admission.  Values are not drawn
again (256 random bits), so the number of authorizations, codes and tokens in an
instance is the number of events of that kind; three refresh tokens allow a
rotation and its reuse beside another family.  A peer ID is drawn again when
nothing refers to it, so the gateway itself does not run out.  The runs have
OAuth on; `Guarded = FALSE` is covered by the theorems only.

`Tokens` checks `RegistrySpec`, which assumes no fairness; a restart keeps what was
drawn, so the values of an instance serve all the brokers of a behaviour.

`FairSpec` is weak fairness of requests and watchers, which wait for no lock
that is held across I/O; of calls that are served, which return because of
`Authority`'s `CallsReturn`; of the library's closing of a session without
calls; and of a revocation that has begun.  Nothing is assumed of clients, of
browsers, of the person at the console or of deadlines.

### Two remarks

A request whose token was verified before a revocation, and whose peer is
created after it, is skipped: `revokePrincipal` finds a reservation, which has
no principal, or nothing.  The session it opens is not terminated by the
revocation, as AUTH.md 53 says.  No call reaches it, because a later request is
verified again (`RevokedNotRecipients`), and its watcher closes it after ten
seconds (`SessionsEnd`).  A peer that is cancelled between `newServer` and the
library's connecting of its session is a rarer case of the same: its watcher has
left, and the session stays until the library's idle timeout of five minutes
(`Orphans` in the invariant: only of a revoked connection, so nobody can call
it).

A start refuses a registry above 1 MiB (`oauth.go` 111), while `register` and
`saveClientsLocked` bound the number of clients and of their addresses, not the
size of the file.  Registrations that were all accepted could add up to a file
that the next start refuses, where AUTH.md 76 says that a restart retains them.
Sizes are not modelled, so no run shows it.

## 5. The guard's input

The guard has two ways to deliver input.  A window whose client bound the
agent's seat is served by that seat, next to the human's; for any other window
the human's seat is borrowed for the length of one request.  Line numbers in
this section refer to `src/native`.

### Modules

| Module | Models |
|---|---|
| `FocusBorrowing` | `InputTransaction`, `pointerGesture`, `textTransaction`, with their properties |
| `AgentSeat` | `IndependentSeat`, `SeatSerials`, the guard's leases as the seat sees them, popups |
| `AgentSeatProps` | the properties of the latter |
| `MCBorrowing`, `MCSeat` | the symmetry for TLC |
| `BorrowingInvariant` | the inductive invariant of a transaction |
| `BorrowingProofs`, `SeatProofs` | the proofs |

### Borrowing: state and steps

A request runs to completion on the compositor's event loop; nothing runs
between its calls but the compositor itself.  What can go wrong is a call: it
may throw before or after its effect, and `setKeyboard`, `setMouse` and the two
focus calls may do nothing and say nothing.  So the code is a *script* of calls
for each phase (`BorrowScript`, `ActScript`, `CleanupScript`, `RestoreScript`),
computed when the phase begins, as the code's conditions are evaluated, and an
action per kind of call.  `After` is what an exception does: it skips the rest
of its try block (`try` in a call), and is on its way to the caller, or, when it
is caught in a clean-up or a restoration, is a fault.  `NextPhase` has the catch
block of a gesture, `finish` and the destructor.

| Code | Definitions |
|---|---|
| `requireIdleInput`, the constructor | `IdleInput`, `Begin` |
| `borrowKeyboard`, `installTargetKeymap`, `borrowPointer` | `BorrowScript`; `SetSeat`, `Check` |
| `key`, `motion`, `button` | `KeyScript`, `MotionScript`, `PressScript`, `ReleaseScript`; `Send` |
| `pointerGesture`, `textTransaction` | `GestureScript`, `CleanupScript`, `ActScript`, `SetLocal` |
| `restore`, `finish` | `RestoreScript`, `Verify`, `Return` |

`seat`, `mods`, `keymap` and `pressed` are what compositor and clients were last
told; a client does not forget a key because its focus leaves, so the model is
stricter than the toolkits are.  `HumanMoves`, `HumanPresses` and
`HumanReleases` act between transactions; the broker's `focus` request, which
activates a window for the human, is a `HumanMoves` too.  Requests that are
refused before the transaction begins have touched nothing and are left out, as
are positions: the cursor, which `restore` compares too, is moved by none of
these calls.

### The agent's seat: state and steps

Requests of the broker, requests of the clients and events of the compositor
take turns on the event loop and are one action each.  An action of the broker
begins with `expire` and `tick` (`Live`, `Ticked`); a request that is refused
before it reaches the seat is therefore a `Tick`.

| Code | Actions |
|---|---|
| `tick`, authorize, revoke, clear | `Tick`, `Authorize`, `Revoke`, `Clear` |
| `begin`, `select`, `key`, `text`, `button`, `motion`, `scroll` | `Deliver`, or `BeginRefused` when `begin` throws after it looked at the popups |
| `getKeyboard`, `getPointer`, `destroyed` | `Bind`, `Unbind` |
| `protocol` and `grab` | `Grab`: the library calls the two one after the other for one request |
| `rootGone`, `focusGone` | `Destroy`, `DestroyPopup` |
| popups, windows, the session lock (external) | `CreatePopup`, `MapPopup`, `UnmapPopup`, `Map`, `Unmap`, `ShowOrHide`, `LockOrUnlock` |

A deadline is the flag `over`; five seconds after which a serial is too old are
the choice `old` in `Grab`.  A serial may be drawn again when it is no longer in
the record.  A subsurface stands for the surface it belongs to, geometry and the
hit test are left out (`Deliver` is told the surface), and a request with several
presses is several requests.  What a client does about `popup_done` is up to it.
`issued`, `seen` and `sent` are history.

### Properties

* `SeatGivenBack`, `SeatUnmoved`: whatever failed, when the compositor returns
  to its loop the human has devices, focus, modifiers and key maps as before and
  nothing of the agent's is pressed, or the guard is faulted and refuses input.
* `OnlyTheTarget`: the agent presses nothing and shows its text map to nobody
  but its target, and leaves what the human holds alone.
* `HonestReply`: a text that is reported as typed was typed; the count in a
  failure is right up to the character in flight.
* `SeatIsOfALease`: the seat belongs to a lease in the table and to its window,
  or is empty, and the surface in focus exists.
* `SerialsCurrent`: a serial that could pay for a grab was given out under this
  very lease, not under one with the same token before it.
* `GrabsArePaid`: a popup gets a grab only from a live lease, for a parent in
  the live tree and a serial that cannot be used again.
* `KeysFollowTheGrab`: keys go to the newest open popup, and never to the parent
  of one that is about to open.

### Runs

| Run | Question | Instance |
|---|---|---|
| `Borrowing` | a failure or a refusal at every call, twice and more | 2 surfaces, 2 keyboards per client, 2 characters, 2 clicks or waypoints |
| `Seat` | leases, serials and popups against everything that ends them | 1 window, 2 popups, 2 tokens, 2 serials for a record of 1, 2 leases, 2 grabs |

Why the bounds are enough.  A transaction deals with two surfaces, the target
and the one that had the focus; a second keyboard, character or click tells the
loops from their bodies, and a failure in one turn from success in the other.
Two popups make a nested one and a newest one, two tokens a lease that takes the
seat from another, and a record of one serial is full at once.  That there is one
window means that the seat never moves from one root to another under a token
but by renewal; the theorems about the seat have no such bound.

The two models assume no fairness and check no liveness: that a lease ends by
itself is a `Tick` that the guard's own timer causes every 50 milliseconds.

## 6. Brokers, guards and setup

### Modules

| Module | Models |
|---|---|
| `BrokerProcess` | the processes of a session: `serve` from its first lock to its last deferred call (`cli.go`, `listenUnix`), `findBroker` and its signal, the guard plugin's `PLUGIN_INIT` and `PLUGIN_EXIT`; external: processes, pids, file locks, sockets, pipes |
| `SetupRepair` | the commands `setup` (`repairNative`, `inspectGuard`, `restart`) and `stop` over it |
| `SetupProps` | the properties |
| `MCSetup` | the symmetry for TLC |
| `SetupProofs` | the proofs |

### State and steps

What is modelled of the kernel is what the code relies on: the lock of a file is
freed when its holder dies, a socket's path is not removed; the credentials of a
socket name the pid that called `listen`; a pid is given out again, a pidfd is
not.  A process is a pid with a `kind` (a broker, a `legacy` broker that takes no
`broker.lock`, or anything else) and, if it serves, a place `at` in its code.
`pin` is the pidfd of `findBroker`; its process lives or does not.

| Code | Actions |
|---|---|
| `lifecycleLock`, the guard's answer and the Wayland devices, `listenUnix`, `brokerReady` | `TakeLock`, `Connect`, `TakeFlock`, `Listen`, `Ready`; `StartFails` at any of them |
| SIGTERM or a lost display, `lockedUnixListener.Close`, the end | `Terminate`, `CompositorEnds`; `LeaveServing`, `Unlink`, `Exit`; `Crash` at any point |
| `findBroker`, `brokerProcess.stop` | `Dial`, `OpenPidfd`, `ReadProc`, `Confirm`, `FindFails`; `Signal`, `Stopped`, `DidNotStop` |
| `inspectGuard` and its deferred cleanup | `Inspect`, `RemoveInspector` |
| `repairNative` before anything is touched | `Compare`, `Looks`, `Looked`, `Status` |
| `repairNative` after that | `SignalBroker`, `Lock`, `Alone`, `Competed`, `UnloadGuard`, `GuardAbsent`, `LoadGuard`, `GuardPresent`, `GuardPeer`, `GuardReady`, `Publish` |
| `restart` | `SpawnChild`, `ChildReady`, `KillChild`, `ChildFails` |
| an error anywhere, Ctrl-C, the death of the command | `CallFails`, `CommandDies` |

Each call of `repairOps` is a step, and may fail; a call that loads or unloads a
plugin may fail after its effect (`Plugin`).  `Ends` is the return with its
deferred calls, and `Says` the wrapping of an error once a broker was stopped.
`touched`, `desktop` and `report` are what the properties are about: what the
command has acted on, what others did to the guards since its inspector looked,
and what its user is told.  Meanwhile processes of any kind come and go, guards
are loaded and unloaded by hand, and the compositor is restarted (`ProcessStep`,
`GuardStep`).

Abstractions: contents of files are compared by `Builds`; whether the running
broker's executable is the same is a choice in `Status`; of the two sockets of a
broker, which are taken and left in the same way, the model has `mcp.sock`; the
two time limits (ten seconds for a broker to stop, fifteen for a child to be
ready) may pass at any moment.

### Properties

* `SocketReachesServer`: a broker that listens is the one behind `mcp.sock`,
  whoever starts, stops, or has crashed beside it.
* `SignalsReachBrokers`: SIGTERM reaches brokers only, although the socket and
  `/proc` are read by a pid that may be another process's by then.
* `SwapsAlone`: while guards are swapped no broker of this version is past its
  first lock.
* `SuccessIsReal`: setup reports success only with the guard it built loaded and
  behind `guard.sock`, unless others changed the guards since it looked.
* `ReportsHold`: "nothing was touched", "guard left unchanged", "start it
  manually", "stopped" are so when they are said; a broker that was stopped and
  an inspector that may have stayed are always reported.
* `OneGuard`, `TypeOK`: proved, and in no run.

### Run

`Setup` has two pids, two builds, one of them with the independent seat, one
command at a time (two setups exclude each other by `setup.lock`; `stop` beside a
`setup` is `Terminate`).  Two pids are a broker and whoever competes with it,
takes its pid, or is its successor; two builds are the guard that is there and the
one that is staged; pids are given out again and the session goes on without end,
so the run meets every order of these.  It assumes no fairness and checks no
liveness: setup's steps all have time limits, and the code promises no more.

### Remarks

A broker of an older version takes no `broker.lock`.  Setup looks for one once it
has the lock (`Alone`, `Competed`); one that comes back after that is not
excluded, which is why `SwapsAlone` speaks of this version.  SETUP.md 106 says
that setup publishes the `current` link only after success; `repairNative`
publishes it when the guard is in place and before the broker is restarted, so a
restart that fails leaves the link at the new build, which by then is the one that
is loaded.

## 7. What is proved

Forty-five theorems, for all values of the constants that satisfy the named
assumptions (`NoneAssumption`, `LeaseRoomAssumption`, `AuthorityAssumption`,
`OAuthAssumption`, `GatewayAssumption`, `RegistryAssumption`,
`BorrowingAssumption`, `SeatAssumption`, `ProcessAssumption`: the sets of goroutines and of random
values are disjoint, the special values are not members of other sets, the
limits are natural numbers, the sets that are counted are finite and `Asks`
holds valid pairs).

### The permission core

| Theorem | States |
|---|---|
| `TypeCorrect` | `TypeOK` |
| `PauseTakesEverything` | `PausedHoldsNothing` |
| `DisconnectTakesEverything` | `DisconnectedHoldsNothing` |
| `RecordingsStayBounded` | `RecordingsBounded` |
| `UncertaintyAlwaysBlocks` | `UncertaintyBlocks` |
| `OneGrantEach` | `OneGrantPerDecision` |
| `NoLeaseForgotten` | `LeaseAccounted` |
| `HonoursContract` | `ImplementsContract` |
| `DeliveriesHit` | `DeliveryHitsItsWindow` |
| `RevocationStops` | `RevocationStopsInput` |
| `PauseStops` | `PauseStopsInput` |
| `FramesCovered` | `FramesStayCovered` |
| `ViewsOnlyWatch` | with views beside it the core still satisfies `Spec`, if `Asks` has what views ask for |

**Types.**  `TypeOK` contains `LocalsOK`: a goroutine in a state that uses a
local has it.  It is inductive; each action has a lemma.

**What the broker holds** (`HoldsInv`).  `PausedHoldsNothing` and
`DisconnectedHoldsNothing` need two more facts: a decision's copy of a request
still names the same client as the request under that ID (`JobsMatch`), and a
record call between permit and registration belongs to a connected client
(`PermittedConnected`).

**Broker and guard** (`LeaseInv`, in `LeaseInvariant`).  The properties about
deliveries are not inductive: they hold because tokens are never shared.  The
strengthening says

* `BackendHeld`: a goroutine in the states that need `backendMu` holds it, so
  at most one is there;
* `Deciders`, `Borrowers`, `Owners`, `TokensApart`: what a token means depends
  on who holds it, and a token of a decision or of a temporary lease belongs to
  nothing else;
* `CallsOrderly`, `WindowsAgree`: a call's lease, its grant and its window
  agree;
* `OrphansUnknown`: a lease whose authorize reply was lost is known to nobody;
* `AnswersTrue`: an exchange that was answered has had its effect, and the
  effect still holds when the broker records it.

`AnswersTrue` is the heart of it: between the guard's answer and its recording
other goroutines run, and only `backendMu` keeps the confirmed lease from
coming back.  `PauseStops` also uses `ClearedWhilePaused`: in a paused broker a
lease that a call could still use has a clear coming, and no decision can
publish.  `LeaseInv` and `ClearedWhilePaused` were model-checked on the
instances above before they were proved.

**The contract** (`ContractNext`, in `LeaseProofs`).  Under `LeaseInv` the
tokens of decisions, grants and temporary leases are apart (`DecidedFacts`,
`TemporaryApart`), so each step can be followed set by set: `DecidedGains`,
`DecidedLoses` and `HoldingKept` say how the actor's own token moves, and
`OthersKeep` that nobody else's does.  `NothingForgotten` is what
`LeaseAccounted` comes to: `Ending` is just the known leases whose token is in
force nowhere.  So the tokens that a step gives up move to `Ending` by
themselves (`EndsIsEnd`), and only the four steps that make a token worth
something (`DecideStep`, `AuthorizeStep`, `PublishStep`, `BorrowStep`) need a
proof of their own; every other step ends tokens (`RevokeStep`, `LockStep`,
`NoteStep`), lets leases lapse (`LapseStep`), opens the broker or changes
nothing.

**Views** (`ViewsInv`, in `ObservationProofs`).  Since the picture was taken,
wherever the window is visible is among the workspaces it has been on, so a
comparison that succeeds finds the permitted workspace among those.  The second
permission check is made after both comparisons, which is all that
`FramesStayCovered` needs.  By `ViewsOnlyWatch` every theorem about `Spec` holds
of `ObservationSpec`.

### Remote access

| Theorem | States |
|---|---|
| `TypeCorrect` | `TypeOK` |
| `TablesBounded` | `LimitsHold` |
| `RefreshBounded` | `RefreshWithinAccess` |
| `OneConnectionPerApproval` | `CodeYieldsOneConnection` |
| `RotationIsStrict` | `OneLiveRefresh` |
| `NoTokenAfterRevocation` | `NoResurrection` |
| `PlacesBounded` | `PeersBounded` |
| `NoPlaceLost` | `EveryPlaceOwned` |
| `RevokedOnTheWayOut` | `RevokedNotRecipients` |
| `ServedByClients` | `RecipientsWatched` |
| `RevocationIsSelective` | `OthersKeepTheirSessions` |
| `RefinesLifecycle` | `ImplementsLifecycle` |
| `RegisteredForGood` | `RegistrationsSurvive` |
| `PromisesOutliveProcess` | seven invariants of this table, across restarts |
| `SelectiveAcrossRestarts` | `OthersKeepTheirSessions`, for processes that end and start |

**Tables** (`OAuthInv`, `Paired`).  That a revoked family gets no token again
needs two facts: a connection's ID is drawn once (`DrawnOnce`), so an exchange
after the revocation makes another connection, and a refresh needs a refresh
token of the family, of which `NoResurrection` says there is none.  `Paired` is
the existence of an injection from refresh tokens into access tokens of the
same connection: each handler issues the two together and each cleanup removes
both by connection.  It bounds the history without any limit of its own.

**Sessions** (`GatewayInv`).  `PlacesInv` says who owns a place: one request, or
one watcher (`PlaceOwner`), and that a watcher keeps its place until it removes
it (`WatchedPlace`), which is why a revocation that goes through `h.peers` finds
every peer that a watcher still watches.  `CallsKeepSession` says that a call
holds its session open and with it the watcher, and `Orphans` that a session
whose watcher has left belongs to a revoked connection: a call to it would need
a valid token, which `NoResurrection` excludes.  This is where the proof of the
gateway rests on the proof of the provider.  `MissedInv` is about the
peers that a revocation skips (the first remark of section 4): they have no call,
hence are no recipients.  All parts were
model-checked on the instances above before they were proved.

**Restarts** (`RegistryInv`, `ProviderInv`).  Between two answers the file is what
the table was before the registration that is being saved, or what it is with it
(`WritesKeepOthers`), so a restart in between loses or keeps a client that was told
nothing.  The gateway's own invariants (`ProviderInv`) are shown to survive a
restart, which is no step of `Spec`: it empties the tables, and the codes and
tokens that clients still hold are not in them.

### The guard's input

| Theorem | States |
|---|---|
| `GivesBackKeysAndMaps` | `SeatGivenBack` |
| `GivesBackSeat` | `SeatUnmoved` |
| `TouchesTheTarget` | `OnlyTheTarget` |
| `CountsHonestly` | `HonestReply` |
| `BorrowingTypes` | `TypeOK` of `FocusBorrowing` |
| `OwnsSeat` | `SeatIsOfALease` |
| `KeepsSerialsCurrent` | `SerialsCurrent` |
| `PaysForGrabs` | `GrabsArePaid` |
| `KeysGoToTheGrab` | `KeysFollowTheGrab` |
| `SeatTypes` | `TypeOK` of `AgentSeatProps` |

**Borrowing** (`BorrowingInv`, in `BorrowingInvariant`).  The state of a transaction
is what the calls that are still to come will make of it, so the invariant
describes the script: which calls may be pending in which phase and in which
order.  Then it says three things of them.

* The flags of the destructor are set before the calls they stand for, so
  whatever is not as it was (a pressed key, a key map, modifiers, the focus) is
  put right by a call to come, or by the script of a phase to come.
* A call is removed from the script when it returns, and then had its effect, or
  it is one of those that may do nothing, and the comparison after it is to come.
* A call that throws removes the rest of its try block.  Before the clean-up that
  only shortens what is to be undone; in a clean-up or a restoration it is a fault,
  and a faulted guard refuses input.

`CountOK` relates the count in the reply to the script of the text: what has been
counted, what is in flight and what is to come add up.  `VerifyIsLast` is the part
for `SeatUnmoved`: while `restore` runs without a fault, the comparison with what
was saved is the last call of the script, or has been made.

**The seat** (`SeatInv`, `GrabsInv`).  `SeatIsOfALease`, `SerialsCurrent` and the
types they need are inductive together.  `Fits` states them of any seat, leases,
popups and serials, so that the helpers (`TickedFits`, `BegunFits`,
`NoSeatFits`) can be put together: an action fits if its parts do.  `IssueKeeps`
and `RemoveKeeps` say what the record of serials does.  `GrabsInv` adds
`Remembered`: what the seat remembers of a popup is still true of it, and a popup
that is mapped has been seen.  A grab appears only in `Grab`, with a serial that
`begin` issued and that is removed there (`SpentIsGone`).  For the keys, `begin`
lists the grabs it keeps in the order of the popups (`OrderLists`), so the newest
open one is last (`KeptLists`); an entry above it would be of a popup that is not
mapped yet, and then `begin` refuses.

### Brokers, guards and setup

| Theorem | States |
|---|---|
| `SetupTypeCorrect` | `TypeOK` |
| `SocketAlwaysReachesServer` | `SocketReachesServer` |
| `OnlyBrokersSignalled` | `SignalsReachBrokers` |
| `GuardSwappedAlone` | `SwapsAlone` |
| `OneGuardAtItsSocket` | `OneGuard` |
| `SuccessReported` | `SuccessIsReal` |
| `ReportsTrue` | `ReportsHold` |

**Brokers** (`BrokerInv`).  `LocksHeld` says which locks a process has by where
it is: with the adjacent lock in hand from before the path is taken until the
process ends, nobody else can touch the path (`SocketReachesServer`).
`PinsAgree` says that a pidfd that lives is of the process with that pid, and of
a broker once `/proc` was read while it lived.  `Moves` is what the steps of
`serve` have in common, so one lemma covers eight of them.

**The command** (`CommandInv`).  `ActedOn` and `Found` relate what it has done and
found to where it is: for instance, that nothing was touched before the signal,
that it holds `broker.lock` from the search for a competitor to the publication,
and that it has a child only while it waits for one.  `GuardsKnown` says which
guards are loaded, unless others have changed them.  The two action properties
follow from these at the thirteen steps that answer the user (`AnswersAreEnds`).

### Only model-checked

Every safety property of the passing runs is a theorem.  With TLC alone stay the
seven progress properties (`CallsReturn`, `CancelledRecordingEnds`,
`CleanupConfirmed`, `CommandsReturn`, `ExpiryReachesGuard`, `ProbesEnd`,
`SessionsEnd`), since liveness under fairness is outside what the installed
provers handle, and the two statements that are refuted.

Induction over data is needed once, for the order of popups, which the seat
lists whatever their number.  The library's induction theorem takes an operator
as a parameter, which no installed prover instantiates; `Inductive` in
`SeatProofs` states it of a set of numbers instead and is proved from the least
element of its complement.

## 8. Not modelled

* Section 2's item 7, and what item 5 leaves: a last clear when the broker
  ends.  `Authority` starts where `serve` starts, with a guard that has just been
  cleared, and `BrokerProcess` knows of guards only whether they are there.
* Of the OAuth provider the rate limiter and the sizes of registrations; of the
  gateway the checks of Host, Origin and size, requests that are no tool calls,
  and its orderly shutdown (its sudden end is a restart).
* Of setup the building and checking of the staged files, `--build-only`, the
  contents of the `current` link, and the restored arguments and environment of
  a broker.
* Of observation crop and scale, which are arithmetic on a picture that has been
  taken, and the delay, after which a view is a new one.
* The tray's and the console's menus, whose commands are the supervisor's actions.
* Left out for good: the encoding of Wayland messages and devices, drawing and
  layout of tray and console, ffmpeg and grim, the wording of errors and of the
  audit trail, and the build, install and release scripts.
