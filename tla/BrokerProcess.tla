--------------------------- MODULE BrokerProcess ---------------------------
(***************************************************************************)
(* The processes of one desktop session that start and stop brokers       *)
(* (internal/app: cli.go, setup_process.go, the listener of broker.go) and *)
(* the compositor's guard plugin as they see it (native/guard.cpp:         *)
(* initialization and exit).                                               *)
(*                                                                         *)
(* What the kernel gives them: a lock file is freed when its holder dies,  *)
(* a socket path is not; the credentials of a socket name the pid that     *)
(* listens; a pid is given out again; a pidfd is not.                      *)
(*                                                                         *)
(* Of the two sockets a broker listens on, which it takes and leaves in    *)
(* the same way, the model has mcp.sock.                                   *)
(***************************************************************************)
EXTENDS Naturals, FiniteSets

CONSTANTS
    Pids,       \* process IDs, given out again when free
    Builds,     \* contents of a guard plugin
    Setup,      \* the command that takes broker.lock for a while
    Stale,      \* a socket path that nobody listens behind
    None

Serve == {"broker", "legacy"}           \* "serve", and one that takes no broker.lock
Kinds == Serve \cup {"other"}

ASSUME ProcessAssumption ==
    /\ {Setup, Stale, None} \cap Pids = {}
    /\ Setup # None
    /\ None \notin Builds
    /\ None \notin Kinds

VARIABLES
    kind,    \* what runs under a pid, or None
    at,      \* where a "serve" process is
    ending,  \* processes that SIGTERM or a lost Wayland connection has reached
    orphans, \* brokers whose readiness pipe nobody reads any more
    pipe,    \* the readiness pipe of a broker that setup has started
    lock,    \* holder of broker.lock
    flock,   \* holder of mcp.sock.lock
    sock,    \* who listens behind the path mcp.sock
    guards,  \* the guard plugins loaded in this compositor
    gsock,   \* the guard that listens behind guard.sock
    find,    \* where findBroker is
    pin      \* its result: a pid, and whether the pidfd's process lives

processVars == <<kind, at, ending, orphans, pipe>>
lockVars == <<lock, flock, sock>>
guardVars == <<guards, gsock>>
findVars == <<find, pin>>
brokerVars == <<processVars, lockVars, guardVars, findVars>>
-----------------------------------------------------------------------------
Starting == {"started", "locked", "connected", "flocked", "listening"}
Listening == {"listening", "serving", "closing"}            \* the listener is open
Connected == {"connected", "flocked"} \cup Listening        \* so is the display
Phases == Starting \cup Listening \cup {"gone", "running", "unlinked"}

FindStates == {"idle", "dialled", "pinned", "read", "found", "absent", "failed"}
NoPin == [pid |-> None, live |-> FALSE]
NoPipe == [child |-> None, text |-> ""]

ProcessTypeOK ==
    /\ kind \in [Pids -> Kinds \cup {None}]
    /\ at \in [Pids -> Phases]
    /\ ending \subseteq Pids
    /\ orphans \subseteq Pids
    /\ pipe \in [child : Pids \cup {None}, text : {"", "ready", "eof"}]
    /\ lock \in Pids \cup {Setup, None}
    /\ flock \in Pids \cup {None}
    /\ sock \in Pids \cup {Stale, None}
    /\ guards \subseteq Builds
    /\ gsock \in Builds \cup {None}
    /\ find \in FindStates
    /\ pin \in [pid : Pids \cup {None}, live : BOOLEAN]
    /\ find \in {"dialled", "pinned", "read", "found"} => pin.pid \in Pids

ProcessInit ==
    /\ kind = [p \in Pids |-> None]
    /\ at = [p \in Pids |-> "gone"]
    /\ ending = {}
    /\ orphans = {}
    /\ pipe = NoPipe
    /\ lock = None
    /\ flock = None
    /\ sock = None
    /\ guards = {}
    /\ gsock = None
    /\ find = "idle"
    /\ pin = NoPin
-----------------------------------------------------------------------------
(* Processes begin and end. *)

Begin(p, k) ==
    /\ kind[p] = None
    /\ kind' = [kind EXCEPT ![p] = k]
    /\ at' = [at EXCEPT ![p] = IF k = "other" THEN "running" ELSE "started"]

Spawn(p, k) ==
    /\ Begin(p, k)
    /\ UNCHANGED <<ending, orphans, pipe, lockVars, guardVars, findVars>>

Without(holder, p) == IF holder = p THEN None ELSE holder

(* The kernel closes what the process had open; the socket's path stays. *)
Dies(p) ==
    /\ kind' = [kind EXCEPT ![p] = None]
    /\ at' = [at EXCEPT ![p] = "gone"]
    /\ ending' = ending \ {p}
    /\ orphans' = orphans \ {p}
    /\ lock' = Without(lock, p)
    /\ flock' = Without(flock, p)
    /\ sock' = IF sock = p THEN Stale ELSE sock
    /\ pin' = IF pin.pid = p THEN [pin EXCEPT !.live = FALSE] ELSE pin

(* The reader of the pipe sees its end. *)
PipeEnds(p) ==
    pipe' = IF pipe.child # p THEN pipe
            ELSE [child |-> None, text |-> IF pipe.text = "" THEN "eof" ELSE pipe.text]

(* A process dies where it is, or ends of itself when it is not a broker. *)
Crash(p) ==
    /\ kind[p] # None
    /\ Dies(p)
    /\ PipeEnds(p)
    /\ UNCHANGED <<guardVars, find>>

(* SIGTERM: Ctrl-C in a broker's terminal, or the "stop" command. *)
Terminate(p) ==
    /\ kind[p] \in Serve
    /\ ending' = ending \cup {p}
    /\ UNCHANGED <<kind, at, orphans, pipe, lockVars, guardVars, findVars>>
-----------------------------------------------------------------------------
(* "serve", from its first lock to the end of its last deferred call.      *)

Go(p, from, to) ==
    /\ at[p] = from
    /\ at' = [at EXCEPT ![p] = to]

(* lifecycleLock(broker.lock), which older versions do not take. *)
TakeLock(p) ==
    /\ Go(p, "started", "locked")
    /\ \/ kind[p] = "legacy" /\ lock' = lock
       \/ kind[p] # "legacy" /\ lock = None /\ lock' = p
    /\ UNCHANGED <<kind, ending, orphans, pipe, flock, sock, guardVars, findVars>>

(* The guard answers, and the display and its devices are there. *)
Connect(p) ==
    /\ Go(p, "locked", "connected")
    /\ gsock # None
    /\ UNCHANGED <<kind, ending, orphans, pipe, lockVars, guardVars, findVars>>

(* listenUnix: the adjacent lock ... *)
TakeFlock(p) ==
    /\ Go(p, "connected", "flocked")
    /\ flock = None
    /\ flock' = p
    /\ UNCHANGED <<kind, ending, orphans, pipe, lock, sock, guardVars, findVars>>

(* ... and then the socket, in the place of whatever was left there. *)
Listen(p) ==
    /\ Go(p, "flocked", "listening")
    /\ sock' = p
    /\ UNCHANGED <<kind, ending, orphans, pipe, lock, flock, guardVars, findVars>>

(* The guard is cleared, the broker serves and says so if setup waits. *)
Ready(p) ==
    /\ Go(p, "listening", "serving")
    /\ gsock # None
    /\ p \notin orphans
    /\ pipe' = IF pipe.child = p THEN [pipe EXCEPT !.text = "ready"] ELSE pipe
    /\ UNCHANGED <<kind, ending, orphans, lockVars, guardVars, findVars>>

(* Any step of the start may fail: a busy lock, no guard, a lost display,  *)
(* a full disk, a pipe nobody reads.  The deferred calls begin here.       *)
StartFails(p) ==
    /\ at[p] \in Starting
    /\ at' = [at EXCEPT ![p] = IF at[p] = "listening" THEN "closing" ELSE "unlinked"]
    /\ UNCHANGED <<kind, ending, orphans, pipe, lockVars, guardVars, findVars>>

LeaveServing(p) ==
    /\ p \in ending
    /\ Go(p, "serving", "closing")
    /\ UNCHANGED <<kind, ending, orphans, pipe, lockVars, guardVars, findVars>>

(* Faulty: the lock is released and then the path removed. *)
BadUnlink(p) ==
    \/ /\ at[p] = "closing" /\ flock = p
       /\ flock' = None
       /\ UNCHANGED <<processVars, lock, sock, guardVars, findVars>>
    \/ /\ flock # p
       /\ Go(p, "closing", "unlinked")
       /\ sock' = None
       /\ UNCHANGED <<kind, ending, orphans, pipe, lock, flock, guardVars, findVars>>

(* lockedUnixListener.Close: the path is removed, whoever is behind it ... *)
Unlink(p) ==
    /\ Go(p, "closing", "unlinked")
    /\ sock' = None
    /\ UNCHANGED <<kind, ending, orphans, pipe, lock, flock, guardVars, findVars>>

(* ... and then the locks are released, the last of them with the process. *)
Exit(p) ==
    /\ at[p] = "unlinked"
    /\ Dies(p)
    /\ PipeEnds(p)
    /\ UNCHANGED <<guardVars, find>>

ServeStep(p) ==
    \/ TakeLock(p) \/ Connect(p) \/ TakeFlock(p) \/ Listen(p) \/ Ready(p)
    \/ StartFails(p) \/ LeaveServing(p) \/ Unlink(p) \/ Exit(p)
-----------------------------------------------------------------------------
(* findBroker, called by "stop" and twice by "setup".                      *)

Find(from, to) ==
    /\ find = from
    /\ find' = to

(* The kernel says which pid called listen; nobody behind the path is no error. *)
Dial ==
    /\ \/ /\ sock \in Pids
          /\ Find("idle", "dialled")
          /\ pin' = [pid |-> sock, live |-> FALSE]
       \/ /\ sock \in {Stale, None}
          /\ Find("idle", "absent")
          /\ pin' = pin
    /\ UNCHANGED <<processVars, lockVars, guardVars>>

(* PidfdOpen: whatever has the pid by now. *)
OpenPidfd ==
    /\ Find("dialled", "pinned")
    /\ kind[pin.pid] # None
    /\ pin' = [pin EXCEPT !.live = TRUE]
    /\ UNCHANGED <<processVars, lockVars, guardVars>>

(* The executable and its arguments, read by pid from /proc. *)
ReadProc ==
    /\ Find("pinned", "read")
    /\ kind[pin.pid] \in Serve
    /\ UNCHANGED <<processVars, lockVars, guardVars, pin>>

(* What was read is about the pinned process only if that is still alive. *)
Confirm ==
    /\ pin.live
    /\ Find("read", "found")
    /\ UNCHANGED <<processVars, lockVars, guardVars, pin>>

(* A process of another kind, session or service, one that has exited, or  *)
(* one that cannot be looked at.                                           *)
FindFails ==
    /\ find \in {"idle", "dialled", "pinned", "read"}
    /\ find' = "failed"
    /\ UNCHANGED <<processVars, lockVars, guardVars, pin>>

FindStep == Dial \/ OpenPidfd \/ ReadProc \/ Confirm \/ FindFails

(* Faulty: SIGTERM by process ID, to whatever has it by now. *)
BadSignal ==
    /\ find = "found"
    /\ ending' = IF kind[pin.pid] # None THEN ending \cup {pin.pid} ELSE ending
    /\ UNCHANGED <<kind, at, orphans, pipe, lockVars, guardVars, findVars>>

(* brokerProcess.stop: SIGTERM through the pidfd, which the dead ignore. *)
Signal ==
    /\ find = "found"
    /\ ending' = IF pin.live THEN ending \cup {pin.pid} ELSE ending
    /\ UNCHANGED <<kind, at, orphans, pipe, lockVars, guardVars, findVars>>
-----------------------------------------------------------------------------
(* The guard plugin.                                                       *)

(* PLUGIN_INIT throws, and is not loaded, unless it gets guard.sock.lock. *)
PluginInit(b) ==
    /\ gsock = None
    /\ guards' = guards \cup {b}
    /\ gsock' = b

PluginExit(b) ==
    /\ b \in guards
    /\ guards' = guards \ {b}
    /\ gsock' = Without(gsock, b)

(* The compositor ends, and its plugins; so do the Wayland connections. *)
CompositorEnds ==
    /\ guards' = {}
    /\ gsock' = None
    /\ ending' = ending \cup {p \in Pids : at[p] \in Connected}
    /\ UNCHANGED <<kind, at, orphans, pipe, lockVars, findVars>>
=============================================================================
