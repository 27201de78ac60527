---------------------------- MODULE SetupRepair ----------------------------
(***************************************************************************)
(* "setup" and "stop" (internal/app: setup.go, setup_repair.go,           *)
(* setup_process.go, cli.go).  Setup looks at the compositor, stops a      *)
(* broker, replaces the guard plugin and starts the broker again, in a     *)
(* session where brokers start, stop and crash and others load guards.     *)
(*                                                                         *)
(* Every call it makes is a step that may fail.  setup.lock, held from its *)
(* beginning to its end, makes it one setup at a time; "stop", which takes *)
(* no lock, is also what Terminate stands for while a setup runs.          *)
(***************************************************************************)
EXTENDS BrokerProcess

CONSTANT SeatBuilds     \* the guards with the independent seat
ASSUME SeatAssumption == SeatBuilds \subseteq Builds

VARIABLES
    step,      \* where the command is
    stage,     \* the build that setup has staged; None is "stop"
    seen,      \* the guard that its inspector has found, or None
    inspector, \* the inspector plugin is loaded
    had,       \* it has found a broker
    touched,   \* what it has acted on
    desktop,   \* what others have done to the guards since the inspection
    report     \* what it has told its user

repairVars == <<step, stage, seen, inspector, had, touched, desktop, report>>
vars == <<brokerVars, repairVars>>
-----------------------------------------------------------------------------
(* A guard is taken out and another put in. *)
Swapping == {"unload", "absent", "load", "present", "peer", "ready"}

Steps == {"idle", "inspect", "cleanup", "giveup", "compare", "find", "status", "signal",
          "wait", "lock", "compete", "publish", "spawn", "await", "killed"} \cup Swapping

(* What a report may say: of the broker, that it was stopped, was started  *)
(* again, still runs, is for the user to start; of the guard, that it is   *)
(* as it was; that nothing was touched; that the inspector may be loaded.  *)
Claims == {"stopped", "restarted", "running", "start", "guard", "untouched", "inspector"}

TypeOK ==
    /\ ProcessTypeOK
    /\ step \in Steps
    /\ stage \in Builds \cup {None}
    /\ seen \in Builds \cup {None}
    /\ inspector \in BOOLEAN
    /\ had \in BOOLEAN
    /\ touched \subseteq {"broker", "guard"}
    /\ desktop \in {"same", "changed", "restarted"}
    /\ report \in [ok : BOOLEAN, says : SUBSET Claims] \cup {None}

Init ==
    /\ ProcessInit
    /\ step = "idle"
    /\ stage = None
    /\ seen = None
    /\ inspector = FALSE
    /\ had = FALSE
    /\ touched = {}
    /\ desktop = "same"
    /\ report = None

(* Faulty: whichever guard is loaded will do. *)
BadUnchanged == seen # None

(* sameFileContents: the loaded guard is the one that was staged. *)
Unchanged == seen = stage

(* hyprctl reaches the compositor that setup was started in. *)
Hyprctl == desktop # "restarted"

(* One step that leads from s to t. *)
Step(s, t) == step = s /\ step' = t
-----------------------------------------------------------------------------
(* How a command ends.  Its deferred calls close the pidfd and the lock.   *)

Ends(answer) ==
    /\ step' = "idle"
    /\ find' = "idle"
    /\ pin' = NoPin
    /\ lock' = Without(lock, Setup)
    /\ stage' = None
    /\ seen' = None
    /\ had' = FALSE
    /\ touched' = {}
    /\ desktop' = "same"
    /\ report' = answer
    /\ UNCHANGED <<kind, at, ending, flock, sock>>

(* Once stop has returned, every error is wrapped: the broker was stopped. *)
Says(claims) ==
    claims \cup (IF "broker" \in touched /\ step # "wait" THEN {"stopped"} ELSE {})

Fails(claims) == Ends([ok |-> FALSE, says |-> Says(claims)])
Succeeds(claim) == Ends([ok |-> TRUE, says |-> {claim}])

(* Killed, it reports nothing; a broker it waits for keeps a broken pipe. *)
CommandDies ==
    /\ step # "idle"
    /\ Ends(None)
    /\ pipe' = NoPipe
    /\ orphans' = IF pipe.child # None /\ pipe.text = "" THEN orphans \cup {pipe.child}
                                                         ELSE orphans
    /\ UNCHANGED <<guardVars, inspector>>
-----------------------------------------------------------------------------
(* inspectGuard and the checks that come before anything is touched.       *)

SetupBegins(b) ==
    /\ Step("idle", "inspect")
    /\ stage' = b
    /\ report' = None
    /\ inspector' = FALSE
    /\ UNCHANGED <<brokerVars, seen, had, touched, desktop>>

StopBegins ==
    /\ Step("idle", "find")
    /\ report' = None
    /\ UNCHANGED <<brokerVars, stage, seen, inspector, had, touched, desktop>>

(* The inspector is loaded and asked; both may fail, with or without effect. *)
Inspect ==
    /\ step = "inspect"
    /\ \/ /\ Hyprctl
          /\ Cardinality(guards) <= 1
          /\ seen' \in (IF guards = {} THEN {None} ELSE guards)
          /\ inspector' = TRUE
          /\ step' = "cleanup"
       \/ /\ inspector' \in {FALSE, Hyprctl}
          /\ step' = "giveup"
          /\ seen' = seen
    /\ UNCHANGED <<brokerVars, stage, had, touched, desktop, report>>

(* The deferred cleanup, whatever has failed before it. *)
RemoveInspector ==
    /\ step \in {"cleanup", "giveup"}
    /\ \/ /\ Hyprctl
          /\ inspector' = FALSE
          /\ \/ /\ Step("cleanup", "compare")
                /\ UNCHANGED <<brokerVars, stage, seen, had, touched, desktop, report>>
             \/ step = "giveup" /\ Fails({}) /\ UNCHANGED <<orphans, pipe, guardVars>>
       \/ /\ inspector' \in {FALSE, inspector}
          /\ Fails({"inspector"})
          /\ UNCHANGED <<orphans, pipe, guardVars>>

(* An agent's seat cannot be taken out of a running compositor, and the    *)
(* socket must be that of the guard that was inspected.                    *)
Refused ==
    \/ seen \in SeatBuilds /\ ~Unchanged
    \/ gsock # None /\ ~(Hyprctl /\ gsock \in guards /\ seen # None)

Compare ==
    /\ step = "compare"
    /\ \/ /\ ~Refused
          /\ step' = "find"
          /\ UNCHANGED <<brokerVars, stage, seen, had, touched, desktop, report>>
       \/ Refused /\ Fails({"untouched"}) /\ UNCHANGED <<orphans, pipe, guardVars>>
    /\ UNCHANGED inspector

Looks ==
    /\ step \in {"find", "compete"}
    /\ FindStep
    /\ UNCHANGED repairVars

Looked ==
    /\ step = "find"
    /\ stage # None
    /\ find \in {"found", "absent"}
    /\ had' = (find = "found")
    /\ step' = IF Unchanged THEN "status" ELSE IF had' THEN "signal" ELSE "lock"
    /\ UNCHANGED <<brokerVars, stage, seen, inspector, touched, desktop, report>>

StopLooked ==
    /\ step = "find"
    /\ stage = None
    /\ \/ /\ find = "found"
          /\ step' = "signal"
          /\ UNCHANGED <<brokerVars, stage, seen, had, touched, desktop, report>>
       \/ find = "absent" /\ Succeeds("start") /\ UNCHANGED <<orphans, pipe, guardVars>>
    /\ UNCHANGED inspector

(* The guard is current.  A broker that runs this executable too is left   *)
(* alone, and so is the desktop without a broker.                          *)
Status ==
    /\ step = "status"
    /\ gsock # None
    /\ \/ /\ had
          /\ step' = "signal"
          /\ UNCHANGED <<brokerVars, stage, seen, had, touched, desktop, report>>
       \/ had /\ pin.live /\ Succeeds("running") /\ UNCHANGED <<orphans, pipe, guardVars>>
       \/ ~had /\ Succeeds("start") /\ UNCHANGED <<orphans, pipe, guardVars>>
    /\ UNCHANGED inspector
-----------------------------------------------------------------------------
(* From here on something is touched.                                      *)

SignalBroker ==
    /\ Step("signal", "wait")
    /\ Signal
    /\ touched' = touched \cup {"broker"}
    /\ UNCHANGED <<stage, seen, inspector, had, desktop, report>>

Stopped ==
    /\ step = "wait"
    /\ ~pin.live
    /\ \/ /\ stage # None
          /\ step' = "lock"
          /\ UNCHANGED <<brokerVars, stage, seen, had, touched, desktop, report>>
       \/ stage = None /\ Succeeds("stopped") /\ UNCHANGED <<orphans, pipe, guardVars>>
    /\ UNCHANGED inspector

(* Ten seconds have passed; no kill. *)
DidNotStop ==
    /\ step = "wait"
    /\ Fails({"guard"})
    /\ UNCHANGED <<orphans, pipe, guardVars, inspector>>

(* Faulty: it goes on without the lock. *)
BadLock ==
    /\ Step("lock", "compete")
    /\ find' = "idle"
    /\ pin' = NoPin
    /\ UNCHANGED <<processVars, lockVars, guardVars,
                   stage, seen, inspector, had, touched, desktop, report>>

Lock ==
    /\ Step("lock", "compete")
    /\ lock = None
    /\ lock' = Setup
    /\ find' = "idle"
    /\ pin' = NoPin
    /\ UNCHANGED <<processVars, flock, sock, guardVars,
                   stage, seen, inspector, had, touched, desktop, report>>

Alone ==
    /\ step = "compete"
    /\ find = "absent"
    /\ step' = IF Unchanged THEN "publish" ELSE IF seen # None THEN "unload" ELSE "absent"
    /\ UNCHANGED <<brokerVars, stage, seen, inspector, had, touched, desktop, report>>

(* A broker that takes no lock has come back. *)
Competed ==
    /\ step = "compete"
    /\ find = "found"
    /\ Fails({"guard"})
    /\ UNCHANGED <<orphans, pipe, guardVars, inspector>>

(* pluginAction: an error says nothing about what the compositor has done. *)
Plugin(s, t, Effect) ==
    /\ step = s
    /\ Hyprctl
    /\ Effect
    /\ \/ /\ step' = t
          /\ touched' = touched \cup {"guard"}
          /\ UNCHANGED <<processVars, lockVars, findVars, stage, seen, had, desktop, report>>
       \/ Fails({}) /\ UNCHANGED <<orphans, pipe>>
    /\ UNCHANGED inspector

UnloadGuard == Plugin("unload", "absent", PluginExit(seen))
LoadGuard == Plugin("load", "present", PluginInit(stage))

(* Is the old one gone, the new one there, at our compositor, and ready?   *)
Observe(s, t, answer) ==
    /\ Step(s, t)
    /\ answer
    /\ UNCHANGED <<brokerVars, stage, seen, inspector, had, touched, desktop, report>>

GuardAbsent == Observe("absent", "load", Hyprctl /\ guards = {})
GuardPresent == Observe("present", "peer", Hyprctl /\ Cardinality(guards) = 1)
GuardPeer == Observe("peer", "ready", Hyprctl /\ gsock \in guards)
GuardReady == Observe("ready", "publish", gsock # None)

(* The build becomes the current one, and the lock is given back. *)
Publish ==
    /\ step = "publish"
    /\ \/ /\ had
          /\ step' = "spawn"
          /\ lock' = None
          /\ UNCHANGED <<processVars, flock, sock, guardVars, findVars,
                         stage, seen, had, touched, desktop, report>>
       \/ ~had /\ Succeeds("start") /\ UNCHANGED <<orphans, pipe, guardVars>>
    /\ UNCHANGED inspector

SpawnChild(p) ==
    /\ Step("spawn", "await")
    /\ Begin(p, "broker")
    /\ pipe' = [child |-> p, text |-> ""]
    /\ UNCHANGED <<ending, orphans, lockVars, guardVars, findVars,
                   stage, seen, inspector, had, touched, desktop, report>>

ChildReady ==
    /\ step = "await"
    /\ pipe.text = "ready"
    /\ pipe' = NoPipe
    /\ Succeeds("restarted")
    /\ UNCHANGED <<orphans, guardVars, inspector>>

(* Faulty: the child is left to start late. *)
BadKillChild ==
    /\ Step("await", "killed")
    /\ pipe.child # None
    /\ UNCHANGED <<brokerVars, stage, seen, inspector, had, touched, desktop, report>>

(* Fifteen seconds without a word: the child, and nothing else, is killed. *)
KillChild ==
    /\ Step("await", "killed")
    /\ pipe.child # None
    /\ Dies(pipe.child)
    /\ pipe' = [pipe EXCEPT !.child = None]
    /\ UNCHANGED <<guardVars, find, stage, seen, inspector, had, touched, desktop, report>>

(* The user is told to start the broker by hand. *)
ChildFails ==
    /\ \/ step = "killed"
       \/ step = "await" /\ pipe.text = "eof"
    /\ pipe' = NoPipe
    /\ Fails({"start"})
    /\ UNCHANGED <<orphans, guardVars, inspector>>

(* A call that fails, an answer that is not the wanted one, Ctrl-C. *)
CallFails ==
    /\ \/ step \in {"compare", "status", "signal", "wait", "lock", "publish", "spawn"} \cup Swapping
       \/ step \in {"find", "compete"} /\ find = "failed"
    /\ Fails({})
    /\ UNCHANGED <<orphans, pipe, guardVars, inspector>>
-----------------------------------------------------------------------------
CommandStep ==
    \/ (\E b \in Builds : SetupBegins(b)) \/ StopBegins
    \/ Inspect \/ RemoveInspector \/ Compare
    \/ Looks \/ Looked \/ StopLooked \/ Status
    \/ SignalBroker \/ Stopped \/ DidNotStop \/ Lock \/ Alone \/ Competed
    \/ UnloadGuard \/ GuardAbsent \/ LoadGuard \/ GuardPresent \/ GuardPeer \/ GuardReady
    \/ Publish \/ (\E p \in Pids : SpawnChild(p)) \/ ChildReady \/ KillChild \/ ChildFails
    \/ CallFails

ProcessStep ==
    /\ \E p \in Pids : ServeStep(p) \/ Crash(p) \/ Terminate(p) \/ (\E k \in Kinds : Spawn(p, k))
    /\ UNCHANGED repairVars

(* What becomes of the guards that an inspector has seen. *)
Becomes(d) ==
    desktop' = IF \/ step = "idle" \/ desktop = "restarted"
                  \/ step = "inspect" /\ d = "changed" THEN desktop ELSE d

GuardStep ==
    /\ \/ /\ \E b \in Builds : PluginInit(b) \/ PluginExit(b)
          /\ Becomes("changed")
          /\ UNCHANGED <<processVars, lockVars, findVars, inspector>>
       \/ CompositorEnds /\ Becomes("restarted") /\ inspector' = FALSE
    /\ UNCHANGED <<step, stage, seen, had, touched, report>>

Next == CommandStep \/ CommandDies \/ ProcessStep \/ GuardStep

Spec == Init /\ [][Next]_vars
=============================================================================
