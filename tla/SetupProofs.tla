---------------------------- MODULE SetupProofs ----------------------------
(***************************************************************************)
(* Proofs about the lifecycle of brokers and guards, for any number of     *)
(* processes and builds.                                                   *)
(***************************************************************************)
EXTENDS SetupProps, TLAPS

Pipes == [child : Pids \cup {None}, text : {"", "ready", "eof"}]

(* What a process is and where it is agree. *)
KindsMatch ==
    \A p \in Pids :
        /\ kind[p] = None <=> at[p] = "gone"
        /\ kind[p] = "other" <=> at[p] = "running"

(* From its locks on, a process holds them. *)
LocksHeld ==
    \A p \in Pids :
        /\ at[p] \in {"flocked"} \cup Listening => flock = p
        /\ kind[p] = "broker" /\ at[p] \in Starting \cup Listening /\ at[p] # "started" => lock = p

(* A pidfd that lives is of the process that has its pid, and of a broker  *)
(* once that was read while it lived.                                      *)
PinsAgree ==
    /\ pin.live => pin.pid \in Pids /\ kind[pin.pid] # None
    /\ pin.live /\ find \in {"read", "found"} => kind[pin.pid] \in Serve
    /\ find \in {"idle", "absent"} => pin = NoPin

(* The inductive invariant of brokers, locks, sockets and guards.          *)
BrokerInv ==
    /\ ProcessTypeOK
    /\ KindsMatch
    /\ LocksHeld
    /\ SocketReachesServer
    /\ SignalsReachBrokers
    /\ PinsAgree
    /\ OneGuard

LEMMA Apart == None \notin Pids /\ Setup \notin Pids /\ Stale \notin Pids /\ Setup # None
BY ProcessAssumption

LEMMA BrokersInit == Init => BrokerInv
<1> SUFFICES ASSUME ProcessInit PROVE BrokerInv
  BY DEF Init
<1> USE ProcessAssumption DEF ProcessInit
<1>1. ProcessTypeOK
  BY DEF ProcessTypeOK, NoPin, NoPipe, Phases, FindStates
<1>2. KindsMatch /\ LocksHeld /\ SocketReachesServer
  BY DEF KindsMatch, LocksHeld, SocketReachesServer, Listening, Starting, Serve, Kinds
<1>3. SignalsReachBrokers /\ PinsAgree /\ OneGuard
  BY DEF SignalsReachBrokers, PinsAgree, OneGuard, NoPin
<1> QED
  BY <1>1, <1>2, <1>3 DEF BrokerInv

LEMMA BrokersStay == BrokerInv /\ UNCHANGED brokerVars => BrokerInv'
BY DEF brokerVars, processVars, lockVars, guardVars, findVars, BrokerInv, ProcessTypeOK,
   KindsMatch, LocksHeld, SocketReachesServer, SignalsReachBrokers, PinsAgree, OneGuard, NoPin

(* A new process is under a pid that nobody has, and holds nothing. *)
LEMMA BeginKeeps ==
    ASSUME BrokerInv, NEW p \in Pids, NEW k \in Kinds, Begin(p, k), pipe' \in Pipes,
           UNCHANGED <<ending, orphans, lockVars, guardVars, findVars>>
    PROVE  BrokerInv'
<1> USE ProcessAssumption DEF BrokerInv
<1>1. ProcessTypeOK' /\ KindsMatch'
  BY DEF ProcessTypeOK, KindsMatch, Begin, Pipes, lockVars, guardVars, findVars, Phases, Starting,
     Listening, Kinds, Serve
<1>2. LocksHeld' /\ SocketReachesServer'
  BY DEF ProcessTypeOK, LocksHeld, SocketReachesServer, KindsMatch, Begin, lockVars, Listening,
     Starting, Kinds, Serve
<1>3. SignalsReachBrokers' /\ PinsAgree' /\ OneGuard'
  BY DEF ProcessTypeOK, SignalsReachBrokers, PinsAgree, OneGuard, Begin, guardVars, findVars,
     Kinds, Serve, NoPin
<1> QED
  BY <1>1, <1>2, <1>3

(* The end of a process frees its locks, and only its own. *)
LEMMA DiesKeeps ==
    ASSUME BrokerInv, NEW p \in Pids, Dies(p), pipe' \in Pipes, UNCHANGED <<guardVars, find>>
    PROVE  BrokerInv'
<1> USE ProcessAssumption DEF BrokerInv
<1>1. ProcessTypeOK' /\ KindsMatch'
  BY DEF ProcessTypeOK, KindsMatch, Dies, Without, Pipes, guardVars, Phases, Kinds, Serve
<1>2. LocksHeld' /\ SocketReachesServer'
  BY DEF ProcessTypeOK, LocksHeld, SocketReachesServer, KindsMatch, Dies, Without, Listening,
     Starting
<1>3. SignalsReachBrokers' /\ OneGuard'
  BY DEF ProcessTypeOK, SignalsReachBrokers, OneGuard, Dies, guardVars
<1>4. PinsAgree'
  <2>1. CASE pin.pid = p
    <3>1. find \notin {"idle", "absent"}
      BY <2>1, Apart DEF PinsAgree, NoPin
    <3>2. ~pin'.live /\ find' = find
      BY <2>1 DEF ProcessTypeOK, Dies
    <3> QED
      BY <3>1, <3>2 DEF PinsAgree
  <2>2. CASE pin.pid # p
    BY <2>2 DEF ProcessTypeOK, PinsAgree, Dies, NoPin
  <2> QED
    BY <2>1, <2>2
<1> QED
  BY <1>1, <1>2, <1>3, <1>4
-----------------------------------------------------------------------------
(* The steps of a "serve" process.                                         *)

(* A process goes on: what it takes was free, what it gives up was its own. *)
Moves(p, to) ==
    /\ to \in Phases \ {"gone", "running"}
    /\ at[p] \notin {"gone", "running"}
    /\ at' = [at EXCEPT ![p] = to]
    /\ pipe' \in Pipes
    /\ UNCHANGED <<kind, ending, orphans, guards, gsock, find, pin>>
    /\ lock' = lock \/ (lock = None /\ lock' = p)
    /\ flock' = flock \/ (flock = None /\ flock' = p)
    /\ sock' = sock \/ (flock' = p /\ sock' \in {p, None})
    /\ to \in {"flocked"} \cup Listening => flock' = p
    /\ to \in Listening => sock' = p
    /\ kind[p] = "broker" /\ to \in (Starting \cup Listening) \ {"started"} => lock' = p

LEMMA MoveKeeps ==
    ASSUME BrokerInv, NEW p \in Pids, NEW to, Moves(p, to)
    PROVE  BrokerInv'
<1> USE DEF BrokerInv, Moves
<1>1. \A q \in Pids : at'[q] = IF q = p THEN to ELSE at[q]
  BY DEF ProcessTypeOK
<1>2. ProcessTypeOK'
  BY DEF ProcessTypeOK, Pipes
<1>3. KindsMatch'
  BY <1>1 DEF KindsMatch
<1>4. LocksHeld'
  <2> SUFFICES ASSUME NEW q \in Pids
               PROVE  /\ at'[q] \in {"flocked"} \cup Listening => flock' = q
                      /\ kind[q] = "broker" /\ at'[q] \in Starting \cup Listening
                             /\ at'[q] # "started" => lock' = q
    BY DEF LocksHeld
  <2>1. CASE q = p
    BY <1>1, <2>1
  <2>2. CASE q # p
    BY <1>1, <2>2, Apart DEF LocksHeld
  <2> QED
    BY <2>1, <2>2
<1>5. SocketReachesServer'
  <2> SUFFICES ASSUME NEW q \in Pids, at'[q] \in Listening
               PROVE  sock' = q
    BY DEF SocketReachesServer
  <2>1. CASE q = p
    BY <1>1, <2>1
  <2>2. CASE q # p
    <3>1. at[q] \in Listening /\ sock = q /\ flock = q
      BY <1>1, <2>2 DEF SocketReachesServer, LocksHeld
    <3> QED
      BY <3>1, <2>2, Apart
  <2> QED
    BY <2>1, <2>2
<1>6. SignalsReachBrokers' /\ PinsAgree' /\ OneGuard'
  BY DEF SignalsReachBrokers, PinsAgree, OneGuard, NoPin
<1> QED
  BY <1>2, <1>3, <1>4, <1>5, <1>6

LEMMA ServeMoves ==
    ASSUME BrokerInv, NEW p \in Pids,
           \/ TakeLock(p) \/ Connect(p) \/ TakeFlock(p) \/ Listen(p)
           \/ Ready(p) \/ StartFails(p) \/ LeaveServing(p) \/ Unlink(p)
    PROVE  BrokerInv'
<1>1. /\ pipe \in Pipes
      /\ at[p] \in {"flocked"} \cup Listening => flock = p
      /\ at[p] \in Listening => sock = p
      /\ kind[p] = "broker" /\ at[p] \in (Starting \cup Listening) \ {"started"} => lock = p
  BY DEF BrokerInv, ProcessTypeOK, Pipes, LocksHeld, SocketReachesServer
<1> USE DEF Go, lockVars, guardVars, findVars, Starting, Listening, Phases
<1>2. CASE TakeLock(p)
  <2>1. Moves(p, "locked")
    BY <1>1, <1>2 DEF Moves, TakeLock
  <2> QED
    BY <2>1, MoveKeeps
<1>3. CASE Connect(p)
  <2>1. Moves(p, "connected")
    BY <1>1, <1>3 DEF Moves, Connect
  <2> QED
    BY <2>1, MoveKeeps
<1>4. CASE TakeFlock(p)
  <2>1. Moves(p, "flocked")
    BY <1>1, <1>4 DEF Moves, TakeFlock
  <2> QED
    BY <2>1, MoveKeeps
<1>5. CASE Listen(p)
  <2>1. Moves(p, "listening")
    BY <1>1, <1>5 DEF Moves, Listen
  <2> QED
    BY <2>1, MoveKeeps
<1>6. CASE Ready(p)
  <2>1. Moves(p, "serving")
    BY <1>1, <1>6 DEF Moves, Ready, Pipes
  <2> QED
    BY <2>1, MoveKeeps
<1>7. CASE LeaveServing(p)
  <2>1. Moves(p, "closing")
    BY <1>1, <1>7 DEF Moves, LeaveServing
  <2> QED
    BY <2>1, MoveKeeps
<1>8. CASE Unlink(p)
  <2>1. Moves(p, "unlinked")
    BY <1>1, <1>8 DEF Moves, Unlink
  <2> QED
    BY <2>1, MoveKeeps
<1>9. CASE StartFails(p)
  <2>1. Moves(p, "closing") \/ Moves(p, "unlinked")
    BY <1>1, <1>9 DEF Moves, StartFails
  <2> QED
    BY <2>1, MoveKeeps
<1> QED
  BY <1>2, <1>3, <1>4, <1>5, <1>6, <1>7, <1>8, <1>9

LEMMA PipeEndsTyped ==
    ASSUME ProcessTypeOK, NEW p \in Pids, PipeEnds(p)
    PROVE  pipe' \in Pipes
BY DEF ProcessTypeOK, PipeEnds, Pipes

LEMMA ServeKeeps ==
    ASSUME BrokerInv, NEW p \in Pids, ServeStep(p) \/ Crash(p)
    PROVE  BrokerInv'
<1>1. CASE Exit(p) \/ Crash(p)
  BY <1>1, DiesKeeps, PipeEndsTyped DEF Exit, Crash, BrokerInv
<1> QED
  BY <1>1, ServeMoves DEF ServeStep

LEMMA SpawnKeeps ==
    ASSUME BrokerInv, NEW p \in Pids, NEW k \in Kinds, Spawn(p, k)
    PROVE  BrokerInv'
BY BeginKeeps DEF Spawn, BrokerInv, ProcessTypeOK, Pipes

LEMMA TerminateKeeps ==
    ASSUME BrokerInv, NEW p \in Pids, Terminate(p)
    PROVE  BrokerInv'
<1> USE DEF BrokerInv, Terminate
<1>1. SignalsReachBrokers' /\ ending' \subseteq Pids
  BY DEF SignalsReachBrokers, ProcessTypeOK
<1>2. ProcessTypeOK'
  BY <1>1 DEF ProcessTypeOK, lockVars, guardVars, findVars
<1>3. KindsMatch' /\ LocksHeld' /\ SocketReachesServer'
  BY DEF KindsMatch, LocksHeld, SocketReachesServer, lockVars
<1>4. PinsAgree' /\ OneGuard'
  BY DEF PinsAgree, OneGuard, NoPin, guardVars, findVars
<1> QED
  BY <1>1, <1>2, <1>3, <1>4
-----------------------------------------------------------------------------
(* What a command does to brokers.                                         *)

LEMMA FindKeeps ==
    ASSUME BrokerInv, FindStep
    PROVE  BrokerInv'
<1> USE DEF BrokerInv
<1>1. UNCHANGED <<processVars, lockVars, guardVars>>
  BY DEF FindStep, Dial, OpenPidfd, ReadProc, Confirm, FindFails
<1>2. /\ kind' = kind
      /\ find' \in FindStates
      /\ pin' \in [pid : Pids \cup {None}, live : BOOLEAN]
      /\ find' \in {"dialled", "pinned", "read", "found"} => pin'.pid \in Pids
      /\ PinsAgree'
  <2>1. kind' = kind
    BY <1>1 DEF processVars
  <2>2. CASE Dial
    <3>1. CASE sock \in Pids
      <4>1. /\ find' = "dialled" /\ pin' = [pid |-> sock, live |-> FALSE]
        BY <2>2, <3>1, ProcessAssumption DEF Dial, Find
      <4>2. pin'.pid = sock /\ ~pin'.live
        BY <4>1
      <4> QED
        BY <2>1, <3>1, <4>1, <4>2 DEF PinsAgree, FindStates
    <3>2. CASE sock \notin Pids
      <4>1. find = "idle" /\ find' = "absent" /\ pin' = pin
        BY <2>2, <3>2 DEF Dial, Find
      <4> QED
        BY <2>1, <4>1 DEF ProcessTypeOK, PinsAgree, FindStates, NoPin
    <3> QED
      BY <3>1, <3>2
  <2>3. CASE OpenPidfd
    <3>1. pin' = [pid |-> pin.pid, live |-> TRUE]
      BY <2>3 DEF OpenPidfd, ProcessTypeOK
    <3> QED
      BY <2>1, <2>3, <3>1 DEF OpenPidfd, Find, ProcessTypeOK, PinsAgree, NoPin, FindStates
  <2>4. CASE ReadProc
    BY <2>1, <2>4 DEF ReadProc, Find, ProcessTypeOK, PinsAgree, NoPin, FindStates
  <2>5. CASE Confirm
    BY <2>1, <2>5 DEF Confirm, Find, ProcessTypeOK, PinsAgree, NoPin, FindStates
  <2>6. CASE FindFails
    BY <2>1, <2>6 DEF FindFails, ProcessTypeOK, PinsAgree, NoPin, FindStates
  <2> QED
    BY <2>1, <2>2, <2>3, <2>4, <2>5, <2>6 DEF FindStep
<1> QED
  BY <1>1, <1>2 DEF ProcessTypeOK, KindsMatch, LocksHeld, SocketReachesServer,
     SignalsReachBrokers, OneGuard, processVars, lockVars, guardVars

(* The pidfd is of a broker, or of nobody. *)
LEMMA SignalKeeps ==
    ASSUME BrokerInv, Signal
    PROVE  BrokerInv'
<1> USE DEF BrokerInv
<1>1. SignalsReachBrokers'
  BY DEF Signal, PinsAgree, SignalsReachBrokers
<1> QED
  BY <1>1 DEF Signal, ProcessTypeOK, KindsMatch, LocksHeld, SocketReachesServer,
     PinsAgree, OneGuard, NoPin, lockVars, guardVars, findVars

(* A guard comes or goes at most: there is one, where the socket is. *)
GuardsMove == UNCHANGED guardVars \/ \E b \in Builds : PluginInit(b) \/ PluginExit(b)

LEMMA OneGuardMoves ==
    ASSUME BrokerInv, GuardsMove
    PROVE  OneGuard' /\ guards' \subseteq Builds /\ gsock' \in Builds \cup {None}
BY ProcessAssumption
DEF BrokerInv, ProcessTypeOK, OneGuard, GuardsMove, guardVars, PluginInit, PluginExit, Without

(* The end of a command gives back what it holds. *)
LEMMA EndsKeeps ==
    ASSUME BrokerInv, NEW answer, Ends(answer), orphans' \subseteq Pids, pipe' \in Pipes,
           GuardsMove
    PROVE  BrokerInv'
<1> USE OneGuardMoves DEF BrokerInv, Ends
<1>1. ProcessTypeOK' /\ PinsAgree'
  BY DEF ProcessTypeOK, PinsAgree, NoPin, Without, Pipes, FindStates
<1>2. LocksHeld'
  BY Apart DEF LocksHeld, Without
<1> QED
  BY <1>1, <1>2 DEF KindsMatch, SocketReachesServer, SignalsReachBrokers

LEMMA LockKeeps ==
    ASSUME BrokerInv, Lock
    PROVE  BrokerInv'
<1> USE DEF BrokerInv, Lock
<1>1. ProcessTypeOK' /\ PinsAgree'
  BY DEF ProcessTypeOK, PinsAgree, NoPin, processVars, guardVars, FindStates
<1>2. LocksHeld'
  BY Apart DEF LocksHeld, processVars
<1> QED
  BY <1>1, <1>2 DEF KindsMatch, SocketReachesServer, SignalsReachBrokers, OneGuard, processVars,
     guardVars

LEMMA GuardsKeep ==
    ASSUME BrokerInv, UNCHANGED <<processVars, lockVars, findVars>>, GuardsMove
    PROVE  BrokerInv'
<1> USE DEF BrokerInv, processVars, lockVars, findVars
<1>1. ProcessTypeOK' /\ OneGuard'
  BY OneGuardMoves DEF ProcessTypeOK
<1>2. KindsMatch' /\ LocksHeld' /\ SocketReachesServer'
  BY DEF KindsMatch, LocksHeld, SocketReachesServer
<1>3. SignalsReachBrokers' /\ PinsAgree'
  BY DEF SignalsReachBrokers, PinsAgree, NoPin
<1> QED
  BY <1>1, <1>2, <1>3

LEMMA CompositorKeeps ==
    ASSUME BrokerInv, CompositorEnds
    PROVE  BrokerInv'
<1> USE DEF BrokerInv, CompositorEnds
<1>1. SignalsReachBrokers'
  BY DEF SignalsReachBrokers, KindsMatch, ProcessTypeOK, Connected, Listening, Kinds, Serve
<1> QED
  BY <1>1 DEF ProcessTypeOK, KindsMatch, LocksHeld, SocketReachesServer, OneGuard,
     PinsAgree, NoPin, lockVars, findVars
-----------------------------------------------------------------------------
(* What a command knows.                                                   *)

CommandTypeOK ==
    /\ step \in Steps
    /\ stage \in Builds \cup {None}
    /\ seen \in Builds \cup {None}
    /\ inspector \in BOOLEAN
    /\ had \in BOOLEAN
    /\ touched \subseteq {"broker", "guard"}
    /\ desktop \in {"same", "changed", "restarted"}
    /\ report \in [ok : BOOLEAN, says : SUBSET Claims] \cup {None}

Inspecting == {"inspect", "cleanup", "giveup"}
Committed == {"publish"} \cup Swapping      \* alone, with broker.lock
Restarting == {"spawn", "await", "killed"}

(* What it has staged, acted on and left behind, by where it is. *)
ActedOn ==
    /\ step = "idle" => stage = None
    /\ step \notin {"idle", "find", "signal", "wait"} => stage # None
    /\ step \in Inspecting \cup {"idle", "compare", "find", "status", "signal"} => touched = {}
    /\ step \in {"wait", "lock", "compete"} => "guard" \notin touched
    /\ "broker" \in touched => had \/ stage = None
    /\ step = "signal" => had \/ stage = None
    /\ stage # None /\ inspector => step \in Inspecting

(* What its searches for a broker have found, and the child it waits for. *)
Found ==
    /\ step \in Inspecting \cup {"idle", "compare"} => find = "idle"
    /\ step = "status" => find \in {"found", "absent"} /\ had = (find = "found")
    /\ step \in Committed \cup Restarting => find = "absent"
    /\ step \in {"compete"} \cup Committed => lock = Setup
    /\ pipe.child # None => step = "await" /\ pipe.text # "eof"

(* Where the guards are that it has seen, unless others have changed them. *)
GuardsKnown ==
    desktop = "same" /\ stage # None =>
        /\ step \in {"cleanup", "compare", "find", "status", "signal", "wait", "lock", "compete",
                     "unload"} => guards = {seen} \ {None}
        /\ step = "status" => seen = stage
        /\ step \in {"absent", "load"} => guards = {}
        /\ step \in {"present", "peer", "ready", "publish"} \cup Restarting => guards = {stage}

CommandInv == CommandTypeOK /\ ActedOn /\ Found /\ GuardsKnown

SetupInv == BrokerInv /\ CommandInv

LEMMA NoPipeTyped == NoPipe \in Pipes /\ NoPipe.child = None
BY DEF NoPipe, Pipes

LEMMA CommandInit == Init => CommandInv
<1> SUFFICES ASSUME Init PROVE CommandInv
  OBVIOUS
<1> USE DEF Init, Inspecting, Committed, Restarting, Swapping, Steps
<1>1. CommandTypeOK
  BY DEF CommandTypeOK
<1>2. ActedOn /\ Found /\ GuardsKnown
  BY NoPipeTyped DEF ActedOn, Found, GuardsKnown, ProcessInit
<1> QED
  BY <1>1, <1>2 DEF CommandInv

(* A command that has ended knows nothing. *)
LEMMA EndsForgets ==
    ASSUME SetupInv, NEW answer \in [ok : BOOLEAN, says : SUBSET Claims] \cup {None}, Ends(answer),
           inspector' \in BOOLEAN, pipe'.child = None
    PROVE  CommandInv'
<1> USE DEF Ends, Inspecting, Committed, Restarting, Swapping, Steps
<1>1. CommandTypeOK'
  BY DEF CommandTypeOK
<1>2. ActedOn' /\ Found' /\ GuardsKnown'
  BY DEF ActedOn, Found, GuardsKnown
<1> QED
  BY <1>1, <1>2 DEF CommandInv

LEMMA FailsEnds ==
    ASSUME SetupInv, NEW claims \in SUBSET Claims, Fails(claims), UNCHANGED orphans, GuardsMove,
           inspector' \in BOOLEAN, pipe' = pipe \/ pipe' = NoPipe, step # "await" \/ pipe' = NoPipe
    PROVE  SetupInv'
<1> DEFINE answer == [ok |-> FALSE, says |-> Says(claims)]
<1>1. answer \in [ok : BOOLEAN, says : SUBSET Claims]
  BY DEF Says, Claims
<1>2. pipe' \in Pipes /\ orphans' \subseteq Pids
  BY NoPipeTyped DEF SetupInv, BrokerInv, ProcessTypeOK, Pipes
<1>3. pipe'.child = None
  BY NoPipeTyped DEF SetupInv, CommandInv, Found
<1>4. Ends(answer)
  BY DEF Fails
<1> HIDE DEF answer
<1> QED
  BY <1>1, <1>2, <1>3, <1>4, EndsForgets, EndsKeeps DEF SetupInv

LEMMA SucceedsEnds ==
    ASSUME SetupInv, NEW claim \in Claims, Succeeds(claim), UNCHANGED <<orphans, guardVars>>,
           inspector' \in BOOLEAN, pipe' = pipe \/ pipe' = NoPipe, step # "await" \/ pipe' = NoPipe
    PROVE  SetupInv'
<1> DEFINE answer == [ok |-> TRUE, says |-> {claim}]
<1>1. answer \in [ok : BOOLEAN, says : SUBSET Claims]
  OBVIOUS
<1>2. pipe' \in Pipes /\ orphans' \subseteq Pids
  BY NoPipeTyped DEF SetupInv, BrokerInv, ProcessTypeOK, Pipes
<1>3. pipe'.child = None
  BY NoPipeTyped DEF SetupInv, CommandInv, Found
<1>4. Ends(answer)
  BY DEF Succeeds
<1> HIDE DEF answer
<1> QED
  BY <1>1, <1>2, <1>3, <1>4, EndsForgets, EndsKeeps DEF SetupInv, GuardsMove

LEMMA CommandDiesKeeps == SetupInv /\ CommandDies => SetupInv'
<1> SUFFICES ASSUME SetupInv, CommandDies PROVE SetupInv'
  OBVIOUS
<1>1. /\ Ends(None) /\ UNCHANGED <<guardVars, inspector>>
      /\ pipe' \in Pipes /\ pipe'.child = None /\ orphans' \subseteq Pids /\ inspector' \in BOOLEAN
  BY DEF SetupInv, BrokerInv, ProcessTypeOK, CommandInv, CommandTypeOK, CommandDies, Pipes, NoPipe
<1> QED
  BY <1>1, EndsForgets, EndsKeeps DEF SetupInv, GuardsMove

(* Whatever processes do, a command's locks, searches and child are its own. *)
LEMMA ProcessesKeep ==
    ASSUME SetupInv, ProcessStep
    PROVE  SetupInv'
<1> PICK p \in Pids : ServeStep(p) \/ Crash(p) \/ Terminate(p) \/ (\E k \in Kinds : Spawn(p, k))
  BY DEF ProcessStep
<1>1. BrokerInv'
  BY ServeKeeps, TerminateKeeps, SpawnKeeps DEF SetupInv
<1>2. UNCHANGED <<guards, find>> /\ UNCHANGED repairVars /\ (lock = Setup => lock' = Setup)
  BY ProcessAssumption
  DEF ProcessStep, ServeStep, TakeLock, Connect, TakeFlock, Listen, Ready, StartFails, LeaveServing,
      Unlink, Exit, Crash, Terminate, Spawn, Dies, Without, guardVars, lockVars, findVars
<1>3. pipe'.child # None => pipe'.child = pipe.child /\ (pipe'.text = "eof" => pipe.text = "eof")
  <2>1. CASE Ready(p)
    BY <2>1 DEF Ready, SetupInv, BrokerInv, ProcessTypeOK
  <2>2. CASE Exit(p) \/ Crash(p)
    <3>1. PipeEnds(p)
      BY <2>2 DEF Exit, Crash
    <3>2. pipe' = pipe \/ pipe'.child = None
      BY <3>1 DEF PipeEnds
    <3> QED
      BY <3>2
  <2>3. CASE pipe' = pipe
    BY <2>3
  <2> QED
    BY <2>1, <2>2, <2>3
    DEF ServeStep, TakeLock, Connect, TakeFlock, Listen, StartFails, LeaveServing, Unlink,
        Terminate, Spawn
<1>4. CommandInv'
  BY <1>2, <1>3 DEF SetupInv, CommandInv, CommandTypeOK, ActedOn, Found, GuardsKnown, repairVars
<1> QED
  BY <1>1, <1>4 DEF SetupInv

(* Others are free with the guards, and then the command knows nothing. *)
LEMMA GuardsOfOthersKeep ==
    ASSUME SetupInv, GuardStep
    PROVE  SetupInv'
<1>1. BrokerInv'
  BY GuardsKeep, CompositorKeeps DEF GuardStep, GuardsMove, SetupInv
<1>2. UNCHANGED <<step, stage, seen, had, touched, report, pipe, lock, find>>
  BY DEF GuardStep, CompositorEnds, processVars, lockVars, findVars
<1>3. /\ inspector' \in BOOLEAN
      /\ inspector' => inspector
      /\ desktop' \in {"same", "changed", "restarted"}
      /\ step \in {"idle", "inspect"} \/ desktop' # "same"
  <2>1. inspector \in BOOLEAN /\ desktop \in {"same", "changed", "restarted"}
    BY DEF SetupInv, CommandInv, CommandTypeOK
  <2>2. inspector' = inspector \/ inspector' = FALSE
    BY DEF GuardStep
  <2>3. Becomes("changed") \/ Becomes("restarted")
    BY DEF GuardStep
  <2>4. /\ desktop' \in {desktop, "changed", "restarted"}
        /\ step \in {"idle", "inspect"} \/ desktop' # "same"
    BY <2>1, <2>3 DEF Becomes
  <2>5. inspector' \in BOOLEAN /\ (inspector' => inspector)
    <3>1. CASE inspector' = inspector
      BY <2>1, <3>1
    <3>2. CASE inspector' = FALSE
      BY <3>2
    <3> QED
      BY <2>2, <3>1, <3>2
  <2> QED
    BY <2>1, <2>4, <2>5
<1>4. CommandTypeOK' /\ ActedOn' /\ Found'
  <2>1. CommandTypeOK'
    BY <1>2, <1>3 DEF SetupInv, CommandInv, CommandTypeOK
  <2>2. ActedOn'
    BY <1>2, <1>3 DEF SetupInv, CommandInv, ActedOn
  <2>3. Found'
    BY <1>2 DEF SetupInv, CommandInv, Found
  <2> QED
    BY <2>1, <2>2, <2>3
<1>5. GuardsKnown'
  BY <1>2, <1>3 DEF SetupInv, CommandInv, ActedOn, GuardsKnown, Inspecting, Committed, Restarting,
     Swapping
<1> QED
  BY <1>1, <1>4, <1>5 DEF SetupInv, CommandInv
-----------------------------------------------------------------------------
(* The steps of a command that leave brokers alone.                        *)

LEMMA InspectionKeeps ==
    ASSUME SetupInv,
           \/ \E b \in Builds : SetupBegins(b)
           \/ StopBegins \/ Inspect \/ RemoveInspector \/ Compare
    PROVE  SetupInv'
<1> USE ProcessAssumption DEF CommandInv, Inspecting, Committed, Restarting, Swapping
<1>1. ASSUME UNCHANGED brokerVars
      PROVE  BrokerInv' /\ UNCHANGED <<guards, find, lock, pipe>>
  BY <1>1, BrokersStay DEF SetupInv, brokerVars, processVars, lockVars, guardVars, findVars
<1>2. ASSUME NEW b \in Builds, SetupBegins(b) PROVE SetupInv'
  BY <1>1, <1>2 DEF SetupInv, SetupBegins, Step, CommandTypeOK, ActedOn, Found, GuardsKnown, Steps
<1>3. CASE StopBegins
  BY <1>1, <1>3 DEF SetupInv, StopBegins, Step, CommandTypeOK, ActedOn, Found, GuardsKnown, Steps
<1>4. CASE Inspect
  <2>1. /\ UNCHANGED brokerVars
        /\ UNCHANGED <<stage, had, touched, desktop, report>>
        /\ step = "inspect"
    BY <1>4 DEF Inspect
  <2>2. /\ inspector' \in BOOLEAN
        /\ seen' \in Builds \cup {None}
        /\ \/ step' = "giveup"
           \/ step' = "cleanup" /\ guards = {seen'} \ {None}
    <3>1. guards = {gsock} \ {None} /\ gsock \in Builds \cup {None} /\ seen \in Builds \cup {None}
      BY DEF SetupInv, BrokerInv, ProcessTypeOK, OneGuard, CommandTypeOK
    <3>2. /\ inspector' \in BOOLEAN
          /\ \/ step' = "giveup" /\ seen' = seen
             \/ step' = "cleanup" /\ seen' \in (IF guards = {} THEN {None} ELSE guards)
      BY <1>4 DEF Inspect, Hyprctl
    <3> QED
      BY <3>1, <3>2
  <2> QED
    BY <1>1, <2>1, <2>2 DEF SetupInv, CommandTypeOK, ActedOn, Found, GuardsKnown, Steps
<1>5. CASE RemoveInspector
  <2>1. inspector' \in BOOLEAN /\ step # "await"
    BY <1>5 DEF RemoveInspector, SetupInv, CommandTypeOK
  <2>2. ASSUME NEW claims \in {{}, {"inspector"}}, Fails(claims)
        PROVE  SetupInv'
    <3>1. UNCHANGED <<orphans, pipe, guardVars>> /\ claims \in SUBSET Claims
      BY <1>5, <2>2 DEF RemoveInspector, Step, Fails, Ends, Claims
    <3> QED
      BY <2>1, <2>2, <3>1, FailsEnds DEF GuardsMove
  <2>3. CASE Step("cleanup", "compare")
    BY <1>1, <1>5, <2>3
    DEF SetupInv, RemoveInspector, Step, CommandTypeOK, ActedOn, Found, GuardsKnown, Steps, Fails,
        Ends
  <2> QED
    BY <1>5, <2>2, <2>3 DEF RemoveInspector
<1>6. CASE Compare
  <2>1. CASE Fails({"untouched"})
    BY <1>6, <2>1, FailsEnds DEF GuardsMove, Compare, Claims, SetupInv, CommandTypeOK, Fails, Ends
  <2>2. CASE step' = "find"
    BY <1>1, <1>6, <2>2
    DEF SetupInv, Compare, CommandTypeOK, ActedOn, Found, GuardsKnown, Steps, Fails, Ends
  <2> QED
    BY <1>6, <2>1, <2>2 DEF Compare
<1> QED
  BY <1>2, <1>3, <1>4, <1>5, <1>6

LEMMA SearchKeeps ==
    ASSUME SetupInv, Looks \/ Looked \/ StopLooked \/ Status
    PROVE  SetupInv'
<1> USE ProcessAssumption DEF CommandInv, Inspecting, Committed, Restarting, Swapping
<1>1. ASSUME UNCHANGED brokerVars
      PROVE  BrokerInv' /\ UNCHANGED <<guards, find, lock, pipe>>
  BY <1>1, BrokersStay DEF SetupInv, brokerVars, processVars, lockVars, guardVars, findVars
<1>2. CASE Looks
  <2>1. BrokerInv'
    BY <1>2, FindKeeps DEF Looks, SetupInv
  <2>2. UNCHANGED <<guards, lock, pipe>> /\ UNCHANGED repairVars /\ step \in {"find", "compete"}
    BY <1>2 DEF Looks, FindStep, Dial, OpenPidfd, ReadProc, Confirm, FindFails, processVars, lockVars,
       guardVars
  <2> QED
    BY <2>1, <2>2 DEF SetupInv, CommandTypeOK, ActedOn, Found, GuardsKnown, repairVars
<1>3. CASE Looked
  <2>1. /\ UNCHANGED brokerVars
        /\ UNCHANGED <<stage, seen, inspector, touched, desktop, report>>
        /\ step = "find" /\ stage # None /\ find \in {"found", "absent"}
        /\ had' \in BOOLEAN /\ had' = (find = "found")
    BY <1>3 DEF Looked
  <2>2. /\ step' \in {"status", "signal", "lock"}
        /\ step' = "status" => seen = stage
        /\ step' = "signal" => had'
    BY <1>3 DEF Looked, Unchanged
  <2> QED
    BY <1>1, <2>1, <2>2 DEF SetupInv, CommandTypeOK, ActedOn, Found, GuardsKnown, Steps
<1>4. CASE StopLooked
  <2>1. CASE Succeeds("start")
    BY <1>4, <2>1, SucceedsEnds
    DEF StopLooked, Claims, SetupInv, CommandTypeOK, Succeeds, Ends
  <2>2. CASE step' = "signal"
    BY <1>1, <1>4, <2>2
    DEF SetupInv, StopLooked, CommandTypeOK, ActedOn, Found, GuardsKnown, Steps, Succeeds, Ends
  <2> QED
    BY <1>4, <2>1, <2>2 DEF StopLooked
<1>5. CASE Status
  <2>1. ASSUME NEW claim \in {"start", "running"}, Succeeds(claim)
        PROVE  SetupInv'
    <3>1. UNCHANGED <<orphans, pipe, guardVars, inspector>> /\ step = "status"
      BY <1>5, <2>1 DEF Status, Succeeds, Ends
    <3> QED
      BY <2>1, <3>1, SucceedsEnds DEF Claims, SetupInv, CommandTypeOK
  <2>2. CASE step' = "signal"
    <3>1. /\ step = "status" /\ had
          /\ UNCHANGED brokerVars
          /\ UNCHANGED <<stage, seen, inspector, had, touched, desktop, report>>
      BY <1>5, <2>2 DEF Status, Succeeds, Ends
    <3> QED
      BY <1>1, <2>2, <3>1 DEF SetupInv, CommandTypeOK, ActedOn, Found, GuardsKnown, Steps
  <2> QED
    BY <1>5, <2>1, <2>2 DEF Status
<1> QED
  BY <1>2, <1>3, <1>4, <1>5
-----------------------------------------------------------------------------
(* The steps of a command that touch something.                            *)

LEMMA StoppingKeeps ==
    ASSUME SetupInv, SignalBroker \/ Stopped \/ DidNotStop \/ Lock \/ Alone \/ Competed
    PROVE  SetupInv'
<1> USE ProcessAssumption DEF CommandInv, Inspecting, Committed, Restarting, Swapping
<1>1. ASSUME UNCHANGED brokerVars
      PROVE  BrokerInv' /\ UNCHANGED <<guards, find, lock, pipe>>
  BY <1>1, BrokersStay DEF SetupInv, brokerVars, processVars, lockVars, guardVars, findVars
<1>2. CASE SignalBroker
  <2>1. BrokerInv'
    BY <1>2, SignalKeeps DEF SignalBroker, SetupInv
  <2> QED
    BY <1>2, <2>1 DEF SetupInv, SignalBroker, Signal, Step, lockVars, guardVars, findVars,
       CommandTypeOK, ActedOn, Found, GuardsKnown, Steps
<1>3. CASE Stopped
  <2>1. CASE Succeeds("stopped")
    <3>1. UNCHANGED <<orphans, pipe, guardVars, inspector>> /\ step = "wait"
      BY <1>3, <2>1 DEF Stopped, Succeeds, Ends
    <3> QED
      BY <2>1, <3>1, SucceedsEnds DEF Claims, SetupInv, CommandTypeOK
  <2>2. CASE step' = "lock"
    <3>1. /\ UNCHANGED brokerVars
          /\ UNCHANGED <<stage, seen, inspector, had, touched, desktop, report>>
          /\ step = "wait" /\ stage # None
      BY <1>3, <2>2 DEF Stopped, Succeeds, Ends
    <3>2. BrokerInv' /\ UNCHANGED <<guards, find, lock, pipe>>
      BY <1>1, <3>1
    <3>3. CommandTypeOK'
      <4>1. step' \in Steps
        BY <2>2 DEF Steps
      <4> QED
        BY <3>1, <4>1 DEF SetupInv, CommandTypeOK
    <3>4. ActedOn'
      BY <2>2, <3>1 DEF SetupInv, CommandTypeOK, ActedOn
    <3>5. Found'
      BY <2>2, <3>1, <3>2 DEF SetupInv, CommandTypeOK, Found
    <3>6. GuardsKnown'
      BY <2>2, <3>1, <3>2 DEF SetupInv, GuardsKnown
    <3> QED
      BY <3>2, <3>3, <3>4, <3>5, <3>6 DEF SetupInv
  <2> QED
    BY <1>3, <2>1, <2>2 DEF Stopped
<1>4. CASE DidNotStop
  BY <1>4, FailsEnds DEF GuardsMove, DidNotStop, Claims, SetupInv, CommandTypeOK
<1>5. CASE Lock
  <2>1. BrokerInv'
    BY <1>5, LockKeeps DEF SetupInv
  <2> QED
    BY <1>5, <2>1 DEF SetupInv, Lock, Step, processVars, guardVars, CommandTypeOK, ActedOn, Found,
       GuardsKnown, Steps
<1>6. CASE Alone
  <2>1. /\ UNCHANGED brokerVars
        /\ UNCHANGED <<stage, seen, inspector, had, touched, desktop, report>>
        /\ step = "compete" /\ find = "absent"
    BY <1>6 DEF Alone
  <2>2. \/ step' = "publish" /\ seen = stage
        \/ step' = "unload"
        \/ step' = "absent" /\ seen = None
    BY <1>6 DEF Alone, Unchanged
  <2> QED
    BY <1>1, <2>1, <2>2 DEF SetupInv, CommandTypeOK, ActedOn, Found, GuardsKnown, Steps
<1>7. CASE Competed
  BY <1>7, FailsEnds DEF GuardsMove, Competed, Claims, SetupInv, CommandTypeOK
<1> QED
  BY <1>2, <1>3, <1>4, <1>5, <1>6, <1>7

(* One of the two calls that change the guards. *)
LEMMA PluginKeeps ==
    ASSUME SetupInv, UnloadGuard \/ LoadGuard
    PROVE  SetupInv'
<1> USE ProcessAssumption DEF CommandInv, Inspecting, Committed, Restarting, Swapping
<1>1. GuardsMove /\ UNCHANGED inspector /\ step \in {"unload", "load"}
  <2>1. CASE UnloadGuard
    <3>1. PluginExit(seen) /\ seen \in Builds
      BY <2>1 DEF UnloadGuard, Plugin, PluginExit, SetupInv, BrokerInv, ProcessTypeOK
    <3> QED
      BY <2>1, <3>1 DEF UnloadGuard, Plugin, GuardsMove
  <2>2. CASE LoadGuard
    <3>1. PluginInit(stage) /\ stage \in Builds
      BY <2>2 DEF LoadGuard, Plugin, SetupInv, CommandTypeOK, ActedOn
    <3> QED
      BY <2>2, <3>1 DEF LoadGuard, Plugin, GuardsMove
  <2> QED
    BY <2>1, <2>2
<1>2. CASE Fails({})
  <2>1. UNCHANGED <<orphans, pipe>>
    BY <1>2 DEF UnloadGuard, LoadGuard, Plugin, Fails, Ends
  <2> QED
    BY <1>1, <1>2, <2>1, FailsEnds DEF Claims, SetupInv, CommandTypeOK
<1>3. ASSUME UNCHANGED <<processVars, lockVars, findVars, stage, seen, had, desktop, report>>,
             touched' = touched \cup {"guard"},
             \/ step = "unload" /\ step' = "absent" /\ PluginExit(seen)
             \/ step = "load" /\ step' = "present" /\ PluginInit(stage)
      PROVE  SetupInv'
  <2>1. BrokerInv'
    BY <1>1, <1>3, GuardsKeep DEF SetupInv
  <2>2. CommandTypeOK' /\ ActedOn' /\ Found'
    BY <1>1, <1>3 DEF SetupInv, CommandTypeOK, ActedOn, Found, Steps, processVars, lockVars, findVars
  <2>3. GuardsKnown'
    BY <1>1, <1>3 DEF SetupInv, GuardsKnown, PluginInit, PluginExit
  <2> QED
    BY <2>1, <2>2, <2>3 DEF SetupInv
<1> QED
  BY <1>2, <1>3 DEF UnloadGuard, LoadGuard, Plugin

LEMMA SwapKeeps ==
    ASSUME SetupInv, GuardAbsent \/ GuardPresent \/ GuardPeer \/ GuardReady
    PROVE  SetupInv'
<1> USE ProcessAssumption DEF CommandInv, Inspecting, Committed, Restarting, Swapping
<1>1. /\ UNCHANGED brokerVars
      /\ UNCHANGED <<stage, seen, inspector, had, touched, desktop, report>>
      /\ \/ step = "absent" /\ step' = "load" /\ guards = {}
         \/ step = "present" /\ step' = "peer"
         \/ step = "peer" /\ step' = "ready"
         \/ step = "ready" /\ step' = "publish"
  BY DEF GuardAbsent, GuardPresent, GuardPeer, GuardReady, Observe, Step
<1>2. BrokerInv' /\ UNCHANGED <<guards, find, lock, pipe>>
  BY <1>1, BrokersStay DEF SetupInv, brokerVars, processVars, lockVars, guardVars, findVars
<1> QED
  BY <1>1, <1>2 DEF SetupInv, CommandTypeOK, ActedOn, Found, GuardsKnown, Steps

LEMMA RestartKeeps ==
    ASSUME SetupInv,
           Publish \/ (\E p \in Pids : SpawnChild(p)) \/ ChildReady \/ KillChild \/ ChildFails
    PROVE  SetupInv'
<1> USE ProcessAssumption DEF CommandInv, Inspecting, Committed, Restarting, Swapping
<1>1. CASE Publish
  <2>1. CASE Succeeds("start")
    <3>1. UNCHANGED <<orphans, pipe, guardVars, inspector>> /\ step = "publish"
      BY <1>1, <2>1 DEF Publish, Succeeds, Ends
    <3> QED
      BY <2>1, <3>1, SucceedsEnds DEF Claims, SetupInv, CommandTypeOK
  <2>2. ASSUME step = "publish", step' = "spawn", lock' = None,
               UNCHANGED <<processVars, flock, sock, guardVars, findVars>>,
               UNCHANGED <<stage, seen, inspector, had, touched, desktop, report>>
        PROVE  SetupInv'
    <3>1. lock = Setup
      BY <2>2 DEF SetupInv, Found
    <3>2. ProcessTypeOK' /\ KindsMatch' /\ SocketReachesServer'
      BY <2>2 DEF SetupInv, BrokerInv, ProcessTypeOK, KindsMatch, SocketReachesServer, processVars,
         guardVars, findVars
    <3>3. LocksHeld'
      BY <2>2, <3>1, Apart DEF SetupInv, BrokerInv, LocksHeld, processVars
    <3>4. SignalsReachBrokers' /\ PinsAgree' /\ OneGuard'
      BY <2>2 DEF SetupInv, BrokerInv, SignalsReachBrokers, PinsAgree, OneGuard, NoPin, processVars,
         guardVars, findVars
    <3>5. CommandInv'
      BY <2>2 DEF SetupInv, CommandTypeOK, ActedOn, Found, GuardsKnown, Steps, processVars,
         guardVars, findVars
    <3> QED
      BY <3>2, <3>3, <3>4, <3>5 DEF SetupInv, BrokerInv
  <2> QED
    BY <1>1, <2>1, <2>2 DEF Publish
<1>2. ASSUME NEW p \in Pids, SpawnChild(p) PROVE SetupInv'
  <2>1. pipe' \in Pipes /\ pipe'.text = ""
    BY <1>2 DEF SpawnChild, Pipes
  <2>2. BrokerInv'
    BY <1>2, <2>1, BeginKeeps DEF SpawnChild, SetupInv, Kinds, Serve
  <2>3. CommandInv'
    BY <1>2, <2>1 DEF SetupInv, SpawnChild, Step, CommandTypeOK, ActedOn, Found, GuardsKnown, Steps,
       lockVars, guardVars, findVars
  <2> QED
    BY <2>2, <2>3 DEF SetupInv
<1>3. CASE ChildReady
  BY <1>3, SucceedsEnds DEF ChildReady, Claims, SetupInv, CommandTypeOK
<1>4. CASE KillChild
  <2>1. pipe.child \in Pids /\ pipe' \in Pipes /\ pipe'.child = None
    BY <1>4 DEF KillChild, SetupInv, BrokerInv, ProcessTypeOK, Pipes
  <2>2. BrokerInv'
    BY <1>4, <2>1, DiesKeeps DEF KillChild, SetupInv
  <2>3. CommandInv'
    BY <1>4, <2>1 DEF SetupInv, KillChild, Step, CommandTypeOK, ActedOn, Found, GuardsKnown, Steps,
       guardVars
  <2> QED
    BY <2>2, <2>3 DEF SetupInv
<1>5. CASE ChildFails
  BY <1>5, FailsEnds DEF GuardsMove, ChildFails, Claims, SetupInv, CommandTypeOK
<1> QED
  BY <1>1, <1>2, <1>3, <1>4, <1>5

LEMMA CallFailsKeeps ==
    ASSUME SetupInv, CallFails
    PROVE  SetupInv'
<1>1. step # "await"
  BY DEF CallFails, Swapping
<1> QED
  BY <1>1, FailsEnds DEF GuardsMove, CallFails, SetupInv, CommandInv, CommandTypeOK
-----------------------------------------------------------------------------
(* The theorems.                                                           *)

LEMMA SetupInvInit == Init => SetupInv
BY BrokersInit, CommandInit DEF SetupInv

LEMMA SetupInvNext == SetupInv /\ [Next]_vars => SetupInv'
<1> SUFFICES ASSUME SetupInv, [Next]_vars PROVE SetupInv'
  OBVIOUS
<1>1. CASE UNCHANGED vars
  <2>1. BrokerInv' /\ UNCHANGED <<guards, find, lock, pipe>>
    BY <1>1, BrokersStay DEF SetupInv, vars, brokerVars, processVars, lockVars, guardVars, findVars
  <2> QED
    BY <1>1, <2>1 DEF SetupInv, vars, repairVars, CommandInv, CommandTypeOK, ActedOn, Found,
       GuardsKnown
<1>2. CASE CommandStep
  BY <1>2, InspectionKeeps, SearchKeeps, StoppingKeeps, PluginKeeps, SwapKeeps, RestartKeeps,
     CallFailsKeeps DEF CommandStep
<1> QED
  BY <1>1, <1>2, CommandDiesKeeps, ProcessesKeep, GuardsOfOthersKeep DEF Next

(* The inductive invariant holds. *)
LEMMA SetupInvariant == Spec => []SetupInv
BY SetupInvInit, SetupInvNext, PTL DEF Spec

(* What the processes, the locks and the command are is of their types.    *)
THEOREM SetupTypeCorrect == Spec => []TypeOK
<1>1. SetupInv => TypeOK
  BY DEF SetupInv, BrokerInv, CommandInv, CommandTypeOK, TypeOK
<1> QED
  BY <1>1, SetupInvariant, PTL

(* However brokers start, stop, crash and replace each other, mcp.sock     *)
(* leads to the one that listens (listenUnix and its Close).               *)
THEOREM SocketAlwaysReachesServer == Spec => []SocketReachesServer
<1>1. SetupInv => SocketReachesServer
  BY DEF SetupInv, BrokerInv
<1> QED
  BY <1>1, SetupInvariant, PTL

(* No process that has got a broker's pid is signalled in its place        *)
(* (findBroker and brokerProcess.stop).                                    *)
THEOREM OnlyBrokersSignalled == Spec => []SignalsReachBrokers
<1>1. SetupInv => SignalsReachBrokers
  BY DEF SetupInv, BrokerInv
<1> QED
  BY <1>1, SetupInvariant, PTL

(* While repairNative swaps guards, no broker is past its first lock.      *)
THEOREM GuardSwappedAlone == Spec => []SwapsAlone
<1>1. SetupInv => SwapsAlone
  <2> SUFFICES ASSUME SetupInv, step \in Swapping, NEW p \in Pids, kind[p] = "broker"
               PROVE  at[p] \in {"started", "unlinked"}
    BY DEF SwapsAlone
  <2>1. lock # p
    BY Apart DEF SetupInv, CommandInv, Found, Committed
  <2>2. at[p] \notin (Starting \cup Listening) \ {"started"}
    BY <2>1 DEF SetupInv, BrokerInv, LocksHeld
  <2>3. at[p] \notin {"gone", "running"}
    BY ProcessAssumption DEF SetupInv, BrokerInv, KindsMatch, Kinds, Serve
  <2>4. at[p] \in Phases
    BY DEF SetupInv, BrokerInv, ProcessTypeOK
  <2> QED
    BY <2>2, <2>3, <2>4 DEF Phases
<1> QED
  BY <1>1, SetupInvariant, PTL

(* PLUGIN_INIT and PLUGIN_EXIT keep one guard, the one at guard.sock.      *)
THEOREM OneGuardAtItsSocket == Spec => []OneGuard
<1>1. SetupInv => OneGuard
  BY DEF SetupInv, BrokerInv
<1> QED
  BY <1>1, SetupInvariant, PTL

(* Only these steps answer the user; the others go on, or die in silence.  *)
LEMMA AnswersAreEnds ==
    ASSUME SetupInv, [Next]_vars, Answers
    PROVE  \/ RemoveInspector \/ Compare \/ StopLooked \/ Status
           \/ Stopped \/ DidNotStop \/ Competed \/ UnloadGuard \/ LoadGuard
           \/ Publish \/ ChildReady \/ ChildFails \/ CallFails
<1> USE DEF Answers
<1>1. ~UNCHANGED vars
  BY DEF vars, repairVars
<1>2. ~CommandDies
  BY DEF CommandDies, Ends
<1>3. ~ProcessStep /\ ~GuardStep
  BY DEF ProcessStep, GuardStep, repairVars
<1>4. ~(\E b \in Builds : SetupBegins(b)) /\ ~StopBegins /\ ~Inspect
  BY DEF SetupBegins, StopBegins, Inspect, Step
<1>5. ~Looks /\ ~Looked /\ ~SignalBroker /\ ~Lock /\ ~Alone
  BY DEF Looks, Looked, SignalBroker, Lock, Alone, Step, repairVars
<1>6. ~GuardAbsent /\ ~GuardPresent /\ ~GuardPeer /\ ~GuardReady
  BY DEF GuardAbsent, GuardPresent, GuardPeer, GuardReady, Observe, Step
<1>7. ~(\E p \in Pids : SpawnChild(p)) /\ ~KillChild
  BY DEF SpawnChild, KillChild, Step
<1> QED
  BY <1>1, <1>2, <1>3, <1>4, <1>5, <1>6, <1>7 DEF Next, CommandStep

(* A success of setup comes from one of three steps, and each knows that   *)
(* its guard is the loaded one.                                            *)
LEMMA SuccessStep ==
    ASSUME SetupInv, [Next]_vars, Answers, report'.ok, stage # None, desktop = "same"
    PROVE  guards = {stage} /\ gsock = stage
<1>1. ASSUME NEW claims, Fails(claims) PROVE FALSE
  BY <1>1 DEF Fails, Ends
<1>2. Status \/ Publish \/ ChildReady
  <2>1. ~RemoveInspector /\ ~Compare
    BY <1>1 DEF RemoveInspector, Compare, Step, Answers
  <2>2. ~StopLooked /\ ~Stopped
    BY DEF StopLooked, Stopped, Answers
  <2>3. ~DidNotStop /\ ~Competed /\ ~ChildFails /\ ~CallFails
    BY <1>1 DEF DidNotStop, Competed, ChildFails, CallFails
  <2>4. ~UnloadGuard /\ ~LoadGuard
    BY <1>1 DEF UnloadGuard, LoadGuard, Plugin, Answers
  <2> QED
    BY <2>1, <2>2, <2>3, <2>4, AnswersAreEnds
<1>3. guards = {stage}
  <2>1. CASE Status
    BY <2>1 DEF Status, SetupInv, CommandInv, ActedOn, GuardsKnown
  <2>2. CASE Publish \/ ChildReady
    BY <2>2 DEF Publish, ChildReady, SetupInv, CommandInv, GuardsKnown, Restarting
  <2> QED
    BY <1>2, <2>1, <2>2
<1> QED
  BY <1>3 DEF SetupInv, BrokerInv, OneGuard

(* Setup reports success only with its guard loaded and behind guard.sock, *)
(* unless others have loaded or unloaded one (repairNative).               *)
THEOREM SuccessReported == Spec => SuccessIsReal
<1>1. SetupInv /\ [Next]_vars =>
          [Answers /\ report'.ok /\ stage # None /\ desktop = "same" =>
               guards = {stage} /\ gsock = stage]_vars
  BY SuccessStep
<1> QED
  BY <1>1, SetupInvariant, PTL DEF Spec, SuccessIsReal

(* What the report of one step has to be, in the words of ReportsHold.     *)
Truthful ==
    LET says == report'.says IN
    /\ says \cap {"untouched", "running"} # {} => touched = {}
    /\ "guard" \in says => "guard" \notin touched
    /\ "start" \in says => pipe.child = None /\ ~pin.live
    /\ "stopped" \in says /\ step = "wait" => ~pin.live
    /\ "broker" \in touched /\ step # "wait" => says \cap {"stopped", "restarted"} # {}
    /\ stage # None /\ inspector' => "inspector" \in says

(* A failure says what it is given and, once a broker has been stopped, that. *)
LEMMA FailureTruthful ==
    ASSUME SetupInv, NEW claims \in SUBSET {"guard", "start", "inspector", "untouched"},
           Fails(claims),
           "untouched" \in claims => touched = {},
           "guard" \in claims => "guard" \notin touched,
           "start" \in claims => pipe.child = None /\ ~pin.live,
           stage # None /\ inspector' => "inspector" \in claims
    PROVE  Truthful
<1>1. report'.says = Says(claims)
  BY DEF Fails, Ends
<1> QED
  BY <1>1 DEF Says, Truthful

LEMMA SuccessTruthful ==
    ASSUME SetupInv, NEW claim \in {"stopped", "restarted", "running", "start"}, Succeeds(claim),
           claim = "running" => touched = {},
           claim = "start" => pipe.child = None /\ ~pin.live,
           claim = "stopped" => ~pin.live,
           claim \in {"running", "start"} => "broker" \notin touched,
           stage # None => ~inspector'
    PROVE  Truthful
<1>1. report'.says = {claim}
  BY DEF Succeeds, Ends
<1> QED
  BY <1>1 DEF Truthful

LEMMA ReportStep ==
    ASSUME SetupInv, [Next]_vars, Answers
    PROVE  Truthful
<1> USE DEF Inspecting, Committed, Restarting, Swapping, Answers
<1>1. /\ step \notin Inspecting /\ stage # None => ~inspector
      /\ find = "absent" => ~pin.live
      /\ step # "await" => pipe.child = None
      /\ pipe.text = "eof" => pipe.child = None
  BY DEF SetupInv, BrokerInv, PinsAgree, NoPin, CommandInv, ActedOn, Found
<1>2. CASE RemoveInspector
  BY <1>2, FailureTruthful DEF RemoveInspector, Step
<1>3. CASE Compare
  BY <1>1, <1>3, FailureTruthful DEF Compare, SetupInv, CommandInv, ActedOn
<1>4. CASE StopLooked
  BY <1>1, <1>4, SuccessTruthful DEF StopLooked, SetupInv, CommandInv, ActedOn
<1>5. CASE Status
  BY <1>1, <1>5, SuccessTruthful DEF Status, SetupInv, CommandInv, ActedOn, Found
<1>6. CASE Stopped
  BY <1>1, <1>6, SuccessTruthful DEF Stopped
<1>7. CASE DidNotStop \/ Competed
  BY <1>1, <1>7, FailureTruthful DEF DidNotStop, Competed, SetupInv, CommandInv, ActedOn
<1>8. CASE UnloadGuard \/ LoadGuard
  BY <1>1, <1>8, FailureTruthful DEF UnloadGuard, LoadGuard, Plugin
<1>9. CASE Publish
  BY <1>1, <1>9, SuccessTruthful DEF Publish, SetupInv, CommandInv, ActedOn, Found
<1>10. CASE ChildReady
  BY <1>1, <1>10, SuccessTruthful DEF ChildReady
<1>11. CASE ChildFails
  BY <1>1, <1>11, FailureTruthful DEF ChildFails, SetupInv, CommandInv, Found
<1>12. CASE CallFails
  BY <1>1, <1>12, FailureTruthful DEF CallFails
<1> QED
  BY <1>2, <1>3, <1>4, <1>5, <1>6, <1>7, <1>8, <1>9, <1>10, <1>11, <1>12, AnswersAreEnds

(* Whatever a report of setup or stop claims of the broker and the guard   *)
(* is so, and nothing that it has done or left behind is missing from it.  *)
THEOREM ReportsTrue == Spec => ReportsHold
<1>1. SetupInv /\ [Next]_vars => [Answers => Truthful]_vars
  BY ReportStep
<1> QED
  BY <1>1, SetupInvariant, PTL DEF Spec, ReportsHold, Truthful
=============================================================================
