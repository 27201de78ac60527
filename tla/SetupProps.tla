---------------------------- MODULE SetupProps -----------------------------
(***************************************************************************)
(* What the lifecycle of brokers and guards promises (docs/SETUP.md 42,    *)
(* 102-106, and the comments of setup_process.go and setup_repair.go).     *)
(***************************************************************************)
EXTENDS SetupRepair

(* A broker that listens is reached through mcp.sock: no other broker,     *)
(* starting, stopping or left over from a crash, takes the path from it.   *)
(* listenUnix removes whatever it finds there, and Close unlinks by name.  *)
SocketReachesServer == \A p \in Pids : at[p] \in Listening => sock = p

(* SIGTERM reaches nothing but brokers, although the socket's credentials  *)
(* and /proc are read by a pid that may have been given out again.         *)
SignalsReachBrokers == \A p \in ending : kind[p] \in Serve

(* While setup takes one guard out and puts another in, no broker of this  *)
(* version is further than its first lock (repairNative's broker.lock).    *)
SwapsAlone ==
    step \in Swapping =>
        \A p \in Pids : kind[p] = "broker" => at[p] \in {"started", "unlinked"}

(* A compositor has one guard, the one behind guard.sock: PLUGIN_INIT and  *)
(* PLUGIN_EXIT of two builds do not take the path from each other.         *)
OneGuard == guards = {gsock} \ {None}

(* The command tells its user something. *)
Answers == step # "idle" /\ step' = "idle" /\ report' # None

(* Setup reports success only with the guard it built loaded and reachable *)
(* -- unless somebody else has loaded or unloaded one since it looked.     *)
SuccessIsReal ==
    [][Answers /\ report'.ok /\ stage # None /\ desktop = "same" =>
           guards = {stage} /\ gsock = stage]_vars

(* What a report says is so: that nothing or not the guard was touched,    *)
(* that the broker is the user's to start; and a broker that was stopped   *)
(* or an inspector that stays is never passed over in silence.             *)
ReportsHold ==
    [][Answers =>
        LET says == report'.says IN
        /\ says \cap {"untouched", "running"} # {} => touched = {}
        /\ "guard" \in says => "guard" \notin touched
        /\ "start" \in says => pipe.child = None /\ ~pin.live
        /\ "stopped" \in says /\ step = "wait" => ~pin.live
        /\ "broker" \in touched /\ step # "wait" =>
               says \cap {"stopped", "restarted"} # {}
        /\ stage # None /\ inspector' => "inspector" \in says]_vars
=============================================================================
