--------------------------- MODULE LeaseInvariant ---------------------------
(***************************************************************************)
(* The inductive invariant behind LeaseAccounted, RevocationStopsInput,    *)
(* DeliveryHitsItsWindow and PauseStopsInput: who owns a token, who holds  *)
(* backendMu, and what an exchange whose answer is not yet noted says of   *)
(* the guard's table.  The refinement of PermissionContract rests on it.   *)
(***************************************************************************)
EXTENDS AuthorityProps

(* Holding backendMu: only the holder is inside an exchange with the guard  *)
(* that decides or cleans up; sweep and todo are empty outside a cleanup.   *)
BackendHeld ==
    /\ \A t \in Threads :
          /\ pc[t] \in {"cleanup", "authorize", "publish"} => backend = t
          /\ reply[t] # None => pc[t] = "cleanup"
          /\ pc[t] \notin {"lock", "cleanup"} => todo[t] = {}
    /\ sweep => pc[Maint] \in {"retry", "cleanup"}

(* A token under construction: drawn by a decision or by a YOLO call.       *)
Owners == Deciders \cup Borrowers

TokensApart ==
    \A o \in Owners :
        tok[o] # None =>
            /\ tok[o] \notin DOMAIN grants
            /\ \A t \in Threads \ {o} : tok[t] # tok[o]

(* An input call's locals: a borrower cleans up after its own token only.   *)
CallsOrderly ==
    \A k \in Calls :
        /\ pc[k] = "idle" => tok[k] = None
        /\ pc[k] = "borrow" => call[k].yolo /\ tok[k] = None
        /\ pc[k] = "enqueue" /\ call[k].yolo => tok[k] = None
        /\ pc[k] \in {"lock", "cleanup"} =>
              /\ call[k].yolo
              /\ \/ todo[k] = {tok[k]} /\ reply[k] = None
                 \/ todo[k] = {} /\ reply[k] # None /\ reply[k].op = tok[k]
        /\ pc[k] # "idle" /\ ~call[k].yolo /\ tok[k] \in DOMAIN grants =>
              GrantMatches(grants[tok[k]], call[k].client, "control",
                           WindowScope(call[k].window), None)

(* A lease whose authorize went unanswered has a token nobody knows.        *)
OrphansUnknown ==
    \A x \in DOMAIN leases :
        ~leases[x].told => /\ x \notin DOMAIN grants
                           /\ \A t \in Threads : tok[t] # x

(* The window of a lease is the one its decision, grant or call is about.   *)
WindowsAgree ==
    /\ \A u \in Deciders :
          tok[u] \in DOMAIN leases =>
              /\ pc[u] = "publish"
              /\ job[u].cap = "control"
              /\ job[u].scope = WindowScope(leases[tok[u]].window)
    /\ \A x \in DOMAIN grants \cap DOMAIN leases :
          /\ grants[x].cap = "control"
          /\ grants[x].scope = WindowScope(leases[x].window)
    /\ \A k \in Calls :
          tok[k] \in DOMAIN leases => call[k].window = leases[tok[k]].window

(* What a confirmed exchange means until it is noted.                       *)
AnswersTrue ==
    \A t \in Threads :
        reply[t] # None /\ reply[t].ok =>
            IF reply[t].op = Clear
            THEN \A x \in DOMAIN leases : leases[x].told => Borrowed(x)
            ELSE reply[t].op \notin DOMAIN leases

LeaseInv ==
    /\ TypeOK
    /\ BackendHeld
    /\ TokensApart
    /\ CallsOrderly
    /\ OrphansUnknown
    /\ WindowsAgree
    /\ AnswersTrue
    /\ LeaseAccounted

(* Behind PauseStopsInput: between a confirmed clear and the note of it.    *)
ClearedWhilePaused ==
    paused /\ (\E t \in Threads : reply[t] = [op |-> Clear, ok |-> TRUE]) =>
        \/ \E t \in Threads : Clear \in todo[t]
        \/ \A k \in Calls : ~CanDeliver(k)
=============================================================================
