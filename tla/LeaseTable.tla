----------------------------- MODULE LeaseTable -----------------------------
(***************************************************************************)
(* The compositor guard's lease table (native/guard.cpp).  The guard runs  *)
(* every operation to completion on Hyprland's event loop, so one          *)
(* operation is one step here.  A lease names the window its token may     *)
(* drive.  The field "told" is history: whether the reply to the authorize *)
(* that made the lease reached the broker.                                 *)
(***************************************************************************)
EXTENDS Permissions, Naturals, FiniteSets, Functions

CONSTANTS
    Tokens,     \* random 128-bit grant and lease IDs
    LeaseRoom   \* the guard's limit on live leases (64 in the code)

ASSUME LeaseRoomAssumption == LeaseRoom \in Nat \ {0}

VARIABLE leases   \* token -> [window, told], for the tokens with a live lease

Leases == [window : Windows, told : BOOLEAN]

LeaseTypeOK ==
    /\ DOMAIN leases \subseteq Tokens
    /\ leases \in [DOMAIN leases -> Leases]

LeaseInit == leases = [t \in {} |-> None]

(* execute "authorize": refused when the table is full. *)
GuardAuthorize(t, w, told) ==
    /\ Cardinality(DOMAIN leases) < LeaseRoom
    /\ leases' = [x \in DOMAIN leases \cup {t} |->
                    IF x = t THEN [window |-> w, told |-> told] ELSE leases[x]]

(* Faulty: an answer without effect. *)
BadGuardRevoke(t) == UNCHANGED leases

(* execute "revoke": succeeds whether or not the token still has a lease. *)
GuardRevoke(t) == leases' = Restrict(leases, DOMAIN leases \ {t})

BadGuardClear == UNCHANGED leases

(* execute "clear". *)
GuardClear == leases' = Restrict(leases, {})

(* expire(): a lease ends at its deadline, when the session locks, or when *)
(* its window or root surface is gone.  It can happen at any moment.       *)
LeaseEnds(t) ==
    /\ t \in DOMAIN leases
    /\ leases' = Restrict(leases, DOMAIN leases \ {t})

=============================================================================
