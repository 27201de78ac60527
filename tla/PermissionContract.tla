------------------------ MODULE PermissionContract ------------------------
(***************************************************************************)
(* What broker and guard promise together about tokens, each of which is   *)
(* the name of some authority.  Authority has one way to go: a token is     *)
(* drawn by a decision (or by a call in YOLO mode), may become a grant, is  *)
(* taken back, and is gone.  It becomes a grant only with a supervisor,    *)
(* unpaused, and with nothing unconfirmed; what is taken back never is a    *)
(* grant again; its lease is for the window that was decided.               *)
(*                                                                         *)
(* How this is brought about (locks, exchanges, retries and the order of   *)
(* their steps) is Authority's business.                                   *)
(***************************************************************************)
EXTENDS Permissions, Functions

CONSTANT Tokens

VARIABLES
    open,       \* somebody supervises the broker, which is not paused
    certain,    \* the guard has confirmed all that was taken back
    decided,    \* token -> the grant that a decision is about to make of it
    granted,    \* token -> grant
    temporary,  \* the tokens of calls in YOLO mode
    ending,     \* tokens taken back whose lease the guard still has
    leases      \* token -> window: the leases that the broker knows of

vars == <<open, certain, decided, granted, temporary, ending, leases>>
-----------------------------------------------------------------------------
Empty == [x \in {} |-> None]
With(f, x, v) == [y \in DOMAIN f \cup {x} |-> IF y = x THEN v ELSE f[y]]
Without(f, S) == Restrict(f, DOMAIN f \ S)

InForce == DOMAIN decided \cup DOMAIN granted \cup temporary
Unused == Tokens \ (InForce \cup ending)

Init ==
    /\ open = FALSE
    /\ certain = TRUE
    /\ decided = Empty
    /\ granted = Empty
    /\ temporary = {}
    /\ ending = {}
    /\ leases = Empty

Unlock ==
    /\ ~open /\ open' = TRUE
    /\ UNCHANGED <<certain, decided, granted, temporary, ending, leases>>

Decide(x, g) ==
    /\ open /\ certain
    /\ x \in Unused
    /\ decided' = With(decided, x, g)
    /\ UNCHANGED <<open, certain, granted, temporary, ending, leases>>

(* Only control needs a lease. *)
Authorize(x) ==
    /\ x \in DOMAIN decided \ DOMAIN leases
    /\ decided[x].cap = "control"
    /\ leases' = With(leases, x, decided[x].scope.id)
    /\ UNCHANGED <<open, certain, decided, granted, temporary, ending>>

Grant(x) ==
    /\ open /\ certain
    /\ x \in DOMAIN decided
    /\ decided' = Without(decided, {x})
    /\ granted' = With(granted, x, decided[x])
    /\ UNCHANGED <<open, certain, temporary, ending, leases>>

Borrow(x, w) ==
    /\ x \in Unused
    /\ temporary' = temporary \cup {x}
    /\ leases' = With(leases, x, w)
    /\ UNCHANGED <<open, certain, decided, granted, ending>>

(* Tokens are given up or taken back. *)
End(S) ==
    /\ decided' = Without(decided, S)
    /\ granted' = Without(granted, S)
    /\ temporary' = temporary \ S
    /\ ending' = ending \cup (S \cap DOMAIN leases)
    /\ UNCHANGED leases

Revoke == UNCHANGED <<open, certain>> /\ \E S \in SUBSET InForce : End(S)

Lock ==
    /\ open /\ open' = FALSE
    /\ End(DOMAIN granted)
    /\ UNCHANGED certain

(* An exchange is noted; a call that gave its lease back is over with it.  *)
Note ==
    /\ certain' \in BOOLEAN
    /\ \E S \in SUBSET temporary : End(S)
    /\ UNCHANGED open

(* The guard ends leases: asked for it, or by itself. *)
Lapse ==
    /\ \E S \in SUBSET DOMAIN leases :
          /\ leases' = Without(leases, S)
          /\ ending' = ending \ S
    /\ UNCHANGED <<open, certain, decided, granted, temporary>>

Next ==
    \/ Revoke \/ Lapse \/ Note \/ Unlock \/ Lock
    \/ \E x \in Tokens :
          \/ \E g \in Grants : Decide(x, g)
          \/ \E w \in Windows : Borrow(x, w)
          \/ Authorize(x) \/ Grant(x)

Spec == Init /\ [][Next]_vars
=============================================================================
