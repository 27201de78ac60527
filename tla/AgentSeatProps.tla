--------------------------- MODULE AgentSeatProps ---------------------------
(***************************************************************************)
(* What the guard and the agent's seat promise.                            *)
(***************************************************************************)
EXTENDS AgentSeat

TypeOK ==
    /\ DOMAIN leases \subseteq Tokens /\ leases \in [DOMAIN leases -> Leases]
    /\ seat \in Seats
    /\ Len(seat.serials) <= MaxSerials /\ Len(seat.popups) <= MaxPopups
    /\ mapped \subseteq Windows /\ visible \subseteq mapped /\ bound \subseteq Windows
    /\ popup \in [Popups -> {None} \cup PopupStates]
    /\ locked \in BOOLEAN
    /\ DOMAIN issued \subseteq Serials /\ issued \in [DOMAIN issued -> Tokens]
    /\ sent \in [surface : Surfaces \cup {None}, chosen : BOOLEAN]

(* The seat has a lease in the table and that lease's window, which is     *)
(* still there, or it has nothing at all; and its focus is a surface that  *)
(* exists.  reset, revoke, tick and two destroy listeners see to it.       *)
SeatIsOfALease ==
    /\ seat.token = None => seat = NoSeat
    /\ seat.token # None =>
        /\ seat.token \in DOMAIN leases
        /\ seat.root # None /\ leases[seat.token].window = seat.root
    /\ seat.focus \in Popups => popup[seat.focus] # None
    /\ seat.focus \in Windows => seat.focus = seat.root

(* Every serial that could pay for a grab was given out under the lease    *)
(* the seat has now, not under one with the same token that was revoked,   *)
(* expired or renewed since; and none is remembered twice (SECURITY.md:    *)
(* revocation, clear and expiry invalidate serial records).                *)
SerialsCurrent ==
    /\ \A i \in DOMAIN seat.serials :
          /\ seat.serials[i].token = seat.token /\ seat.serials[i].root = seat.root
          /\ seat.serials[i].serial \in DOMAIN issued
          /\ issued[seat.serials[i].serial] = seat.token
    /\ \A i, j \in DOMAIN seat.serials : seat.serials[i].serial = seat.serials[j].serial => i = j

GrabsOf(s) == {s.popups[i].popup : i \in DOMAIN s.popups}

(* A popup gets a grab only when the lease stands, its window is visible   *)
(* and unlocked, its parent is in the live tree, and a serial of this      *)
(* lease pays for it, which cannot be used again (protocol, grab).         *)
GrabsArePaid ==
    [][\A p \in GrabsOf(seat') \ (GrabsOf(seat) \cup {None}) :
          /\ Authorized(seat)
          /\ InTree(popup[p].parent, seat.root)
          /\ \E i \in DOMAIN seat.serials :
                LET n == seat.serials[i].serial IN
                /\ n \in DOMAIN issued /\ issued[n] = seat.token
                /\ \A j \in DOMAIN seat'.serials : seat'.serials[j].serial # n]_vars

(* Keys without a chosen surface go to the newest popup with a grab that   *)
(* is open, or about to open; in the second case not to its parent either. *)
(* What the seat remembers of a popup is as old as the last request.       *)
KeysFollowTheGrab ==
    [][~sent'.chosen /\ seat'.token = seat.token =>
        LET Open(g) == g.popup # None /\ (popup[g.popup].mapped \/ ~popup[g.popup].seen)
            open == {i \in DOMAIN Ticked.popups : Open(Ticked.popups[i])}
        IN  \A i \in open : (\A j \in open : j <= i) =>
                sent'.surface = Ticked.popups[i].popup]_vars
=============================================================================
