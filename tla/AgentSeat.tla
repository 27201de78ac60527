----------------------------- MODULE AgentSeat -----------------------------
(***************************************************************************)
(* The compositor guard (native/guard.cpp) with the agent's seat of its    *)
(* own (native/independent_seat.hpp, seat_policy.hpp): leases, the surface *)
(* in focus, the serials of the agent's input, and the popups whose grabs  *)
(* those serials paid for.                                                 *)
(*                                                                         *)
(* Requests of the broker, requests of the windows' clients and events of  *)
(* the compositor run one after another on its event loop: each is one     *)
(* step, which begins with expire() if it is a request of the broker.      *)
(***************************************************************************)
EXTENDS Naturals, FiniteSets, Sequences, SequencesExt

CONSTANTS
    Windows,    \* native windows; also their root surfaces
    Popups,     \* popup surfaces
    Tokens,     \* lease tokens
    Serials,    \* serials of the Wayland display
    None,       \* no window, surface or token
    MaxLeases,  \* leases in the table (64 in the code)
    MaxSerials, \* serials remembered (128)
    MaxPopups   \* grabs at a time (16)

ASSUME SeatAssumption ==
    /\ None \notin Windows \cup Popups \cup Tokens
    /\ Windows \cap Popups = {}
    /\ {MaxLeases, MaxPopups} \subseteq Nat /\ MaxSerials \in Nat \ {0}

VARIABLES
    leases,   \* token -> [window, over]: is its deadline past
    seat,     \* the agent's seat: [token, root, focus, serials, popups]
    \* The compositor and its clients.
    mapped,   \* windows that are mapped
    visible,  \* windows that are visible and accept input
    bound,    \* windows whose client has an agent keyboard and an agent pointer
    popup,    \* popup -> [parent, mapped, seen], or None while there is none
    locked,   \* is the session locked
    \* History.
    issued,   \* serial -> token, for serials given out under leases that stand
    sent      \* the input this step delivered: [surface, chosen]

worldVars == <<mapped, visible, bound, popup, locked>>
vars == <<leases, seat, worldVars, issued, sent>>
-----------------------------------------------------------------------------
Surfaces == Windows \cup Popups
PopupStates == [parent : Surfaces \cup {None}, mapped : BOOLEAN, seen : BOOLEAN]

ASSUME NoneAssumption == None \notin PopupStates

Leases == [window : Windows \cup {None}, over : BOOLEAN]
SerialRecords == [serial : Serials, token : Tokens, root : Windows]
Grabs == [popup : Popups \cup {None}, mapped : BOOLEAN]
Seats ==
    [token : Tokens \cup {None}, root : Windows \cup {None},
     focus : Surfaces \cup {None}, serials : Seq(SerialRecords), popups : Seq(Grabs)]

(* reset(): no lease, no focus, no serial, no grab. *)
NoSeat ==
    [token |-> None, root |-> None, focus |-> None, serials |-> <<>>, popups |-> <<>>]

(* What a step says that delivers nothing. *)
NoInput == [surface |-> None, chosen |-> TRUE]

(* windowSurfaceTree: the window's root and the popups that lead to it     *)
(* through mapped popups.  A subsurface stands for the surface it is on.   *)
InTree(x, w) ==
    /\ w \in mapped
    /\ x # w =>
        \E chain \in SUBSET {p \in Popups : popup[p] # None /\ popup[p].mapped} :
            /\ x \in chain
            /\ \A p \in chain : popup[p].parent \in chain \cup {w}

(* expire(): the leases that stand. *)
Live == {t \in DOMAIN leases : ~locked /\ ~leases[t].over /\ leases[t].window \in mapped}
LiveLeases == [t \in Live |-> leases[t]]

(* authorized(), for a seat s. *)
Authorized(s) ==
    /\ s.token \in Live
    /\ s.root # None /\ leases[s.token].window = s.root
    /\ s.root \in visible

(* tick(). *)
Ticked == IF seat.token # None /\ ~Authorized(seat) THEN NoSeat ELSE seat

(* Faulty: the seat is left as it is. *)
NotRevoked(s, t) == s

(* IndependentSeat::revoke. *)
Revoked(s, t) == IF s.token = t THEN NoSeat ELSE s

(* History: the serials of the leases T. *)
IssuedFor(T) == [n \in {m \in DOMAIN issued : issued[m] \in T} |-> issued[n]]
-----------------------------------------------------------------------------
(* Requests of the broker.                                                 *)

(* The timer; also a request that is refused. *)
Tick ==
    /\ leases' = LiveLeases
    /\ seat' = Ticked
    /\ issued' = IssuedFor(Live)
    /\ UNCHANGED worldVars /\ sent' = NoInput

(* "authorize", also to renew or replace a lease. *)
Authorize(t, w) ==
    /\ ~locked /\ w \in mapped
    /\ Cardinality(Live) < MaxLeases
    /\ seat' = Revoked(Ticked, t)
    /\ leases' = [x \in Live \cup {t} |->
                    IF x = t THEN [window |-> w, over |-> FALSE] ELSE leases[x]]
    /\ issued' = IssuedFor(Live \ {t})
    /\ UNCHANGED worldVars /\ sent' = NoInput

(* "revoke". *)
Revoke(t) ==
    /\ seat' = Revoked(Ticked, t)
    /\ leases' = [x \in Live \ {t} |-> leases[x]]
    /\ issued' = IssuedFor(Live \ {t})
    /\ UNCHANGED worldVars /\ sent' = NoInput

(* "clear". *)
Clear ==
    /\ seat' = NoSeat
    /\ leases' = [x \in {} |-> None]
    /\ issued' = IssuedFor({})
    /\ UNCHANGED worldVars /\ sent' = NoInput

(* Faulty: an entry counts only once its popup is mapped. *)
BadOpenGrab(g) == g.popup # None /\ popup[g.popup].mapped

(* begin() keeps the grab of a popup that is mapped, or has never been     *)
(* seen mapped.                                                            *)
OpenGrab(g) == g.popup # None /\ (popup[g.popup].mapped \/ ~g.mapped)

Seen(g) == [g EXCEPT !.mapped = @ \/ popup[g.popup].mapped]

(* The numbers in S, in their order. *)
InOrder(S) ==
    CHOOSE f \in [1..Cardinality(S) -> S] : \A a, b \in DOMAIN f : a < b => f[a] < f[b]

(* What begin() leaves of the grabs. *)
Kept(grabs) ==
    LET open == InOrder({i \in DOMAIN grabs : OpenGrab(grabs[i])})
    IN  [k \in DOMAIN open |-> Seen(grabs[open[k]])]

(* begin(), first part: the seat comes to the lease t of window w, and     *)
(* forgets everything of another one.                                      *)
Begun(t, w) ==
    LET s == IF Ticked.token = t /\ Ticked.root = w THEN Ticked
             ELSE [NoSeat EXCEPT !.token = t, !.root = w]
    IN  [s EXCEPT !.popups = Kept(@)]

(* The checks of execute before it turns to the seat. *)
MayDeliver(t, x) ==
    /\ t \in Live
    /\ leases[t].window \in visible \cap bound
    /\ InTree(x, leases[t].window)

(* begin() refuses: a constraint, a capture, or a popup to come. *)
BeginRefused(t, x) ==
    /\ MayDeliver(t, x)
    /\ leases' = LiveLeases
    /\ seat' = Begun(t, leases[t].window)
    /\ issued' = IssuedFor(Live)
    /\ UNCHANGED worldVars /\ sent' = NoInput

(* Faulty: the record grows without bound. *)
BadIssue(log, r) == Append(log, r)

(* SeatSerials::issue. *)
Issue(log, r) == Append(IF Len(log) = MaxSerials THEN Tail(log) ELSE log, r)

(* The surface that gets the input: keys go to the newest grab, unless the *)
(* request chose a surface.                                                *)
Target(s, x, keys, chosen) ==
    IF keys /\ ~chosen /\ s.popups # <<>> THEN Last(s.popups).popup ELSE x

(* begin(), select() and the events of a request for surface x.  Only a    *)
(* press draws a serial that the client may show later; a request with     *)
(* several presses is like several requests.                               *)
Deliver(t, x, keys, chosen, presses) ==
    /\ MayDeliver(t, x)
    /\ ~chosen /\ keys => x = leases[t].window
    /\ keys => presses
    /\ leases' = LiveLeases
    /\ LET w == leases[t].window
           s == Begun(t, w)
           y == Target(s, x, keys, chosen)
       IN  /\ y # None /\ InTree(y, w)
           /\ sent' = [surface |-> y, chosen |-> chosen \/ ~keys]
           /\ \/ /\ ~presses
                 /\ seat' = [s EXCEPT !.focus = y]
                 /\ issued' = IssuedFor(Live)
              \/ /\ presses
                 /\ \E n \in Serials \ {s.serials[i].serial : i \in DOMAIN s.serials} :
                       /\ seat' = [s EXCEPT !.focus = y,
                                     !.serials = Issue(@, [serial |-> n, token |-> t, root |-> w])]
                       /\ issued' = [m \in DOMAIN IssuedFor(Live) \cup {n} |->
                                        IF m = n THEN t ELSE issued[m]]
    /\ UNCHANGED worldVars
-----------------------------------------------------------------------------
(* Requests of the clients.                                                *)

(* A client creates the agent seat's devices, or destroys them. *)
Bind(w) ==
    /\ bound' = bound \cup {w}
    /\ UNCHANGED <<leases, seat, mapped, visible, popup, locked, issued>> /\ sent' = NoInput

Unbind(w) ==
    /\ bound' = bound \ {w}
    /\ UNCHANGED <<leases, seat, mapped, visible, popup, locked, issued>> /\ sent' = NoInput

CreatePopup(p, x) ==
    /\ popup[p] = None
    /\ x \in Windows \cup {q \in Popups : popup[q] # None}
    /\ popup' = [popup EXCEPT ![p] = [parent |-> x, mapped |-> FALSE, seen |-> FALSE]]
    /\ UNCHANGED <<leases, seat, mapped, visible, bound, locked, issued>> /\ sent' = NoInput

MapPopup(p) ==
    /\ popup[p] # None
    /\ popup' = [popup EXCEPT ![p] = [@ EXCEPT !.mapped = TRUE, !.seen = TRUE]]
    /\ UNCHANGED <<leases, seat, mapped, visible, bound, locked, issued>> /\ sent' = NoInput

UnmapPopup(p) ==
    /\ popup[p] # None
    /\ popup' = [popup EXCEPT ![p].mapped = FALSE]
    /\ UNCHANGED <<leases, seat, mapped, visible, bound, locked, issued>> /\ sent' = NoInput

(* Faulty: no listener on the surface in focus. *)
BadForget(gone) ==
    [seat EXCEPT !.popups = [i \in DOMAIN @ |->
        IF @[i].popup \in gone THEN [@[i] EXCEPT !.popup = None] ELSE @[i]]]

(* Weak references expire, and focusGone runs. *)
Forget(gone) ==
    [seat EXCEPT
        !.focus = IF @ \in gone THEN None ELSE @,
        !.popups = [i \in DOMAIN @ |->
            IF @[i].popup \in gone THEN [@[i] EXCEPT !.popup = None] ELSE @[i]]]

DestroyPopup(p) ==
    /\ popup[p] # None
    /\ seat' = Forget({p})
    /\ popup' = [q \in Popups |->
                    IF q = p THEN None
                    ELSE IF popup[q] # None /\ popup[q].parent = p
                         THEN [popup[q] EXCEPT !.parent = None] ELSE popup[q]]
    /\ UNCHANGED <<leases, mapped, visible, bound, locked, issued>> /\ sent' = NoInput

(* SeatSerials::consume, for the entry i; old: its five seconds are over.  *)
Pays(i, old) ==
    /\ seat.serials[i].token = seat.token
    /\ seat.serials[i].root = seat.root
    /\ ~old

(* Faulty: an entry may be shown again. *)
BadSpent(i) == seat.serials

Spent(i) == RemoveAt(seat.serials, i)

(* xdg_popup.grab with a serial on the agent's seat: protocol, which sees  *)
(* the request first, and grab.  The parent must be in the live tree.  The *)
(* serial is spent even when it does not pay.                              *)
Grab(p, n) ==
    /\ popup[p] # None
    /\ Authorized(seat) /\ Len(seat.popups) < MaxPopups
    /\ InTree(popup[p].parent, seat.root)
    /\ \E i \in DOMAIN seat.serials, old \in BOOLEAN :
          /\ seat.serials[i].serial = n
          /\ seat' = [seat EXCEPT
                        !.serials = Spent(i),
                        !.popups = IF Pays(i, old)
                                   THEN Append(@, [popup |-> p, mapped |-> FALSE])
                                   ELSE @]
    /\ UNCHANGED <<leases, worldVars, issued>> /\ sent' = NoInput
-----------------------------------------------------------------------------
(* Events of the compositor.                                               *)

Map(w) ==
    /\ mapped' = mapped \cup {w} /\ visible' \in {visible, visible \cup {w}}
    /\ UNCHANGED <<leases, seat, bound, popup, locked, issued>> /\ sent' = NoInput

Unmap(w) ==
    /\ mapped' = mapped \ {w} /\ visible' = visible \ {w}
    /\ UNCHANGED <<leases, seat, bound, popup, locked, issued>> /\ sent' = NoInput

ShowOrHide(w) ==
    /\ w \in mapped
    /\ visible' = IF w \in visible THEN visible \ {w} ELSE visible \cup {w}
    /\ UNCHANGED <<leases, seat, mapped, bound, popup, locked, issued>> /\ sent' = NoInput

(* rootGone. *)
RootGone(w) == IF seat.root = w THEN NoSeat ELSE seat

(* The window and its root surface are destroyed; another one may take its *)
(* place.  Its popups have lost their parent.                              *)
Destroy(w) ==
    /\ seat' = RootGone(w)
    /\ mapped' = mapped \ {w} /\ visible' = visible \ {w} /\ bound' = bound \ {w}
    /\ leases' = [t \in DOMAIN leases |->
                    IF leases[t].window = w THEN [leases[t] EXCEPT !.window = None] ELSE leases[t]]
    /\ popup' = [q \in Popups |->
                    IF popup[q] # None /\ popup[q].parent = w
                    THEN [popup[q] EXCEPT !.parent = None] ELSE popup[q]]
    /\ UNCHANGED <<locked, issued>> /\ sent' = NoInput

LockOrUnlock ==
    /\ locked' = ~locked
    /\ UNCHANGED <<leases, seat, mapped, visible, bound, popup, issued>> /\ sent' = NoInput

DeadlinePasses(t) ==
    /\ t \in DOMAIN leases
    /\ leases' = [leases EXCEPT ![t].over = TRUE]
    /\ UNCHANGED <<seat, worldVars, issued>> /\ sent' = NoInput

Init ==
    /\ leases = [x \in {} |-> None]
    /\ seat = NoSeat
    /\ mapped = {} /\ visible = {} /\ bound = {}
    /\ popup = [p \in Popups |-> None]
    /\ locked = FALSE
    /\ issued = [n \in {} |-> None]
    /\ sent = NoInput

BrokerStep ==
    \/ Tick \/ Clear
    \/ \E t \in Tokens, w \in Windows : Authorize(t, w)
    \/ \E t \in Tokens : Revoke(t)
    \/ \E t \in Tokens, x \in Surfaces : BeginRefused(t, x)
    \/ \E t \in Tokens, x \in Surfaces, k, c, n \in BOOLEAN : Deliver(t, x, k, c, n)

ClientStep ==
    \/ \E w \in Windows : Bind(w) \/ Unbind(w)
    \/ \E p \in Popups, x \in Surfaces : CreatePopup(p, x)
    \/ \E p \in Popups : MapPopup(p) \/ UnmapPopup(p) \/ DestroyPopup(p)
    \/ \E p \in Popups, n \in Serials : Grab(p, n)

CompositorStep ==
    \/ \E w \in Windows : Map(w) \/ Unmap(w) \/ ShowOrHide(w) \/ Destroy(w)
    \/ LockOrUnlock
    \/ \E t \in Tokens : DeadlinePasses(t)

Next == BrokerStep \/ ClientStep \/ CompositorStep

Spec == Init /\ [][Next]_vars
=============================================================================
