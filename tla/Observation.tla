---------------------------- MODULE Observation ----------------------------
(***************************************************************************)
(* Views of a window (internal/app/observation.go, captureWithOptions of   *)
(* desktop.go) among everything else the broker does.  A view asks for     *)
(* permission, takes a picture, asks the compositor twice whether the      *)
(* window is where it was, and asks for permission once more; nothing is   *)
(* locked in between, and the window goes where its user takes it.         *)
(***************************************************************************)
EXTENDS Authority

CONSTANT Viewers     \* slots for concurrent views

VARIABLES
    place,  \* the workspace on which a window is visible, or None
    view    \* the view that a slot carries out, or None

obsVars == <<place, view>>
allVars == <<vars, obsVars>>
-----------------------------------------------------------------------------
ViewPhases == {"looked", "permitted", "shot", "compared", "current", "released"}

(* "spots" is history: the workspaces the window has been on since the     *)
(* picture was taken.                                                      *)
Views == [client : Clients, window : Windows, ws : Workspaces,
          phase : ViewPhases, spots : SUBSET Workspaces]

ObservationTypeOK ==
    /\ TypeOK
    /\ place \in [Windows -> Workspaces \cup {None}]
    /\ view \in [Viewers -> Views \cup {None}]

ObservationInit ==
    /\ Init
    /\ place \in [Windows -> Workspaces]
    /\ view = [v \in Viewers |-> None]

In(v, phase) == view[v] # None /\ view[v].phase = phase

MayView(v, ws) == Allowed(view[v].client, "observe", WindowScope(view[v].window), ws)

Onwards(v, phase) ==
    /\ view' = [view EXCEPT ![v].phase = phase]
    /\ UNCHANGED <<vars, place>>

Over(v) == view' = [view EXCEPT ![v] = None] /\ UNCHANGED place
-----------------------------------------------------------------------------
(* "screenshot", and "input_window" with a screenshot after its batch.     *)
Look(v, c, w) ==
    /\ view[v] = None
    /\ c \in clients
    /\ place[w] # None
    /\ view' = [view EXCEPT ![v] = [client |-> c, window |-> w, ws |-> place[w],
                                    phase |-> "looked", spots |-> {}]]
    /\ UNCHANGED <<vars, place>>

Permit(v) == In(v, "looked") /\ MayView(v, view[v].ws) /\ Onwards(v, "permitted")

AskToView(v) ==
    /\ In(v, "looked")
    /\ Ask(view[v].client, "observe", WindowScope(view[v].window), view[v].ws)
    /\ Over(v)

(* grim takes the window's picture wherever it is by now. *)
Shoot(v) ==
    /\ In(v, "permitted")
    /\ place[view[v].window] # None
    /\ view' = [view EXCEPT ![v].phase = "shot",
                            ![v].spots = {place[view[v].window]}]
    /\ UNCHANGED <<vars, place>>

(* Faulty: the window is remembered, not asked for. *)
BadUnmoved(v) == view[v] # None

(* Fresh membership: the window is where it was at the first look. *)
Unmoved(v) == place[view[v].window] = view[v].ws

(* captureWithOptions compares, and so does observeWithOptions. *)
Compare(v) == In(v, "shot") /\ Unmoved(v) /\ Onwards(v, "compared")
CompareAgain(v) == In(v, "compared") /\ Unmoved(v) /\ Onwards(v, "current")

Release(v) == In(v, "current") /\ MayView(v, view[v].ws) /\ Onwards(v, "released")

(* The answer is sent; or an error is, at any point before. *)
Return(v) == view[v] # None /\ Over(v) /\ UNCHANGED vars

(* The user moves a window to another workspace, hides or closes it. *)
Move(w, ws) ==
    /\ place' = [place EXCEPT ![w] = ws]
    /\ view' = [v \in Viewers |->
                  IF /\ view[v] # None
                     /\ view[v].window = w
                     /\ view[v].phase \notin {"looked", "permitted"}
                     /\ ws # None
                  THEN [view[v] EXCEPT !.spots = @ \cup {ws}]
                  ELSE view[v]]
    /\ UNCHANGED vars
-----------------------------------------------------------------------------
(* A session ends only after the calls it serves. *)
Served == \A v \in Viewers : view[v] # None => view[v].client \in clients'

ViewStep(v) ==
    \/ \E c \in Clients, w \in Windows : Look(v, c, w)
    \/ Permit(v) \/ AskToView(v) \/ Shoot(v) \/ Compare(v) \/ CompareAgain(v)
    \/ Release(v) \/ Return(v)

ObservationNext ==
    \/ Next /\ Served /\ UNCHANGED obsVars
    \/ \E v \in Viewers : ViewStep(v)
    \/ \E w \in Windows, ws \in Workspaces \cup {None} : Move(w, ws)

ObservationSpec == ObservationInit /\ [][ObservationNext]_allVars
-----------------------------------------------------------------------------
(* Pixels reach a client only if its permission, at that moment, covers    *)
(* the window on a workspace where the window has been since the picture   *)
(* was taken: "a workspace grant must not release pixels after the target  *)
(* leaves that workspace" (observation.go), nor any grant once revoked.    *)
FramesStayCovered ==
    [][\A v \in Viewers :
          In(v, "current") /\ view'[v] # None /\ view'[v].phase = "released" =>
              \E ws \in view[v].spots : MayView(v, ws)]_allVars
=============================================================================
