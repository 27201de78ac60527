------------------------- MODULE ObservationProofs -------------------------
(***************************************************************************)
(* Theorems about views: pixels that reach a client are covered, and views *)
(* take nothing away from what the broker promises.                        *)
(***************************************************************************)
EXTENDS Observation, TLAPS

ViewsTypeOK ==
    /\ place \in [Windows -> Workspaces \cup {None}]
    /\ view \in [Viewers -> Views \cup {None}]

Pictured(v) == view[v] # None /\ view[v].phase \notin {"looked", "permitted"}

(* Since the picture of a window was taken, wherever the window is it has  *)
(* been noted to have been; and a view that has compared its workspace     *)
(* with the window's found it among those.                                 *)
ViewsCovered ==
    /\ \A v \in Viewers : Pictured(v) => place[view[v].window] \in view[v].spots \cup {None}
    /\ \A v \in Viewers : In(v, "compared") \/ In(v, "current") => view[v].ws \in view[v].spots

ViewsInv == ViewsTypeOK /\ ViewsCovered
-----------------------------------------------------------------------------
(* A step of one view leaves the others and every window where they are.   *)
LEMMA OthersStay ==
    ASSUME ViewsInv, NEW v \in Viewers, UNCHANGED place,
           NEW new \in Views \cup {None}, view' = [view EXCEPT ![v] = new],
           new # None /\ new.phase \notin {"looked", "permitted"} =>
               place[new.window] \in new.spots \cup {None},
           new # None /\ new.phase \in {"compared", "current"} => new.ws \in new.spots
    PROVE  ViewsInv'
  <1>1. ViewsTypeOK'
    BY DEF ViewsInv, ViewsTypeOK
  <1>2. view'[v] = new /\ \A u \in Viewers \ {v} : view'[u] = view[u]
    BY DEF ViewsInv, ViewsTypeOK
  <1>3. ViewsCovered'
    BY <1>2 DEF ViewsInv, ViewsCovered, Pictured, In
  <1> QED BY <1>1, <1>3 DEF ViewsInv

LEMMA OnwardsTo ==
    ASSUME ViewsInv, NEW v \in Viewers, view[v] # None,
           NEW phase \in ViewPhases, Onwards(v, phase),
           phase \notin {"looked", "permitted"} => Pictured(v),
           phase \in {"compared", "current"} => view[v].ws \in view[v].spots
    PROVE  ViewsInv'
  <1> DEFINE new == [view[v] EXCEPT !.phase = phase]
  <1>1. view[v] \in Views
    BY DEF ViewsInv, ViewsTypeOK
  <1>2. /\ new \in Views
        /\ new.window = view[v].window /\ new.ws = view[v].ws
        /\ new.spots = view[v].spots /\ new.phase = phase
    BY <1>1 DEF Views
  <1>3. view' = [view EXCEPT ![v] = new] /\ UNCHANGED place
    BY DEF Onwards
  <1>4. phase \notin {"looked", "permitted"} => place[new.window] \in new.spots \cup {None}
    BY <1>2 DEF ViewsInv, ViewsCovered
  <1> HIDE DEF new
  <1> QED BY <1>2, <1>3, <1>4, OthersStay

LEMMA Forgotten ==
    ASSUME ViewsInv, NEW v \in Viewers, Over(v)
    PROVE  ViewsInv'
  BY OthersStay DEF Over

LEMMA ViewStepKeeps ==
    ASSUME ViewsInv, NEW v \in Viewers, ViewStep(v)
    PROVE  ViewsInv'
  <1>1. ASSUME NEW c \in Clients, NEW w \in Windows, Look(v, c, w) PROVE ViewsInv'
    <2> DEFINE new == [client |-> c, window |-> w, ws |-> place[w],
                       phase |-> "looked", spots |-> {}]
    <2>1. place[w] \in Workspaces
      BY <1>1 DEF Look, ViewsInv, ViewsTypeOK
    <2>2. new \in Views /\ new.phase = "looked"
      BY <2>1 DEF Views, ViewPhases
    <2>3. view' = [view EXCEPT ![v] = new] /\ UNCHANGED place
      BY <1>1 DEF Look
    <2> HIDE DEF new
    <2> QED BY <2>2, <2>3, OthersStay
  <1>2. CASE Permit(v)
    BY <1>2, OnwardsTo DEF Permit, In, ViewPhases
  <1>3. CASE AskToView(v) \/ Return(v)
    BY <1>3, Forgotten DEF AskToView, Return
  <1>4. CASE Shoot(v)
    <2> DEFINE p == place[view[v].window]
               new == [view[v] EXCEPT !.phase = "shot", !.spots = {p}]
    <2>1. view[v] \in Views
      BY <1>4 DEF Shoot, In, ViewsInv, ViewsTypeOK
    <2>2. p \in Workspaces
      BY <1>4, <2>1 DEF Shoot, ViewsInv, ViewsTypeOK, Views
    <2>3. /\ new \in Views /\ new.phase = "shot" /\ new.window = view[v].window
          /\ new.spots = {p}
      BY <2>1, <2>2 DEF Views, ViewPhases
    <2>4. view' = [view EXCEPT ![v] = new] /\ UNCHANGED place
      BY <1>4 DEF Shoot
    <2>5. place[new.window] \in new.spots
      BY <2>3
    <2> HIDE DEF new, p
    <2> QED BY <2>3, <2>4, <2>5, OthersStay
  <1>5. CASE Compare(v)
    <2>1. view[v] # None /\ Pictured(v)
      BY <1>5 DEF Compare, In, Pictured
    <2>2. view[v] \in Views
      BY <2>1 DEF ViewsInv, ViewsTypeOK
    <2>3. place[view[v].window] = view[v].ws /\ view[v].ws \in Workspaces
      BY <1>5, <2>2 DEF Compare, Unmoved, Views
    <2>4. view[v].ws \in view[v].spots
      BY <2>1, <2>3, NoneAssumption DEF ViewsInv, ViewsCovered
    <2> QED BY <1>5, <2>1, <2>4, OnwardsTo DEF Compare, ViewPhases
  <1>6. CASE CompareAgain(v)
    <2>1. view[v] # None /\ Pictured(v) /\ view[v].ws \in view[v].spots
      BY <1>6 DEF CompareAgain, In, Pictured, ViewsInv, ViewsCovered
    <2> QED BY <1>6, <2>1, OnwardsTo DEF CompareAgain, ViewPhases
  <1>7. CASE Release(v)
    <2>1. view[v] # None /\ Pictured(v) /\ view[v].ws \in view[v].spots
      BY <1>7 DEF Release, In, Pictured, ViewsInv, ViewsCovered
    <2> QED BY <1>7, <2>1, OnwardsTo DEF Release, ViewPhases
  <1> QED BY <1>1, <1>2, <1>3, <1>4, <1>5, <1>6, <1>7 DEF ViewStep

(* A window that moves is noted by every view that has its picture. *)
LEMMA MoveKeeps ==
    ASSUME ViewsInv, NEW w \in Windows, NEW ws \in Workspaces \cup {None}, Move(w, ws)
    PROVE  ViewsInv'
  <1>1. place' = [place EXCEPT ![w] = ws] /\ place' \in [Windows -> Workspaces \cup {None}]
    BY DEF Move, ViewsInv, ViewsTypeOK
  <1>2. ASSUME NEW v \in Viewers
        PROVE  /\ view'[v] \in Views \cup {None}
               /\ Pictured(v)' => place'[view'[v].window] \in view'[v].spots \cup {None}
               /\ In(v, "compared")' \/ In(v, "current")' => view'[v].ws \in view'[v].spots
    <2>1. view[v] \in Views \cup {None}
      BY DEF ViewsInv, ViewsTypeOK
    <2>2. CASE view[v] # None /\ view[v].window = w /\ Pictured(v) /\ ws # None
      <3>1. view'[v] = [view[v] EXCEPT !.spots = @ \cup {ws}]
        BY <2>2 DEF Move, Pictured
      <3>2. /\ view'[v] \in Views /\ view'[v].spots = view[v].spots \cup {ws}
            /\ view'[v].window = w /\ view'[v].ws = view[v].ws
            /\ view'[v].phase = view[v].phase
        BY <2>1, <2>2, <3>1 DEF Views
      <3> QED BY <1>1, <2>2, <3>2 DEF ViewsInv, ViewsTypeOK, ViewsCovered, In
    <2>3. CASE ~(view[v] # None /\ view[v].window = w /\ Pictured(v) /\ ws # None)
      <3>1. view'[v] = view[v]
        BY <2>3 DEF Move, Pictured
      <3>2. Pictured(v) => place'[view[v].window] \in view[v].spots \cup {None}
        BY <1>1, <2>1, <2>3 DEF ViewsInv, ViewsTypeOK, ViewsCovered, Pictured, Views
      <3> QED BY <2>1, <3>1, <3>2 DEF ViewsInv, ViewsCovered, In, Pictured
    <2> QED BY <2>2, <2>3
  <1>3. view' \in [Viewers -> Views \cup {None}]
    <2>1. view' = [v \in Viewers |-> view'[v]]
      BY DEF Move
    <2> QED BY <1>2, <2>1
  <1> QED BY <1>1, <1>2, <1>3 DEF ViewsInv, ViewsTypeOK, ViewsCovered

LEMMA ViewsInvariant == ObservationSpec => []ViewsInv
  <1>1. ObservationInit => ViewsInv
    BY DEF ObservationInit, ViewsInv, ViewsTypeOK, ViewsCovered, Pictured, In
  <1>2. ASSUME ViewsInv, [ObservationNext]_allVars PROVE ViewsInv'
    <2>1. CASE UNCHANGED obsVars
      BY <1>2, <2>1 DEF obsVars, ViewsInv, ViewsTypeOK, ViewsCovered, Pictured, In
    <2> QED BY <1>2, <2>1, ViewStepKeeps, MoveKeeps DEF ObservationNext, allVars
  <1> QED BY <1>1, <1>2, PTL DEF ObservationSpec

(* Pixels reach a client only if its permission, at that moment, covers    *)
(* the window on a workspace where the window has been since the picture   *)
(* was taken (captureWithOptions, observeWithOptions).                     *)
THEOREM FramesCovered == ObservationSpec => FramesStayCovered
  <1>1. ASSUME ViewsInv, [ObservationNext]_allVars, NEW v \in Viewers,
               In(v, "current"), view'[v] # None, view'[v].phase = "released"
        PROVE  \E ws \in view[v].spots : MayView(v, ws)
    <2>1. view[v] \in Views /\ view[v].phase = "current" /\ view[v].ws \in view[v].spots
      BY <1>1 DEF ViewsInv, ViewsTypeOK, ViewsCovered, In
    <2>2. view'[v].phase # view[v].phase
      BY <1>1, <2>1
    <2>3. ASSUME NEW w \in Windows, NEW ws \in Workspaces \cup {None}, Move(w, ws)
          PROVE  FALSE
      <3>1. view'[v] = view[v] \/ view'[v] = [view[v] EXCEPT !.spots = @ \cup {ws}]
        BY <2>3 DEF Move
      <3> QED BY <2>1, <2>2, <3>1 DEF Views
    <2>4. PICK u \in Viewers : ViewStep(u)
      BY <1>1, <2>2, <2>3 DEF ObservationNext, allVars, obsVars
    <2>5. u = v
      <3>1. view \in [Viewers -> Views \cup {None}]
        BY <1>1 DEF ViewsInv, ViewsTypeOK
      <3>2. u # v => view'[v] = view[v]
        BY <2>4, <3>1
        DEF ViewStep, Look, Permit, AskToView, Shoot, Compare, CompareAgain, Release,
            Return, Onwards, Over
      <3> QED BY <2>2, <3>2
    <2>6. Release(v)
      BY <1>1, <2>1, <2>4, <2>5
      DEF ViewStep, Look, Permit, AskToView, Shoot, Compare, CompareAgain, Return, Over,
          In, ViewsInv, ViewsTypeOK
    <2> QED BY <2>1, <2>6 DEF Release
  <1>2. ViewsInv /\ [ObservationNext]_allVars =>
            [\A v \in Viewers :
                In(v, "current") /\ view'[v] # None /\ view'[v].phase = "released" =>
                    \E ws \in view[v].spots : MayView(v, ws)]_allVars
    BY <1>1
  <1> QED BY <1>2, ViewsInvariant, PTL DEF ObservationSpec, FramesStayCovered

(* If views may be asked for, what the broker does among views is what it  *)
(* does: every invariant and every action property of Authority holds here *)
(* too.                                                                    *)
THEOREM ViewsOnlyWatch ==
    ASSUME \A w \in Windows : <<"observe", WindowScope(w)>> \in Asks
    PROVE  ObservationSpec => Spec
  <1>1. ObservationInit => Init
    BY DEF ObservationInit
  <1>2. ASSUME ViewsInv, ObservationNext PROVE [Next]_vars
    <2>1. ASSUME NEW v \in Viewers, AskToView(v) PROVE Next
      <3> DEFINE c == view[v].client
                 a == <<"observe", WindowScope(view[v].window)>>
      <3>1. view[v] \in Views
        BY <1>2, <2>1 DEF AskToView, In, ViewsInv, ViewsTypeOK
      <3>2. c \in Clients /\ a \in Asks /\ view[v].ws \in Workspaces \cup {None}
        BY <3>1 DEF Views
      <3>3. Ask(c, a[1], a[2], view[v].ws)
        BY <2>1 DEF AskToView
      <3> HIDE DEF c, a
      <3> QED BY <3>2, <3>3 DEF Next, Client
    <2> QED BY <1>2, <2>1
        DEF ObservationNext, ViewStep, Look, Permit, Shoot, Compare, CompareAgain, Release,
            Return, Onwards, Move
  <1>3. ASSUME ViewsInv, [ObservationNext]_allVars PROVE [Next]_vars
    BY <1>2, <1>3 DEF allVars
  <1> QED BY <1>1, <1>3, ViewsInvariant, PTL DEF ObservationSpec, Spec
=============================================================================
