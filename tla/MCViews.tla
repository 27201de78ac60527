------------------------------ MODULE MCViews ------------------------------
(***************************************************************************)
(* Values of Observation's constants for TLC.                              *)
(***************************************************************************)
EXTENDS AuthorityProps, Observation

(* Viewing by a grant for a workspace or for the window, or for recording. *)
ViewAsks ==
    {<<"observe", [kind |-> "workspace", id |-> s]>> : s \in Workspaces}
        \cup {<<"record", WindowScope(w)>> : w \in Windows}
=============================================================================
