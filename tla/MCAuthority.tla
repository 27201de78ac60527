----------------------------- MODULE MCAuthority -----------------------------
(***************************************************************************)
(* Values of Authority's constants for TLC.                                *)
(***************************************************************************)
EXTENDS AuthorityProps, TLC

AsksFor(cap) == {<<cap, WindowScope(w)>> : w \in Windows}

NoAsks == {}
ControlAsks == AsksFor("control")
RecordAsks == AsksFor("record")
RequestAsks == ControlAsks \cup RecordAsks
MixedAsks == AsksFor("control") \cup AsksFor("observe")

(* Nothing orders or names the members of these sets. *)
Symmetry ==
    Permutations(Tokens) \cup Permutations(Clients) \cup Permutations(UIs)
        \cup Permutations(PickerIds) \cup Permutations(Calls)
        \cup Permutations(Windows)

(* Goroutines go on, and nothing else is owed: the guard need never answer. *)
SilentGuardSpec ==
    /\ Spec
    /\ \A t \in UIs \cup Calls \cup {Maint} : SF_vars(Advance(t))
    /\ \A r \in Recorders : WF_vars(RecordStep(r))
=============================================================================
