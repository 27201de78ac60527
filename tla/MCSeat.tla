------------------------------- MODULE MCSeat -------------------------------
(***************************************************************************)
(* A small instance of AgentSeat for TLC.                                  *)
(***************************************************************************)
EXTENDS AgentSeatProps, TLC

Symmetry ==
    Permutations(Windows) \cup Permutations(Popups)
        \cup Permutations(Tokens) \cup Permutations(Serials)
=============================================================================
