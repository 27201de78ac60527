----------------------------- MODULE MCRestart -----------------------------
(***************************************************************************)
(* Values of ClientRegistry's constants for TLC.                           *)
(***************************************************************************)
EXTENDS ClientRegistry, TLC

(* Nothing orders or names the members of these sets. *)
Symmetry ==
    Permutations(Apps) \cup Permutations(Auths) \cup Permutations(Codes)
        \cup Permutations(Accesses) \cup Permutations(Refreshes)
        \cup Permutations(Conns) \cup Permutations(Revokers)
        \cup Permutations(PeerIds) \cup Permutations(Posts)
=============================================================================
