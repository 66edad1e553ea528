---------------------------- MODULE MCStateFile ----------------------------
(* Small instances of StateFile. *)
EXTENDS StateFile, TLC

CONSTANTS k1, k2, k3, api, web

\* up api, up web, and down of either.
MCEffects == {Recording(s) : s \in {api, web}} \cup {Forgetting(s) : s \in {api, web}}

CommandSymmetry == Permutations({k1, k2, k3})
=============================================================================
