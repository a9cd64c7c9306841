-------------------------------- MODULE MCHub -------------------------------
(***************************************************************************)
(* Instances of the hub for TLC.  Each configuration gives the numbers of  *)
(* calls, keys and applications it needs.                                  *)
(***************************************************************************)
EXTENDS HubRefinement, TLC

\* Calls of a kind, keys and applications differ in name only; a configuration
\* that uses the symmetry has either every application seeded or none.
Symmetry ==
  Permutations(PrepareCall) \cup Permutations(ReviewCall)
    \cup Permutations(UpdateCall) \cup Permutations(CreateCall)
    \cup Permutations(ReadCall) \cup Permutations(Key) \cup Permutations(App)

=============================================================================
