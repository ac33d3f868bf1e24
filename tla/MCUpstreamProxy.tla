--------------------------- MODULE MCUpstreamProxy ---------------------------
(* Symmetry for UpstreamProxy: neither dispatchers nor services are told     *)
(* apart, and the run that uses it checks safety only.                       *)
EXTENDS UpstreamProxy, TLC

Symmetry == Permutations(Dispatchers) \cup Permutations(Services)
=============================================================================
