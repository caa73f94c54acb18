------------------------------ MODULE MCLifecycle ------------------------------
(***************************************************************************)
(* Instances of Lifecycle for TLC.  The model values and the bounds are in *)
(* the .cfg files.                                                         *)
(***************************************************************************)
EXTENDS Lifecycle, TLC

\* The ports Docker hands out are interchangeable, and so are the versions of
\* the manifest that is replaced blue-green: no property names one of them.
Symmetry == Permutations(DynPorts) \cup Permutations(Routed \cap Stateless)
=============================================================================
