------------------------------ MODULE MCStateStore ------------------------------
(***************************************************************************)
(* Instances of StateStore for TLC: two processes, two owners with two     *)
(* targets each and a range of two host ports, so that candidates collide, *)
(* the probe wraps around and the range runs out.                          *)
(***************************************************************************)
EXTENDS StateStore, TLC

CONSTANTS p1, p2, o1, o2, FirstPort, LastPort

\* Every key hashes to one of the last two ports of the range.
MCCandidate == [k \in {o1, o2} \X Targets |-> IF k[1] = o1 THEN LastPort ELSE LastPort - 1]

Symmetry == Permutations(Procs)

\* When every key hashes to the last port, the owners are interchangeable too.
SameCandidate == [k \in {o1, o2} \X Targets |-> LastPort]
SymmetryOfOwners == Permutations(Procs) \cup Permutations(Owners)
=============================================================================
