--------------------------- MODULE MCLifecycleClaims ---------------------------
(***************************************************************************)
(* A statement of docs/project-lifecycle-v1.md about rollbacks that the    *)
(* code does not keep, the one property of its run.                        *)
(***************************************************************************)
EXTENDS MCLifecycle

\* Lines 67-68: "Current and previous artifacts are swapped only as a successful
\* unit": after a successful rollback the route leads to containers that run the
\* artifact the row names.
RollbackServesItsArtifact ==
    \A p \in Procs : Ended(p, {"rollback", "switchback"}, {"ok"}) /\ caddy # Nil =>
        caddy = RouteOf(compose[db.slot].m, compose[db.slot].port)
=============================================================================
