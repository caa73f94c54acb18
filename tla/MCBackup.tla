------------------------------- MODULE MCBackup -------------------------------
(***************************************************************************)
(* Instances of Backup for TLC: a project with a PostgreSQL and a Redis,   *)
(* and one without instances, in the same environment.                     *)
(***************************************************************************)
EXTENDS Backup, TLC

CONSTANTS shop, blog, pg, redis

\* No property names a command.
Symmetry == Permutations(Commands)

MCOwner == [i \in Instances |-> shop]
MCEnvironment == [p \in Projects |-> "production"]
MCRetention == [p \in Projects |-> IF p = shop THEN 1 ELSE 0]

\* docs/operations.md:324, "Apply the default or manifest retention policy": once a
\* prune has ended, the project has no more snapshots than its retention keeps.
RetentionApplied == [][\A c \in Commands, p \in Projects :
    pc[c] = "forget" /\ pc'[c] = "idle" /\ job[c].project = p /\ initialized /\ faults' = faults
        => Cardinality({s \in snapshots' : s.project = p}) <= Keep(p)]_vars
=============================================================================
