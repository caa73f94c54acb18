--------------------------------- MODULE Backup ---------------------------------
(***************************************************************************)
(* Backups and data services: cli/backup.go, backup/manager.go and         *)
(* cli/data_services.go, with PostgreSQL, Redis and Restic as they are     *)
(* used.                                                                   *)
(*                                                                         *)
(* `backup create` dumps the instances of a project into a staging         *)
(* directory, hands it to Restic and removes it; `backup prune` applies    *)
(* the retention.  `postgres restore` dumps the database for safety before *)
(* it replaces it.  Commands, the backup timer and the applications that   *)
(* write to the instances run at the same time.                            *)
(*                                                                         *)
(* Simplifications.                                                        *)
(*  - The content of an instance is a number no other write has given it.  *)
(*  - A retention of days, weeks and months is a number of newest          *)
(*    snapshots.  Restic applies it to the snapshots of each set of paths. *)
(*  - What else a snapshot holds (manifest, artifacts, secret store, state *)
(*    database) is read as it is and left out, and so are the commands     *)
(*    that only read or that write what no other part reads (restore of a  *)
(*    snapshot into a directory, create-db, create-user, a shell).         *)
(*  - Dry runs, and commands refused before they begin, change nothing.    *)
(* Definitions named X_mistake are not part of the model: each is an       *)
(* erroneous variant of X, and a property must tell the two apart.         *)
(***************************************************************************)
EXTENDS Naturals, FiniteSets, SequencesExt

CONSTANTS
    Commands,      \* processes that run a command
    Projects,
    Postgres, Redis,  \* instances
    Owner,         \* the project an instance belongs to
    Environment,   \* the environment of a project
    Retention,     \* backup.retention of a project, 0 when it is not given
    Default,       \* the retention that is used then
    MaxWrites, MaxSnapshots, MaxFaults, MaxJobs,  \* bounds
    None,          \* nothing
    Torn           \* half of one content and half of another

Instances == Postgres \cup Redis

ASSUME InstancesAssumption ==
    /\ Owner \in [Instances -> Projects] /\ Postgres \cap Redis = {}
    /\ Retention \in [Projects -> Nat] /\ Default \in Nat \ {0}
ASSUME BoundsAssumption ==
    {MaxWrites, MaxSnapshots, MaxFaults, MaxJobs} \subseteq Nat /\ IsFiniteSet(Instances)

VARIABLES
    data,         \* content of each instance
    rdb,          \* content of the dump.rdb of each Redis
    initialized,  \* whether the repository exists
    snapshots,    \* its snapshots
    taken,        \* how many it has ever had, the time of the last
    dumps,        \* complete dumps on disk outside of a staging directory
    pc, job,      \* step of a command, and what it works on
    dir,          \* its staging directory: what has been dumped into it
    left,         \* staging directories of commands that have returned
    seen,         \* history: contents an instance has had since the command began
    replaced,     \* history: a restore replaced a content seen by it
    writes, jobs, faults

data_ == <<data, rdb, writes>>
repo == <<initialized, snapshots, taken>>
vars == <<data_, repo, dumps, pc, job, dir, left, seen, replaced, jobs, faults>>

Contents == 0..MaxWrites \cup {Torn}
Dirs == [Instances -> Contents \cup {None}]
ASSUME NoneAssumption == None \notin Projects \cup Instances \cup Contents \cup Dirs
Empty == 0
NothingDumped == [i \in Instances |-> None]
NotBegun == [i \in Instances |-> {}]
\* refused, history: the instances whose SAVE was answered with an error.
NoJob == [project |-> None, todo |-> <<>>, target |-> None, safe |-> TRUE, refused |-> {}]

Init ==
    /\ data = [i \in Instances |-> Empty] /\ rdb = [i \in Redis |-> Empty]
    /\ initialized = FALSE /\ snapshots = {} /\ taken = 0 /\ dumps = {}
    /\ pc = [c \in Commands |-> "idle"] /\ job = [c \in Commands |-> NoJob]
    /\ dir = [c \in Commands |-> None] /\ left = {}
    /\ seen = [c \in Commands |-> NotBegun]
    /\ replaced = {}
    /\ writes = 0 /\ jobs = 0 /\ faults = 0

Begin(c, step, j) ==
    /\ pc[c] = "idle" /\ jobs < MaxJobs
    /\ jobs' = jobs + 1
    /\ pc' = [pc EXCEPT ![c] = step]
    /\ job' = [job EXCEPT ![c] = j]
    /\ seen' = [seen EXCEPT ![c] = [i \in Instances |-> {data[i]}]]

Return(c) ==
    /\ pc' = [pc EXCEPT ![c] = "idle"]
    /\ job' = [job EXCEPT ![c] = NoJob]

End(c) == Return(c) /\ seen' = [seen EXCEPT ![c] = NotBegun]

Goto(c, step) == pc' = [pc EXCEPT ![c] = step] /\ UNCHANGED <<job, seen>>

Fault == faults < MaxFaults /\ faults' = faults + 1

\* An instance gets a content, which the commands under way but the one of by have seen.
Becomes(i, content, by) ==
    /\ data' = [data EXCEPT ![i] = content]
    /\ seen' = [c \in Commands |->
           IF c \in by THEN NotBegun
           ELSE IF pc[c] = "idle" THEN seen[c]
           ELSE [seen[c] EXCEPT ![i] = @ \cup {content}]]

\* An application writes.
Write(i) ==
    /\ writes < MaxWrites
    /\ writes' = writes + 1
    /\ Becomes(i, writes', {})
    /\ UNCHANGED <<rdb, repo, dumps, pc, job, dir, left, replaced, jobs, faults>>

-----------------------------------------------------------------------------
(* backup create.                                                            *)

\* The instances a project's backup includes, PostgreSQL first.
Included(p) == SetToSeq({i \in Postgres : Owner[i] = p}) \o SetToSeq({i \in Redis : Owner[i] = p})

\* With --init the repository is created, or the command fails because it exists.
Create(c) == \E p \in Projects, init \in BOOLEAN :
    /\ ~(init /\ initialized)
    /\ Begin(c, "prepare", [NoJob EXCEPT !.project = p, !.todo = Included(p)])
    /\ initialized' = (initialized \/ init)
    /\ UNCHANGED <<data_, snapshots, taken, dumps, dir, left, replaced, faults>>

\* Only a project with instances to dump gets a directory.
MakeStaging(c) ==
    /\ pc[c] = "prepare"
    /\ dir' = [dir EXCEPT ![c] = IF job[c].todo = <<>> THEN None ELSE NothingDumped]
    /\ Goto(c, IF job[c].todo = <<>> THEN "restic" ELSE "dump")
    /\ UNCHANGED <<data_, repo, dumps, left, replaced, jobs, faults>>

\* The instance a command works on.
Current(c) == IF job[c].todo = <<>> THEN job[c].target ELSE Head(job[c].todo)

Staged_first(c, content) ==
    /\ dir' = [dir EXCEPT ![c][Current(c)] = content]
    /\ job' = [job EXCEPT ![c].todo = Tail(@)]
    /\ pc' = [pc EXCEPT ![c] = "restic"]
    /\ UNCHANGED seen
\* The instance has been dumped, and the next one follows.
Staged(c, content) ==
    LET rest == Tail(job[c].todo)
    IN  /\ dir' = [dir EXCEPT ![c][Current(c)] = content]
        /\ job' = [job EXCEPT ![c].todo = rest]
        /\ pc' = [pc EXCEPT ![c] = IF rest = <<>> THEN "restic" ELSE "dump"]
        /\ UNCHANGED seen

DumpPostgres(c) ==
    /\ pc[c] = "dump" /\ Current(c) \in Postgres
    /\ Staged(c, data[Current(c)])
    /\ UNCHANGED <<data_, repo, dumps, left, replaced, jobs, faults>>

\* BGSAVE returns before dump.rdb is written.
SavedRedis_background(i) == rdb[i]
\* SAVE returns when dump.rdb has the content of that moment.
SavedRedis(i) == data[i]

SaveRedis(c) ==
    /\ pc[c] = "dump" /\ Current(c) \in Redis
    /\ rdb' = [rdb EXCEPT ![Current(c)] = SavedRedis(Current(c))]
    /\ Goto(c, "copy")
    /\ UNCHANGED <<data, writes, repo, dumps, dir, left, replaced, jobs, faults>>

\* Redis answers SAVE with an error (the disk is full, a BGSAVE is running).  redis-cli
\* without -e exits 0 then, so the command goes on with the dump.rdb that is there.
SaveRefused(c) ==
    /\ pc[c] = "dump" /\ Current(c) \in Redis /\ Fault
    /\ job' = [job EXCEPT ![c].refused = @ \cup {Current(c)}]
    /\ pc' = [pc EXCEPT ![c] = "copy"]
    /\ UNCHANGED <<data_, repo, dumps, dir, left, seen, replaced, jobs>>

\* docker compose cp, into the staging directory.
CopyRedis(c) ==
    /\ pc[c] = "copy" /\ job[c].todo # <<>>
    /\ Staged(c, rdb[Current(c)])
    /\ UNCHANGED <<data_, repo, dumps, left, replaced, jobs, faults>>

AfterFailedDump_goesOn(c) == Staged(c, None) /\ UNCHANGED left
\* The removal of the directory is deferred only after it has been prepared.
AfterFailedDump(c) ==
    /\ End(c)
    /\ left' = left \cup {<<job[c].project, dir[c]>>}
    /\ dir' = [dir EXCEPT ![c] = None]

DumpFails(c) ==
    /\ pc[c] \in {"dump", "copy"} /\ job[c].todo # <<>> /\ Fault
    /\ AfterFailedDump(c)
    /\ UNCHANGED <<data_, repo, dumps, replaced, jobs>>

RemoveStaging_whenStored(c, stored) ==
    left' = IF stored \/ dir[c] = None THEN left ELSE left \cup {<<job[c].project, dir[c]>>}
\* The deferred removal, whether the snapshot has been stored or not.
RemoveStaging(c, stored) == left' = left

\* Restic stores the snapshot; among its paths is a directory no other snapshot has.
Restic(c) ==
    /\ pc[c] = "restic" /\ initialized /\ Cardinality(snapshots) < MaxSnapshots
    /\ taken' = taken + 1
    /\ snapshots' = snapshots \cup
           {[project |-> job[c].project, content |-> dir[c], seen |-> seen[c],
             refused |-> job[c].refused, at |-> taken']}
    /\ RemoveStaging(c, TRUE)
    /\ dir' = [dir EXCEPT ![c] = None]
    /\ End(c)
    /\ UNCHANGED <<data_, initialized, dumps, replaced, jobs, faults>>

\* Restic refuses the repository, of which the command notifies.
ResticFails(c) ==
    /\ pc[c] = "restic"
    /\ IF initialized THEN Fault ELSE UNCHANGED faults
    /\ RemoveStaging(c, FALSE)
    /\ dir' = [dir EXCEPT ![c] = None]
    /\ End(c)
    /\ UNCHANGED <<data_, repo, dumps, replaced, jobs>>

-----------------------------------------------------------------------------
(* backup prune.                                                             *)

\* The default stands for a retention that is not given.
Keep(p) == IF Retention[p] = 0 THEN Default ELSE Retention[p]

\* restic forget with two --tag options: the snapshots that have one tag or the other.
Tagged(s, p) == s.project = p \/ Environment[s.project] = Environment[p]

SamePaths_ignored(s, t) == TRUE
\* Two snapshots have the same paths when neither has a staging directory of its own.
SamePaths(s, t) == s = t \/ (s.project = t.project /\ s.content = None /\ t.content = None)

\* What forget removes: of the snapshots with the same paths, all but the newest.
Expired(p, s) ==
    /\ Tagged(s, p)
    /\ Cardinality({t \in snapshots :
                       t.at > s.at /\ Tagged(t, p) /\ SamePaths(s, t)}) >= Keep(p)

Prune(c) == \E p \in Projects :
    /\ Begin(c, "forget", [NoJob EXCEPT !.project = p])
    /\ UNCHANGED <<data_, repo, dumps, dir, left, replaced, faults>>

Forget(c) ==
    /\ pc[c] = "forget" /\ initialized
    /\ snapshots' = {s \in snapshots : ~Expired(job[c].project, s)}
    /\ End(c)
    /\ UNCHANGED <<data_, initialized, taken, dumps, dir, left, replaced, jobs, faults>>

ForgetFails(c) ==
    /\ pc[c] = "forget"
    /\ IF initialized THEN Fault ELSE UNCHANGED faults
    /\ End(c)
    /\ UNCHANGED <<data_, repo, dumps, dir, left, replaced, jobs>>

-----------------------------------------------------------------------------
(* postgres backup and restore, redis backup and flush.                      *)

\* Each writes a new file.
BackupInstance(c) == \E i \in Instances :
    /\ Begin(c, IF i \in Postgres THEN "dump-to-file" ELSE "dump", [NoJob EXCEPT !.target = i])
    /\ UNCHANGED <<data_, repo, dumps, dir, left, replaced, faults>>

DumpToFile(c) ==
    /\ pc[c] = "dump-to-file"
    /\ dumps' = dumps \cup {<<job[c].target, data[job[c].target]>>}
    /\ End(c)
    /\ UNCHANGED <<data_, repo, dir, left, replaced, jobs, faults>>

CopyRedisToFile(c) ==
    /\ pc[c] = "copy" /\ job[c].todo = <<>>
    /\ dumps' = dumps \cup {<<job[c].target, rdb[job[c].target]>>}
    /\ End(c)
    /\ UNCHANGED <<data_, repo, dir, left, replaced, jobs, faults>>

\* An incomplete file is removed, or never made.
BackupInstanceFails(c) ==
    /\ pc[c] \in {"dump-to-file", "dump", "copy"} /\ job[c].todo = <<>> /\ Fault
    /\ End(c)
    /\ UNCHANGED <<data_, repo, dumps, dir, left, replaced, jobs>>

\* FLUSHALL; Redis may have save points, and writes an empty dump.rdb then.
Flush(c) == \E i \in Redis :
    /\ pc[c] = "idle" /\ jobs < MaxJobs
    /\ jobs' = jobs + 1
    /\ Becomes(i, Empty, {})
    /\ rdb' \in {rdb, [rdb EXCEPT ![i] = Empty]}
    /\ UNCHANGED <<writes, repo, dumps, pc, job, dir, left, replaced, faults>>

\* Unless --no-safety-backup is given, a dump comes before the restore.
Restore(c) == \E i \in Postgres, safe \in BOOLEAN :
    /\ Begin(c, IF safe THEN "safety" ELSE "apply", [NoJob EXCEPT !.target = i, !.safe = safe])
    /\ UNCHANGED <<data_, repo, dumps, dir, left, replaced, faults>>

SafetyDump(c) ==
    /\ pc[c] = "safety"
    /\ dumps' = dumps \cup {<<job[c].target, data[job[c].target]>>}
    /\ Goto(c, "apply")
    /\ UNCHANGED <<data_, repo, dir, left, replaced, jobs, faults>>

AfterFailedSafety_goesOn(c) == Goto(c, "apply")
\* No safety dump, no restore.
AfterFailedSafety(c) == End(c)

SafetyFails(c) ==
    /\ pc[c] = "safety" /\ Fault
    /\ AfterFailedSafety(c)
    /\ UNCHANGED <<data_, repo, dumps, dir, left, replaced, jobs>>

\* pg_restore replaces the content of the database.
Replace(c, content) ==
    /\ Becomes(job[c].target, content, {c})
    /\ replaced' = IF job[c].safe
                   THEN replaced \cup {<<job[c].target, seen[c][job[c].target]>>} ELSE replaced
    /\ Return(c)
    /\ UNCHANGED <<rdb, writes, repo, dumps, dir, left, jobs>>

\* The file is a dump made before, of this or of another instance.
Apply(c) ==
    /\ pc[c] = "apply"
    /\ \E d \in dumps : d[1] \in Postgres /\ Replace(c, d[2])
    /\ UNCHANGED faults

\* pg_restore does not run in one transaction: what it did before it failed remains.
ApplyFails(c) ==
    /\ pc[c] = "apply" /\ Fault
    /\ Replace(c, Torn)

\* The file does not exist, which is found out after the safety dump.
NoInput(c) ==
    /\ pc[c] = "apply"
    /\ End(c)
    /\ UNCHANGED <<data_, repo, dumps, dir, left, replaced, jobs, faults>>

-----------------------------------------------------------------------------
\* The process ends in the middle; its staging directory stays, and nothing looks at it again.
Die(c) ==
    /\ pc[c] # "idle" /\ Fault
    /\ dir' = [dir EXCEPT ![c] = None]
    /\ End(c)
    /\ UNCHANGED <<data_, repo, dumps, left, replaced, jobs>>

Next ==
    \/ \E i \in Instances : Write(i)
    \/ \E c \in Commands :
          \/ Create(c) \/ MakeStaging(c) \/ DumpPostgres(c)
          \/ SaveRedis(c) \/ SaveRefused(c) \/ CopyRedis(c) \/ DumpFails(c) \/ Restic(c) \/ ResticFails(c)
          \/ Prune(c) \/ Forget(c) \/ ForgetFails(c)
          \/ BackupInstance(c) \/ DumpToFile(c) \/ CopyRedisToFile(c) \/ BackupInstanceFails(c)
          \/ Flush(c) \/ Restore(c) \/ SafetyDump(c) \/ SafetyFails(c)
          \/ Apply(c) \/ ApplyFails(c) \/ NoInput(c) \/ Die(c)

Spec == Init /\ [][Next]_vars

-----------------------------------------------------------------------------
(* Properties.                                                               *)

\* Every variable has a value of its type; a command that works has begun.
Steps == {"idle", "prepare", "dump", "copy", "restic", "forget", "dump-to-file", "safety", "apply"}
TypeOK ==
    /\ data \in [Instances -> Contents] /\ rdb \in [Redis -> Contents]
    /\ initialized \in BOOLEAN /\ dumps \subseteq Instances \X Contents
    /\ taken \in Nat
    /\ \A s \in snapshots :
          s.project \in Projects /\ s.content \in Dirs \cup {None} /\ s.at \in 1..taken
    /\ pc \in [Commands -> Steps] /\ dir \in [Commands -> Dirs \cup {None}]
    /\ left \subseteq Projects \X Dirs
    /\ \A c \in Commands :
          /\ pc[c] = "idle" => job[c] = NoJob /\ dir[c] = None
          /\ pc[c] = "restic" <=> pc[c] # "idle" /\ job[c].project # None /\ job[c].todo = <<>>
                                  /\ pc[c] \notin {"forget", "prepare"}
    /\ writes \in 0..MaxWrites /\ jobs \in 0..MaxJobs /\ faults \in 0..MaxFaults

\* A snapshot of a project holds a dump of every instance the project includes,
\* and each dump is a content the instance had while the command ran: neither an
\* instance that could not be dumped is missing, nor an old dump.rdb is taken for a
\* new one, unless Redis answered this command's SAVE with an error, which the command
\* does not notice.  (prepareBackupStaging.)
SnapshotIsComplete == \A s \in snapshots : \A i \in Instances :
    Owner[i] = s.project =>
        /\ s.content # None /\ s.content[i] # None
        /\ s.content[i] \in s.seen[i] \/ i \in s.refused

\* What a restore with its safety dump replaces can be had back: there is a dump of
\* that instance with a content it had after the command began, also when several
\* restores, writes and failures overlap.  (postgres restore.)
SafetyDumpExists == \A r \in replaced : \E d \in dumps : d[1] = r[1] /\ d[2] \in r[2]

\* A command that returns leaves a staging directory behind only when an instance
\* could not be dumped into it; never one with all of the project's data.
\* (backup create, the deferred os.RemoveAll.)
NoCompleteStagingLeft == \A l \in left : \E i \in Instances : Owner[i] = l[1] /\ l[2][i] = None

Newest(p) == {s \in snapshots : s.project = p
                 /\ \A t \in snapshots : t.project = p => t.at <= s.at}

\* No step takes a project its newest snapshot, not even the prune of another project
\* whose tags the snapshot shares.  (backup prune, RetentionArguments.)
PruneKeepsNewest == [][\A p \in Projects : Newest(p) \subseteq snapshots']_vars
=============================================================================
