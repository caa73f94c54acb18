------------------------------- MODULE StateStore -------------------------------
(***************************************************************************)
(* The state database, internal/state: its schema and the migrations that  *)
(* Open runs, the allocation and the planning of gateway ports, and the    *)
(* deployments table.  Processes of the program share the database file;   *)
(* SQLite lets one of them at a time hold a write transaction.             *)
(*                                                                         *)
(* Simplifications.                                                        *)
(*  - A target stands for a service and a container port, numbered in the  *)
(*    order in which UniqueTargets sorts them.                             *)
(*  - Candidate, the hash of a key into the range, is any function.        *)
(*  - A row of deployments is its status.                                  *)
(*  - The SELECTs for the targets of one request are one step.             *)
(*  - A database of a newer release, which every operation refuses, and    *)
(*    one that cannot be opened are left out.                              *)
(*  - SQLite is external: a transaction works on a copy of the database,   *)
(*    which a commit makes the database and which anything else discards.  *)
(*                                                                         *)
(* An operator named X_mistake is X with a plausible mistake in it.  No    *)
(* other definition uses it: the mutants of PROJECT.json put it in the     *)
(* place of X to show that a property would notice the mistake.            *)
(***************************************************************************)
EXTENDS Naturals

CONSTANTS
    Procs,       \* processes that open the database
    Owners,      \* pairs of a project and an environment
    Targets,     \* pairs of a service and a container port, as sorted
    PortStart, PortEnd,
    Candidate,   \* Candidate[o, t]: the first port tried for a key
    Statuses,    \* of a deployment
    Ops,         \* the operations this instance runs
    Nil

HostPorts == PortStart..PortEnd
Keys == Owners \X Targets

ASSUME RangeAssumption == PortStart \in Nat /\ PortEnd \in Nat /\ PortStart <= PortEnd
ASSUME TargetsAssumption == Targets \subseteq Nat
ASSUME CandidateAssumption == Candidate \in [Keys -> HostPorts]
ASSUME StatusesAssumption == "running" \in Statuses
ASSUME OpsAssumption ==
    Ops \subseteq {"allocate", "plan", "put", "setStatus", "delete"}

VARIABLES
    disk,   \* the committed database
    work,   \* the copy of the write transaction that is open
    lock,   \* the process that holds it
    pc,
    req     \* req[p]: the operation of p and its local variables

vars == <<disk, work, lock, pc, req>>

-----------------------------------------------------------------------------
schemaVersion == 2
Tables == {"gateway_ports", "deployments"}

Databases == [version : 0..schemaVersion, tables : SUBSET Tables,
              ports : [Keys -> HostPorts \cup {Nil}],
              rows : [Owners -> Statuses \cup {Nil}]]

Requests == [kind : {"allocate", "plan", "put", "setStatus", "delete"}, owner : Owners,
             want : SUBSET Targets,                  \* the targets asked for
             todo : SUBSET Targets,                  \* those still without a port
             got : [Targets -> HostPorts \cup {Nil}],\* assignments
             used : SUBSET HostPorts,
             result : {"none", "ok", "busy", "conflict", "exhausted", "missing", "unsupported"}]

ASSUME NilAssumption ==
    Nil \notin HostPorts /\ Nil \notin Procs /\ Nil \notin Statuses /\ Nil \notin Requests

Steps == {"idle", "open", "migrate_begin", "migrate", "begin", "lookup", "used", "assign",
          "row", "delete_row", "delete_ports", "commit", "done"}

\* A database of an older release has the tables of its version.
TablesOf(v) == {t \in Tables : (t = "gateway_ports" /\ v >= 1) \/ (t = "deployments" /\ v >= 2)}

Injective(f) == \A k, l \in Keys : (k # l /\ f[k] # Nil) => f[k] # f[l]

TypeOK ==
    /\ disk \in Databases
    /\ work \in Databases
    /\ lock \in Procs \cup {Nil}
    /\ pc \in [Procs -> Steps]
    /\ req \in [Procs -> Requests \cup {Nil}]
    /\ \A p \in Procs : pc[p] # "idle" => req[p] # Nil

\* A new file, or the database of the release before this one with the
\* assignments it has made.
Init ==
    /\ \E v \in 0..1, f \in [Keys -> HostPorts \cup {Nil}] :
         /\ Injective(f)
         /\ v = 0 => f = [k \in Keys |-> Nil]
         /\ disk = [version |-> v, tables |-> TablesOf(v), ports |-> f,
                    rows |-> [o \in Owners |-> Nil]]
    /\ work = disk
    /\ lock = Nil
    /\ pc = [p \in Procs |-> "idle"]
    /\ req = [p \in Procs |-> Nil]

-----------------------------------------------------------------------------
(* NextAvailable: from the candidate upwards, around the end of the range.   *)

Probe_noWrap(c, i) == c + i

Probe(c, i) == IF c + i > PortEnd THEN c + i - (PortEnd - PortStart + 1) ELSE c + i

FreeProbes_toTheEnd(c, used) == {i \in 0..(PortEnd - c) : Probe(c, i) \notin used}

FreeProbes(c, used) == {i \in 0..(PortEnd - PortStart) : Probe(c, i) \notin used}

NextAvailable_unprobed(c, used) == IF used = HostPorts THEN Nil ELSE c

NextAvailable(c, used) ==
    IF FreeProbes(c, used) = {} THEN Nil
    ELSE Probe(c, CHOOSE i \in FreeProbes(c, used) : \A j \in FreeProbes(c, used) : i <= j)

UsedPorts_unread(db) == {}

UsedPorts(db) == {db.ports[k] : k \in Keys} \ {Nil}

First(S) == CHOOSE t \in S : \A u \in S : t <= u

-----------------------------------------------------------------------------
At(p, l) == pc[p] = l
Goto(p, l) == pc' = [pc EXCEPT ![p] = l]
Finish(p, r) == Goto(p, "done") /\ req' = [req EXCEPT ![p].result = r]

RollBack_committed(p, r) == Finish(p, r) /\ lock' = Nil /\ disk' = work /\ UNCHANGED work

\* The deferred ROLLBACK: the error is returned and the transaction is gone.
RollBack(p, r) == Finish(p, r) /\ lock' = Nil /\ UNCHANGED <<disk, work>>

BeginImmediate_deferred(p, next) ==
    /\ lock' = p /\ work' = disk
    /\ Goto(p, next)
    /\ UNCHANGED <<disk, req>>

\* BEGIN IMMEDIATE, or an error after the busy timeout.
BeginImmediate(p, next) ==
    \/ /\ lock = Nil
       /\ lock' = p /\ work' = disk
       /\ Goto(p, next)
       /\ UNCHANGED <<disk, req>>
    \/ /\ lock # Nil
       /\ Finish(p, "busy")
       /\ UNCHANGED <<disk, work, lock>>

Start(p, kind, o, W) ==
    /\ At(p, "idle") /\ kind \in Ops
    /\ req' = [req EXCEPT ![p] =
                 [kind |-> kind, owner |-> o, want |-> W, todo |-> {},
                  got |-> [t \in Targets |-> Nil], used |-> {}, result |-> "none"]]
    /\ Goto(p, "open")
    /\ UNCHANGED <<disk, work, lock>>

Planning(p) == req[p].kind = "plan"

\* Where an operation starts on an open database.
Opened(p) ==
    CASE req[p].kind = "plan"                   -> "lookup"
      [] req[p].kind \in {"put", "setStatus"}   -> "row"
      [] req[p].kind \in {"allocate", "delete"} -> "begin"

\* Open reads the version outside of a transaction; OpenReadOnly, for a plan,
\* refuses what it cannot read and never migrates.
OpenStore(p) ==
    /\ At(p, "open")
    /\ \/ Planning(p) /\ disk.version = 0 /\ Finish(p, "unsupported")
       \/ /\ IF Planning(p) THEN disk.version # 0 ELSE disk.version = schemaVersion
          /\ Goto(p, Opened(p)) /\ UNCHANGED req
       \/ /\ ~Planning(p) /\ disk.version # schemaVersion
          /\ Goto(p, "migrate_begin") /\ UNCHANGED req
    /\ UNCHANGED <<disk, work, lock>>

BeginMigration(p) == At(p, "migrate_begin") /\ BeginImmediate(p, "migrate")

\* The version is read again under the lock; CREATE TABLE fails on a table that exists.
Migrate(p) ==
    /\ At(p, "migrate")
    /\ LET table == IF work.version = 0 THEN "gateway_ports" ELSE "deployments" IN
       \/ /\ work.version = schemaVersion
          /\ disk' = work /\ lock' = Nil
          /\ Goto(p, Opened(p))
          /\ UNCHANGED <<work, req>>
       \/ work.version # schemaVersion /\ table \in work.tables /\ RollBack(p, "conflict")
       \/ /\ work.version # schemaVersion /\ table \notin work.tables
          /\ work' = [work EXCEPT !.tables = @ \cup {table}, !.version = @ + 1]
          /\ UNCHANGED <<disk, lock, pc, req>>

-----------------------------------------------------------------------------
(* AllocateGatewayPorts and PlanGatewayPorts.                                *)

\* A plan reads what is committed, an allocation reads inside its transaction.
View(p) == IF Planning(p) THEN disk ELSE work

Begin(p) ==
    /\ At(p, "begin")
    /\ BeginImmediate(p, IF req[p].kind = "delete" THEN "delete_row" ELSE "lookup")

\* existingAssignments
Lookup(p) ==
    /\ At(p, "lookup")
    /\ req' = [req EXCEPT ![p].got =
                 [t \in Targets |-> IF t \in req[p].want THEN View(p).ports[req[p].owner, t] ELSE Nil]]
    /\ Goto(p, "used")
    /\ UNCHANGED <<disk, work, lock>>

\* usedPorts
ReadUsed(p) ==
    /\ At(p, "used")
    /\ req' = [req EXCEPT ![p] = [@ EXCEPT !.used = UsedPorts(View(p)),
                                          !.todo = {t \in req[p].want : req[p].got[t] = Nil}]]
    /\ Goto(p, "assign")
    /\ UNCHANGED <<disk, work, lock>>

\* The next target without a port gets the first free one; an allocation inserts
\* it, which the UNIQUE constraint on host_port may refuse.
Assign(p) ==
    /\ At(p, "assign") /\ req[p].todo # {}
    /\ LET r == req[p]
           t == First(r.todo)
           port == NextAvailable(Candidate[r.owner, t], r.used)
           assigned == [req EXCEPT ![p] = [r EXCEPT !.got = [r.got EXCEPT ![t] = port],
                                                    !.used = r.used \cup {port},
                                                    !.todo = r.todo \ {t}]]
       IN \/ /\ port = Nil /\ Planning(p)
             /\ Finish(p, "exhausted") /\ UNCHANGED <<disk, work, lock>>
          \/ port = Nil /\ ~Planning(p) /\ RollBack(p, "exhausted")
          \/ /\ port # Nil /\ Planning(p)
             /\ req' = assigned /\ UNCHANGED <<disk, work, lock, pc>>
          \/ /\ port # Nil /\ ~Planning(p) /\ port \in UsedPorts(work)
             /\ RollBack(p, "conflict")
          \/ /\ port # Nil /\ ~Planning(p) /\ port \notin UsedPorts(work)
             /\ work' = [work EXCEPT !.ports = [@ EXCEPT ![<<r.owner, t>>] = port]]
             /\ req' = assigned
             /\ UNCHANGED <<disk, lock, pc>>

Assigned(p) ==
    /\ At(p, "assign") /\ req[p].todo = {}
    /\ IF Planning(p) THEN Finish(p, "ok") ELSE Goto(p, "commit") /\ UNCHANGED req
    /\ UNCHANGED <<disk, work, lock>>

Commit(p) ==
    /\ At(p, "commit")
    /\ disk' = work /\ lock' = Nil
    /\ Finish(p, "ok")
    /\ UNCHANGED work

-----------------------------------------------------------------------------
(* The deployments table.  PutDeployment and SetDeploymentStatus are single  *)
(* statements, each a transaction of its own.                                *)

WriteRow_upsert(p) ==
    /\ At(p, "row") /\ lock = Nil
    /\ \E st \in Statuses : disk' = [disk EXCEPT !.rows = [@ EXCEPT ![req[p].owner] = st]]
    /\ Finish(p, "ok")
    /\ UNCHANGED <<work, lock>>

WriteRow(p) ==
    /\ At(p, "row")
    /\ LET r == req[p] IN
       \/ /\ lock = Nil
          /\ r.kind = "setStatus" => disk.rows[r.owner] # Nil
          /\ \E st \in IF r.kind = "put" THEN {"running"} ELSE Statuses :
               disk' = [disk EXCEPT !.rows = [@ EXCEPT ![r.owner] = st]]
          /\ Finish(p, "ok")
       \/ /\ lock = Nil
          /\ r.kind = "setStatus" /\ disk.rows[r.owner] = Nil
          /\ Finish(p, "missing") /\ UNCHANGED disk
       \/ lock # Nil /\ Finish(p, "busy") /\ UNCHANGED disk
    /\ UNCHANGED <<work, lock>>

DeleteRow_committed(p) ==
    /\ At(p, "delete_row")
    /\ work' = [work EXCEPT !.rows = [@ EXCEPT ![req[p].owner] = Nil]]
    /\ disk' = work'
    /\ Goto(p, "delete_ports")
    /\ UNCHANGED <<lock, req>>

\* DeleteProject: two statements in one transaction.
DeleteRow(p) ==
    /\ At(p, "delete_row")
    /\ work' = [work EXCEPT !.rows = [@ EXCEPT ![req[p].owner] = Nil]]
    /\ Goto(p, "delete_ports")
    /\ UNCHANGED <<disk, lock, req>>

DeletePorts(p) ==
    /\ At(p, "delete_ports")
    /\ work' = [work EXCEPT !.ports =
                  [k \in Keys |-> IF k[1] = req[p].owner THEN Nil ELSE work.ports[k]]]
    /\ Goto(p, "commit")
    /\ UNCHANGED <<disk, lock, req>>

-----------------------------------------------------------------------------
\* A statement fails, the context is cancelled or the process dies: SQLite drops
\* the transaction it held.
Abort(p) ==
    /\ pc[p] \notin {"idle", "done"}
    /\ Goto(p, "idle")
    /\ req' = [req EXCEPT ![p] = Nil]
    /\ lock' = IF lock = p THEN Nil ELSE lock
    /\ UNCHANGED <<disk, work>>

Return(p) ==
    /\ At(p, "done")
    /\ Goto(p, "idle")
    /\ req' = [req EXCEPT ![p] = Nil]
    /\ UNCHANGED <<disk, work, lock>>

Opening(p) == OpenStore(p) \/ BeginMigration(p) \/ Migrate(p) \/ Begin(p)
Allocating(p) == Lookup(p) \/ ReadUsed(p) \/ Assign(p) \/ Assigned(p)
Deleting(p) == DeleteRow(p) \/ DeletePorts(p)

Starting(p) ==
    \/ \E kind \in {"allocate", "plan"}, o \in Owners, W \in SUBSET Targets : Start(p, kind, o, W)
    \/ \E kind \in {"put", "setStatus", "delete"}, o \in Owners : Start(p, kind, o, {})

Step(p) == Starting(p) \/ Opening(p) \/ Allocating(p) \/ Commit(p) \/ WriteRow(p)
              \/ Deleting(p) \/ Abort(p) \/ Return(p)

Next == \E p \in Procs : Step(p)

Spec == Init /\ [][Next]_vars

-----------------------------------------------------------------------------
(* Properties.                                                               *)

\* No two routes on the host are ever given the same loopback port.
UniqueHostPorts == Injective(disk.ports)

\* Neither the UNIQUE constraint nor a CREATE TABLE ever refuses a statement: what
\* a transaction read under the lock is still true when it writes.
NoConflict == \A p \in Procs : req[p] # Nil => req[p].result # "conflict"

\* An allocation is only refused for lack of ports when the whole range is taken.
ExhaustedOnlyWhenFull ==
    \A p \in Procs : req[p] # Nil /\ req[p].result = "exhausted" => req[p].used = HostPorts

\* A plan reads what is assigned and what is used at two moments, with allocations of
\* others in between.  While nothing is deleted the ports it shows are still distinct.
PlannedPortsDistinct ==
    \A p \in Procs : (req[p] # Nil /\ req[p].kind = "plan" /\ req[p].result = "ok") =>
        \A t, u \in req[p].want : t # u => req[p].got[t] # req[p].got[u]

\* A committed assignment changes only by the deletion of its owner, which takes
\* the owner's other assignments and its deployment with it in the same step.
StableUntilDeleted ==
    [][\A k \in Keys :
          (disk.ports[k] # Nil /\ disk'.ports[k] # disk.ports[k])
            => /\ disk'.rows[k[1]] = Nil
               /\ \A t \in Targets : disk'.ports[k[1], t] = Nil]_vars

\* The row of a deleted project comes back only by a new deployment: a stop or a
\* restart that was under way when the project was deleted does not revive it.
OnlyPutRecords ==
    [][\A o \in Owners :
          (disk.rows[o] = Nil /\ disk'.rows[o] # Nil)
            => \E p \in Procs : /\ pc[p] = "row" /\ pc'[p] = "done"
                                /\ req[p].kind = "put" /\ req[p].owner = o]_vars

\* The ports that a process waits for: those of an allocation that has not returned.
AskedBy(p) ==
    IF req[p] # Nil /\ req[p].kind = "allocate" /\ req[p].result = "none"
    THEN {req[p].owner} \X req[p].want ELSE {}

\* What is committed is a PortTable: unique and stable assignments, granted to a request
\* all at once or not at all, also when the range runs out in the middle of it, and
\* released in one step with the deployment of their owner.
Abstract == INSTANCE PortTable WITH
    assigned <- disk.ports,
    recorded <- {o \in Owners : disk.rows[o] # Nil},
    asked <- [p \in Procs |-> AskedBy(p)]
AbstractSpec == Abstract!Spec
=============================================================================
