# Omurga in TLA+

TLA+ models of [omurga](../src/README.md), a command-line tool that sets up a
host, deploys Docker Compose projects to it behind Caddy, and runs backups,
alerts, secrets and shared services around them.  The modules are translated
from the Go source; `PROJECT.json` maps every definition to the lines it stands
for, lists the TLC runs, the hazards the properties are aimed at, the findings
and the theorems.

    tlc -workers 2 -config MCLifecycle_faults.cfg MCLifecycle.tla
    tlapm StateStore_proofs.tla

## The system

One binary, no daemon of its own except the optional webhook server.  Every
command is a process that reads and writes shared state, which no common lock or
transaction ties together:

| State | Where | Written by |
|---|---|---|
| Compose artifacts: base layout, blue-green slots `a` and `b`, `compose.previous.yaml` | project directory | deploy, rollback, delete |
| Caddy snippet, its `.previous`, the import in the base Caddyfile; what the running Caddy serves | `/etc/caddy`, Caddy | deploy, rollback, delete |
| containers | Docker daemon | deploy, rollback, restart, stop, delete |
| deployments and host ports | SQLite database | the same, and port allocation |
| age identity, encrypted store of each project, runtime directory | `/etc/omurga`, state directory, `/run` | secret set and remove, deploy |
| profiles, overlays, `webhooks.yaml` and its secrets | one file each | their `add`, `set`, `remove` |
| `alert-state.json` | state directory | every run of `alert check` |
| staging directories, Restic repository, dumps | backup directory | backup, postgres, redis commands |
| units, shared services, monitoring stack | systemd, Docker | schedule, install, remove |
| packages, sources, firewall, services | the host | host init, install, update |

### Inventory

| Component | State | Operations | Hard behaviour | What makes it correct |
|---|---|---|---|---|
| Lifecycle (`internal/project/lifecycle*.go`) | the first four above | deploy in place or blue-green, rollback in place or between slots, restart, stop, delete | a step may fail and the error path too; crash or interrupt between steps; CLI and webhook at once; any order of operations over three layouts | a success serves what it says, a failure restores what was, no downtime in a switch, a rollback exchanges two pairs of artifacts, a deletion leaves nothing |
| State database (`internal/state/`) | schema version, `gateway_ports`, `deployments` | migrate, allocate, plan, put, set status, delete | processes share the file; aborts; stale reads of a plan; a full range | ports unique and stable, a request granted all or nothing, ports and row released together, status never revives a deleted row |
| Port probe (`internal/gateway/ports.go`) | none | candidate, next available | wrap-around, exhaustion | in range, free, gives up only when all are taken |
| Webhook server (`internal/webhook/`) | replay guard, `replay.json`, deployment mutex | serve a delivery, restart | concurrent requests, replays, expiry, crash, torn file | serialized, at most once for each delivery ID, an acknowledged one is never accepted again |
| Secret store (`internal/secret/`) | identity, stores, runtime files | set, remove, materialize | load-modify-save without a lock, two first commands, failure half way, restart | nothing stored is lost, a store decrypts, containers see one version |
| Alerts (`internal/alert/`, `host/monitor.go`) | issues, samples, baselines | check by timer or by hand | two runs at once, a channel or the save fails | what is recorded was told, a spike has lasted and is measured against what was before it |
| Backup, data services (`internal/backup/`, `cli/backup.go`, `cli/data_services.go`) | staging directory, repository, dumps | create, prune, restore, dump, flush | applications write meanwhile, failure half way | snapshots complete, staging removed, safety dump before a restore, newest snapshot survives |
| Profiles, overlays, webhooks (`internal/registry/`, `remote/`, `environment/`, `webhook/config.go`) | one file each | add, set, remove, login, logout | concurrent processes, files written in place, a server that read them once | no entry lost or invented, a webhook has the secret that was told |
| Timers, webhook service, shared services, monitoring stack | units, Compose files, containers, data | schedule, unschedule, install, remove | failure half way, restart of the host, two commands | what runs can be removed, what was reported is in effect |
| Host installation and maintenance (`internal/host/`) | packages, sources, services, firewall | init, install, update, doctor | run again on what an earlier run left | a run sets up what it names, SSH stays open |
| Manifest, rendering | none | load, merge overlays, validate, render | none: pure | overlay wins, references resolve |
| CLI, progress, support bundle, AI generation, packaging | none | | none | |

How they interact.  A command of the CLI, or a handler of the webhook server,
calls the lifecycle; the lifecycle hands the project its secrets, asks the state
database for ports, renders the artifacts, runs `docker` and `systemctl`, and
records the deployment.  The webhook server serializes its own deliveries with a
mutex, which a command of the CLI does not take.  systemd starts `alert check`,
`backup create` and the webhook server; an administrator may run the same
commands beside them.

## The modules

| Module | What it is |
|---|---|
| `Lifecycle` | the operations on one project, step by step, with failures, cancelled contexts, crashes |
| `MCLifecycle`, `MCLifecycleClaims` | its instances; a statement of the documentation that does not hold |
| `Lifecycle_proofs` | its proofs |
| `PortTable` | abstract specification: what port assignments promise |
| `StateStore` | the database: migrations, allocation and planning, the deployments table; implements `PortTable` |
| `MCStateStore`, `StateStore_proofs` | its instances; its proofs |
| `Webhook` | the webhook server, its replay guard and its restarts |
| `MCWebhook`, `Webhook_proofs` | its instances; its proofs |
| `AlertMonitor` | the checks, the spike evaluation and the runs of `alert check` |
| `MCAlertMonitor`, `AlertMonitor_proofs` | its instance; its proofs |
| `Backup` | backups, retention, dumps and restores |
| `MCBackup`, `Backup_proofs` | its instances; its proofs |
| `SecretStore`, `ConfigFiles`, `MCStores` | the secret store; profiles, overlays and webhooks; the instance of both |
| `SecretStore_proofs`, `ConfigFiles_proofs` | the proofs of the first, of the second and of what `MCStores` checks of both |
| `HostSetup`, `ManagedServices`, `MCHost` | the installers; timers, services and stacks; the instance of both |
| `Host_proofs` | the proofs of both |

An operator named `X_mistake` is `X` with a plausible bug.  No definition uses
it; putting it in the place of `X` must break a property.

`MCStores` and `MCHost` each check two modules that no command combines: the variable
`subject` chooses one of the two for a behaviour, so their state spaces add up
and do not multiply.

### Lifecycle

A process runs one operation at a time.  `pc[p]` is the step it is about to
take and `job[p]` holds the local variables of the Go function: the layout that
was active when it read the row (`slot`), the one it starts (`target`), the
artifact and route it writes, and the snapshots its error paths need.  Every
write of a file, every command and every SQL statement is one action, in the
order of the code:

- `Deploy` (in place): `Preserve`, `WriteCompose`, `ValidateCompose`, `UpContainers`,
  `applyCaddy`, `PutDeployment`.  `deployBlueGreen` adds `ResolvePorts` and
  `Finalize` before the route and `Drain` at the end.
- `applyCaddy`: `CaddyPreserve`, `CaddyWrite`, `CaddyImport`, `CaddyValidate`, `CaddyReload`.
- `Rollback` and `rollbackBlueGreen` (`StartSwitchback`) reuse these steps, `Control` and
  `Delete` have their own.
- The error paths are data: `Compensation(j, at)` is the set of steps which the
  code still runs when step `at` of the operation fails (`job.todo`), `UndoOrder`
  the order it runs them in, and `NeedsFile` what is skipped when one of them
  fails.  All are read off the early returns.  `RemovalOrder` is the order in which
  a deletion removes files.

Containers remember the port they were created with (`docker[s].pub`), and `Publishable` says which
ports that lets Docker publish.  A slot's containers are created with port 0; `Finalize` writes the
port that Docker picked into the artifact and does not create them again, so a restart
(`Restarted`) picks anew.  `budget.moved` records that one of them got another port.

`job.before` is a history variable: the world as it was when the operation began, which
the properties compare the world with when it returns.  `Settled` and `Serving`
are the words they do it in: the running Caddy serves what its files say; the containers
of a layout are up and of its artifact.

A command or statement may fail at any moment for a reason of its own (bounded by `MaxFaults`;
`MaxTroubles` bounds failures, deaths and cancellations together), fails when it must (a port held
by others, no artifact), and fails for good once the context is cancelled.  A failed `up` may leave
the old containers, none, or unhealthy new ones; a reload killed with its context may still take
effect.  Docker, Caddy and systemd are external: they are modelled from the commands run against
them.

Left out: project data, layouts made by older versions, dry runs and everything
that only reads (`status`, `logs`, `exec`).  Runtime secrets are in `SecretStore`.

### StateStore

A write transaction works on a copy (`work`) of the database (`disk`) under
`lock`; a commit makes it the database.  `Open` reads the schema version
outside of a transaction and migrates under the lock, where it reads it again.
An allocation reads assignments and used ports inside its transaction, a plan
reads them in two separate queries of the committed database.  `Abort` is a
failed statement, a cancelled context or the death of the process.  The probe
is a function of the candidate and the used ports without recursion: the first
`i` whose port is free.

`PortTable` is what it implements: `Ask`, then `Grant` of a port for every key of the request or `Refuse`,
and a `Release` that takes an owner's ports and its row in one step.  The mapping (`Abstract`) takes the
committed tables, and as the open requests those of the allocations under way that have not committed.

### Webhook

A handler reserves a delivery ID under the guard's mutex, decodes the payload, waits for
the deployment lock, deploys, unlocks, and either releases the reservation or
commits it: `commit` truncates and rewrites `replay.json` with every entry
while holding the mutex, so a crash in between leaves a torn file, on which
the server does not start.  `Tick` moves the clock, on which the validity of
timestamps and the expiry of entries depend.  A request is a delivery ID and a timestamp.  The
signature covers the timestamp and the body only (`handler.go:97-107`, `190-201`), so all that the
module claims is claimed of one delivery ID.  The deployment itself succeeds or
fails; what it does is `Lifecycle`.

### AlertMonitor

`Issues` is what the checks say of a reading of the host, `Delta` what
`CompareMonitorState` and `EvaluateResourceSpikes` make of it and of the state
file: the announcements, the recoveries and the next state.  A run checks (`Check`),
sends on one channel after the other (`Deliver`, `Undelivered`), and saves only if
all were reached (`AfterSend`, `Save`).  `Spike` follows the code of one metric: a
baseline from the samples or learned one by one, a breach, the count of breaches in a row, the
cooldown.  A reading and the load of the file are one step, since the code reads
nothing of either again.  The channels a run has left are a set (`todo`), of which
`FirstOf` is the next: Telegram comes before e-mail in `Send`.  `heard`, `open` and
`alerted` record what each channel was told, which the program does not keep.

### Backup

`Create` to `Restic` is `backup create`: a staging directory (`dir`), a dump of each
PostgreSQL, `SAVE` and then a copy of each Redis, the snapshot, the deferred removal.  `SaveRefused` is a
`SAVE` that Redis answers with an error, a full disk for instance: `redis-cli` without `-e` exits
with 0, and the old `dump.rdb` is copied; `refused` records it.  The
contents of databases are numbers, one for each write, and `seen` records which ones a
command could have dumped.  `snapshots` is a set; `taken` counts them and is the time of
the last.  `Forget` removes what Restic's `forget` does for the arguments
the code gives it: snapshots with one of the two tags, by set of paths.  `Restore`
dumps first unless told not to, opens its input only then, and replaces; a failed
`pg_restore` leaves a torn content.

### SecretStore

`Load`, `EnsureIdentity`, `WriteIdentity`, `Save` and `Unlink` are the file accesses of `Set`
and `Remove`; between any two of them another process may run.  A store knows the identity
(`key`) it is encrypted to.  `Materialize` (of a deployment) loads once, writes the files of the
runtime directory one by one, removes the stale ones, and `EnsureRuntime` is the check
before the containers start.  `Reboot` empties `/run`.

### ConfigFiles

`LoadFile` and `SaveFile` are the two accesses of every profile and overlay command, of which
`registry remove` reads the profile first (`GetProfile`) and may log Docker out.  `AddHook`
writes its two files in place: `Truncate…` and `Write…` are the two halves of
`os.WriteFile`.  `Serve` loads both when the server starts.

### HostSetup

`Steps(h, c, port)` is the list of what installer `c` does on host `h`, `Healthy` the check that
lets it do nothing, `Works` and `Effect` what apt, systemd, Docker, UFW and Fail2ban make of a step.
The record `command` holds the components to come (`pending`), the one it works on (`on`), its
`steps` and the `next` of them.  A refresh of the package index names the source whose key it needs.
`DoStep` takes one step, `StepBreaks` ends the command there, and `Drift` is what an operator or a
restart changes in between: so every run but the first meets a host that is half set up.  It may
take any package, file, service or the firewall away, the keys of the repositories (recorded in
`keyless`) and the tools the installers themselves need included.  `SetUp` is what the documentation
promises, an SSH rule for the very port included; `Shown` is what the code takes for it. `EndsWith`
is the substring match of `ufwConfigured`.

### ManagedServices

A command is a list of steps too (`StepsOf`): unit files, `daemon-reload`, `enable --now`, Compose files,
`up`, `down`, the removal of data.  A unit is the number of the command that wrote it, so
that the schedule systemd follows (`loaded`) can differ from the one on disk.  `Perform`
takes a step, `PerformFails` fails it before or after its effect, `Interrupt` and
`RestartHost` end commands in the middle.

## What the runs check

| Run | Instance | States | Shows |
|---|---|---|---|
| `faults` | one process; a blue-green, a stateful and a route-less manifest; deploy, rollback, stop; 1 fault | 2.1 M | what every kind of failure leaves behind; no step of a switch takes the live route away or its containers |
| `crash` | one process; one blue-green manifest; deploy, rollback, restart, delete; two of 1 fault, 1 crash and 1 cancellation | 1.3 M | before any trouble files, containers, route and row describe one deployment; after it a deployment that succeeds serves, and a deletion leaves nothing |
| `ports` | two processes, two owners with two targets, two ports | 0.5 M | allocation and planning race and the range runs out; no statement is refused |
| `records` | two processes, two owners with two targets, two ports | 1.2 M | deletion, records, status updates and requests for several ports race and the range runs out; `PortTable` is implemented |
| `deliveries` | two handlers, two deliveries, four instants, 1 failed write, 1 crash | 0.7 M | serialization; for each delivery ID at most once, truthful refusals, durable acknowledgements |
| `liveness` | two handlers, two deliveries, 1 failed write | 5 k | every reserved delivery is answered |
| `alerts` | two runs at once and four in all, one gauge, three instants, two channels, 1 failure | 0.4 M | what is recorded was told; spikes last, keep out of the baseline and respect the cooldown |
| `backup` | two commands and three in all, a project with PostgreSQL and Redis and one without, 2 writes, 2 snapshots, 1 failure, refused `SAVE` or death | 1.0 M | complete snapshots, safety dumps, no complete staging left, the newest snapshot survives a prune |
| `stores` | two commands and three or four in all, two of everything, 1 failure, 1 death or restart | 0.4 M | nothing stored is lost; stores decrypt; runtime secrets are of one version; webhooks have the secrets that were told |
| `host` | two runs of the installers, 1 failure, 1 change by the operator; three commands on services, two at once, 1 failure, 1 death or restart | 2.9 M | a run sets up what it names on whatever it finds, with three exceptions; SSH stays open; what runs can be removed |
| `claim_*` | see *Findings* | | a statement of the documentation that the code does not keep |

### The bounds

One fault, crash or cancellation at any step is what an error path is written
for.  In the lifecycle and webhook runs the operations before and after are not
bounded, so the fault meets every state which sequences of operations reach.  Restarts are in `crash` and
not in `faults`, where a second port and three manifests would multiply the states.  `crash` has two
troubles: one that leaves a project half changed, and one in the operation that meets it.  `DynPorts` has as
many ports as can be published at once.  Two processes and a range with fewer
ports than keys are the smallest instance where candidates collide, the probe
wraps and the range runs out in the middle of a request.  The clock of `deliveries` runs to the
expiry of the first reservations: retention 3 is the smallest that covers the
validity of a timestamp with skew 2 (`2 * Skew <= Retention + 1`; in the code 24
hours and 5 minutes), and at instant 3 an entry expires exactly when its
timestamp does.

`alerts` has four checks with a baseline of one sample and two in a row: enough to learn
the baseline, announce a spike, see it end or go on, and fall due again after the
cooldown of two instants.  Its gauge stands for all three (they share the code and no
state), the services and certificates pass: an issue is an issue to what follows, whichever
check found it.  `backup` has three commands because a prune needs two snapshots before it, and
two writes tell the content before, during and after a dump apart.  `stores` needs
two commands that overlap and one that finds out; four for secrets, since a deployment may follow.
`host` runs the installers twice, the first leaving a host half done; the ports are
SSH, 80, 443 and 2222, whose digits end in those of SSH.  Three orders of services are an
installation, its removal and one beside them.

`CHECK_DEADLOCK FALSE` is there where the system may stop: the server does not start on a torn
file, and bounded runs end.

### What the properties except

`Coherent` is about the time before the first fault, crash or cancellation and before the first
restart that moved containers to another port (`moved`), `DeployedAtMostOnce` and
`RefusalIsTruthful` about the first life of the server.  `NoDowntime` starts from a route that leads
to the active layout.  `PlannedPortsDistinct` is checked where nothing is deleted.
`SnapshotIsComplete` excepts the dumps of a Redis that refused to save (`refused`).
`RuntimeIsOneVersion` speaks from the moment a deployment has its secrets until the next one begins
or the host restarts, not of a deployment that failed before that or found no store.
`UndisturbedRunSetsUp` excepts a run that fails because a key was taken away (`keyless`,
`SourceWithoutKey`), a port that is only shown as allowed (`OnlyShown`), and the log rotation of a
Docker that the run did not restart for it (`RotationSteps`). The stores take no lock, and their
properties except what two overlapping commands did to each other, by history variables that a run
sets only then: `overlap` (two commands on one project's secrets; two runs of `alert check`),
`raced` (two first identities), `lapped` (two commands on one file), `mixed` (two on one service).
`narrow` is a run of `alert check` with `--channel`, after which one channel knows what the other
does not (`RecordedIsTold` claims one channel instead of all, `SpikeIsWarranted` no longer speaks of
the cooldown); `torn` a half written `webhooks.yaml`; `sharedSecret` two webhooks with one secret
file; `ignored` a backup timer that did not stop; `exempt` a firewall that was active without a rule
for SSH before the first run, or a run that was told another port.  If such a firewall allowed
incoming connections by default, an administrator on SSH had access until the run: it denies by
default (`install_ufw.go:47`) before it allows SSH (`:53`), and a failure in between locks him out.
Each is a deviation listed below, and outside of it the property is claimed of every interleaving
and failure.

### Fairness

It is assumed by `liveness` only.  `WF(Handle(h))`: a goroutine that can run is
scheduled, and a deployment returns (its commands run under the context of the
request).  `SF` of the actions that take a mutex: `sync.Mutex` hands itself to a
waiter that has starved for a millisecond, so who waits for a mutex that is
freed again and again gets it.  Nothing is assumed of clients or the clock.  The
other parts are commands that an operator or a timer starts and that end at their first
error: the code retries nothing, so there is nothing it promises eventually.

## What is proved

Each theorem is proved by TLAPS from the named assumptions of the modules, for every value of
the constants: any number of processes, manifests, projects, files, units, channels, any ports and
any bound on faults, crashes and the like.  Every proof module defines an inductive invariant
as a conjunction of named parts; none of the properties is inductive as the runs check it.
The list of theorems is in `PROJECT.json`.

### `StateStore_proofs`

From `RangeAssumption`, `TargetsAssumption`, `CandidateAssumption`, `StatusesAssumption`,
`OpsAssumption` and `NilAssumption`:

- `TypeCorrect`, `ConflictNever`, `ExhaustionIsReal`: invariants of the run `ports`;
- `PlansDistinct`: the ports of a plan are pairwise distinct, in a project that nobody
  deletes meanwhile (`"delete" \notin Ops`, as in that run);
- `PortsUnique`: no two keys ever have one port, which the constraint in the database would
  otherwise refuse;
- `AssignmentsStable`: a committed assignment changes only by the deletion of its owner;
- `DeletedStaysForgotten`: a row appears or changes only by a put;
- `Implements`: every behaviour of the database is one of `PortTable`: a commit of an allocation is a
  `Grant` of all it was asked for, a commit of a deletion a `Release`, and an abort changes nothing.

That an insert keeps ports unique depends on what the transaction read some steps before.  `IInv`
adds `LockInv` (only the process that holds the lock is inside of a write transaction, hence nobody
else changes `disk` or `work`), `KindInv` (a process is only at steps of its operation), `SchemaInv`
(tables match the version and ports are unique, in the database and in the copy), `TxnInv` (what a
transaction has read is still what the copy says, the used ports it knows include all of them, and
the copy differs from the database only as its operation says: an allocation has assigned nothing
but what was asked, and at its commit all of it; a deletion has taken nothing but its owner's ports
and row) and `ResultInv` (how results come about). `PlanInv` says that what a plan has read stays in
the database and the ports it proposes lie outside of all of it.  `StepFrame` and `Exclusion` reduce
each step to the process that takes it.  About the probe, `NextAvailableIsFree` follows from
`ProbeInRange` and `ProbesCoverRange`: a port outside of the used ones, or none and then every port
is used.

### `Webhook_proofs`

From `TimeAssumption` (`2 * Skew <= Retention + 1`), `BoundsAssumption` and `NoneAssumption`, for
any number of handlers and delivery IDs and any clock: `TypeCorrect`, `Serialized`, `AtMostOnce`,
`RefusalTrue`, `AcknowledgedRefused`, the invariants of the run `deliveries`.

An entry of the guard *shields* a request when it lasts as long as the
timestamp is accepted.  A reservation shields its request, because of the assumption
(`ReservedInv`), and no two handlers serve one delivery (`UniqueInv`).  A release takes the shield
from a delivery; that is harmless to another request of the same delivery, acknowledged
or deployed earlier, because the one released could only reserve it when that request was
outdated (`AckedInv`, `OnceInv`).  The file shields what was acknowledged, so a restart
does too.  `OnceInv` and `TruthInv` are conditional on the first life of the server.

### `SecretStore_proofs` and `ConfigFiles_proofs`

From `ValuesAssumption`, `BoundsAssumption`, `NothingAssumption`, `FilesAssumption`, `TasksAssumption` and,
where the two meet, `SharedValues` of `MCStores`: `StoresTypesCorrect`, `StoresStayReadable`, `RuntimeVersion`,
`SecretsAreKept`, `FilesAreKept`, `HooksStayAsTold` and `StoredStaysKept`, the invariants of the run `stores`.

`SecretInv`: a command generates one identity at most (`CountInv`); unless two raced, the command that is about
to write the identity is the only one and there is none yet (`IdentityInv`); a project on
which no two commands overlapped has at most one under way (`AloneInv`), so what it read is
still what the store says (`StoredInv`) and what it writes into the runtime directory is of one
version (`RuntimeInv`).  `ConfigInv` is the same idea for read-modify-write of a file: as long as
nothing was torn or overlapped, one task at most is between read and write (`SoleInv`),
and what it is about to write contains all that was told (`FileInv`, `LoginInv`, `HookInv`).

### `Backup_proofs`

From `InstancesAssumption`, `BoundsAssumption` and `NoneAssumption`: `BackupTypes`,
`SnapshotsComplete`, `SafetyDumps`, `StagingIsRemoved` and the action property `NewestStays`.

`BackupInv` says of a command under way that each instance of its project is still to be dumped, has
a dump of a content the instance really had while the command ran, or is a Redis that refused to
save.  What has been `seen` of an instance only grows, so no other command, prune or restore can
take that away.

### `Lifecycle_proofs`

From `ManifestsAssumption`, `OpsAssumption`, `BoundsAssumption`, `PortsAssumption` and
`NilAssumption`.  `Types` holds for any number of processes.  The others assume `OneAtATime`, that
the operations of a project do not overlap: nothing in the code enforces it, and without it they do
not hold (see the deviations).

- `DeploymentServes`, `FailedReplacement`, `FailedDeployment`, `RollbackExchanges`, `FailedRollback`,
  `DeletionIsComplete`: the invariants of the runs `faults` and `crash`;
- `RecordedArtifact`: the same, without deletions;
- `NoDowntimeWithOneFault`: the action property of `faults`, if one step at most fails or one
  process dies, and no context is cancelled (`OneFault`);
- `CoherentHistory`: `Coherent` of the run `crash`, if the manifests of the project are of one
  sort (`OneSort`).

An operation's promise relates the world at its end to the world it found, which the model keeps in
`job.before`.  `LifecycleInv` says, step by step, what an operation has changed of that world and
what it has not, and that the steps its error path has still `todo` undo exactly this difference;
without deletions it adds that the recorded layout has its artifact (`RecordedInv`).

`NoDowntime` needs more, since the error path of a blue-green deployment reloads the route before
it removes the replacement: were the files not what Caddy serves, that reload would move the
live route elsewhere.  `ServedInv`: as long as nothing has failed (`Fresh`), the files are
served whenever no switch is under way (`FreshInv`); and in an error path the live route is
the one found, or still leads to the replacement, whose containers go after the route (`FailingInv`).

`Coherent` speaks of a whole history, so it needs to know that nothing in an untroubled one is
refused.  `CoherentInv`, as long as no restart has moved containers: when no command runs, the
project is `Whole` (files, row and containers are one deployment whose predecessor, if there is one,
can be brought back); a command that runs found it whole and no error path runs (`CalmShape`); a
replacement keeps the pair it replaces and got a port of its own (`CalmChange`); a restart or a stop
keeps the project matched (`CalmControl`); a deletion finds an artifact to take the containers down
with, hence leaves none (`CalmDelete`).  From that each `up` has its file and a free port
(`CanStart`), and each way to end leaves a whole project (`Lands`).

`OneSort` has three cases: every manifest is replaced blue-green, nothing is stopped and Docker has
a second port to give (`InSlots`, the instance of `crash`); every manifest has routes and is
replaced in place; none has routes.  It is a condition on the project, and `Coherent` is false
without it: see *Only model-checked*.

### `Host_proofs`

From `PortsAssumption`, `ThingsAssumption` and `NothingAssumption`: `RunningStaysRemovable`,
`ToldStaysInEffect`, `HostIsSetUp` and `SshStaysAllowed`, the invariants of the run `host`.

`ManagedInv` says of each unit and stack that no two clients overlapped on (`mixed`) and whose
failures were not ignored (`ignored`): one client at most works on it (`Exclusive`), what runs can
be removed at every point between two calls (`Sound`), and when nobody works on it, what the
operator was told holds.  `SetupInv` says of an installation: every step ahead has what it needs, or
a step before it provides that (`AheadMet`); a source has its key, unless one was taken away
(`KeysMet`); a component that was passed is set up, and a step for another component does not
disturb it (`CalmMet`); a Docker restarted for its rotation rotates (`RotationMet`); and at no point
between two calls of `ufw` is the firewall active without a rule for the port of SSH (`SshLetIn`).

### `AlertMonitor_proofs`

From `ConfigAssumption` (what `validate` accepts) and `HostAssumption`, for any number of runs and channels, any
gauges and levels and any valid thresholds: `TypeCorrect`, `TellsBeforeItRecords`, and the action properties
`SpikesAreWarranted` and `BaselineIsKept`, those of the run `alerts`.

`AlertInv` holds of the file and of the state in each run's memory.  `Good`: samples are numbered
and not more than the window keeps, a baseline is learned from enough of them, and an active alert
has lasted as long as configured; `SinceSlides` shows that the last goes on to hold as the window
slides.  `TellInv`: what a run would record is what each channel was told, or is announced by the
run, which then delivers it or fails.  `OneRun`: without overlap one run at most is under way and it
started from the file.  `Sync`: a channel is in step with the file, or with what the run under way
will save once it has told it.  `RecordedIsTold` and `BaselineIsKept` follow at once; that two
spikes of a gauge are a cooldown apart needs `Sync` before and after the step.

### Only model-checked

- `ReservedIsAnswered` of the run `liveness`: a property under fairness, out of reach of TLAPS.
- `Coherent` for a project whose manifests are of different sorts.  There it is no invariant:
  a deployment in place after one in a slot leaves the containers of the slot, and two
  deployments without routes leave an older `.previous` snippet, which a rollback brings back
  beside an artifact that it does not belong to.
- `NoDowntime` beyond one failure.  A second one, or a cancelled context, may hit the error path itself; what
  the run `faults` and the theorem say is that one does not interrupt the route.
- What the theorems of `Lifecycle_proofs` other than `Types` would say of overlapping operations.
   They are false there, and so is the promise of the code (see *Known deviations*).

## Findings

Each is the one property of a run, quotes the line it is about and is a code bug
unless the documentation is meant to be weaker.

- `claim_rollback_unit`.  First deployment, blue-green deployment, then one in place
  (a volume was added).  `Rollback` combines the base artifact of the first with the slot's
  route of the second.
- `claim_retention`.  A staging directory has a random name and is a path of the snapshot.  Restic
  applies a retention to the snapshots of each host and set of paths, so with a database
  every snapshot is the only one of its group, and `backup prune` removes none.

### Known deviations without a run

Deployments.

- A failed `applyCaddy` in `rollbackBlueGreen` leaves the `.previous` snippet overwritten with the
  current one; a next rollback pairs it with the other slot.
- A slot's containers that a deployment in place left behind still run after `project delete`.
- Ctrl-C during `up --wait` fails the deployment; its cleanup runs `docker compose down` with
  the cancelled context, so the replacement stays.
- A command and a webhook delivery read the same row; the second starts its replacement in the
  slot that the first has just made active.
- A deletion that dies between removing the snippet and the reload is retried without a
  reload, so Caddy keeps the route.
- A failed deployment has already overwritten `compose.previous.yaml`; when `PutDeployment`
  fails in place the new containers run without a row (result `unrecorded`).
- A plan that reads around a deletion may show a port twice.
- The containers of a slot are created with published port 0 and are not created again when the
  artifact gets the port Docker picked (`lifecycle.go:601-603`, `641-650`).  `project restart` lets
  Docker pick anew: route and artifact then name a port nobody listens on, although the comment at
  `lifecycle.go:638-640` says that the artifact "keeps restart and explicit rollback consistent with
  the Caddy route".

Webhooks.

- The delivery ID is not part of what is signed (`handler.go:97-107`, `190-201`): the same timestamp
  and body with the same signature, under another `X-Omurga-Delivery`, is another delivery to the
  replay guard and deploys again while the timestamp is valid.
- `commit` persists the reservation of a delivery still in progress; when the server then dies,
  that delivery is refused for 24 hours.  A crash between a deployment and its record deploys the
  delivery again, one while `replay.json` is truncated prevents every restart, and
  `deployM.Unlock` is not deferred.
- `webhook add` with the `--secret-file` of another webhook overwrites that one's secret; a
  failure while `webhooks.yaml` is written loses all of them.  `webhook install` does not restart a
  server that runs.

Alerts.

- After overlapping runs, or one that failed after its first channel, a recovery may never be told
  (`docs/operations-v1.md:122-123`); `--channel` records as told what the other channel has not heard,
  and after a recovery told on one channel only, the other is told of the next spike within the cooldown.
- `alert schedule --schedule hourly` is refused.

Backups and data.

- A staging directory whose preparation failed is left behind with plain dumps, and that failure sends no
  `backup-failed` (`docs/operations-v1.md:85-86`).
- `redis-cli SAVE` runs without `-e` (`backup.go:188`, `data_services.go:329`) and exits with 0 when Redis
  answers with an error; the `dump.rdb` of an earlier save is then copied, and the command succeeds
  (`docs/operations-v1.md:29-30`).
- The two `--tag` options of `backup prune` mean one or the other, so a prune reaches the snapshots
  of other projects in the same environment.
- `backup create --init` fails on a repository that exists; an active slot's Compose artifact is not
  among the paths; after a line of Restic's output of more than a megabyte nothing reads on, and the
  command waits for ever.
- `postgres create-user` sends a literal `\n`.

Stores.

- Overlapping commands lose each other's changes; two first `secret set` may generate two
  identities and leave a store that nobody decrypts.
- A secret removed as the last of its project stays in the runtime directory, since without a store the
  next deployment leaves the directory alone (`store.go:116-118`) and finds the files it needs
  (`lifecycle.go:144-156`); a materialize that fails half way leaves files of two versions there.
- A profile that gets another address leaves Docker's credentials for the old one.

Services and hosts.

- `monitoring install` without `--grafana-admin-password-file` fails (`EnsurePassword("")`), and the
  modes of its files make the doctor's check of secrets critical.
- `backup unschedule` ignores a timer that did not stop; `service remove --purge-data` whose purge
  failed cannot be run again; the names of units of different backups may coincide.
- Docker reads its log rotation when it starts: after an installation from nothing, or a failure
  between file and restart, it is not applied until the next restart (`docs/operations.md:122`,
  `docs/commands/host/install.md:31`).
- `ufwConfigured` takes `2222/tcp` for `22/tcp` (`install_ufw.go:86-93`) and leaves such a firewall alone
  (`docs/operations.md:182-184`, `docs/troubleshooting.md:46`).
- On a firewall that is active and allows by default, `deny incoming` comes before `allow` of SSH
  (`install_ufw.go:47`, `:53`).
- A lost key of a repository whose source is there is not restored: the refresh of the package lists
  comes first and fails (`install_docker.go:22`, `:70`; `install_caddy.go:24`, `:32`).
- No installer looks at whether a service is enabled.

## Not modelled, and the plan

Left out for good: what only reads or prints (flags, progress, the support
bundle, host inspection other than the checks named above), what a generated file
says (Compose, Caddy, units, Prometheus), the parsing and validation of manifests
and profiles, one-shot calls without state of their own (AI generation, `remote`'s ssh,
`alert test`, `backup restore` into a directory, `postgres create-db`), build and packaging.

Worth doing, in this order:

1. `Delivery`: `Webhook` composed with `Lifecycle`, deliveries and commands of the CLI on
   one project, and an abstract service (what is served, what a rollback returns
   to) which `Lifecycle` implements while nothing goes wrong.
2. Manifest overlays as a pure operator against a reference definition.
