------------------------------- MODULE Lifecycle -------------------------------
(***************************************************************************)
(* The deployment lifecycle of one project in one environment:             *)
(* internal/project/lifecycle.go and lifecycle_operations.go.              *)
(*                                                                         *)
(* An operation (deploy, rollback, restart, stop, delete) runs in a        *)
(* process: a command of the CLI, or a delivery handled by the webhook     *)
(* server.  It is a straight line of steps, each of which touches one of   *)
(* four things that no lock or transaction ties together: the Compose      *)
(* artifacts, the Caddy files, the containers of the Docker daemon and the *)
(* row of the state database.  Here every such step is an action, so that  *)
(* another process, a failure, a cancelled context or a crash can fall     *)
(* between any two of them.                                                *)
(*                                                                         *)
(* Simplifications.                                                        *)
(*  - An artifact is the manifest it was generated from and the host port  *)
(*    it publishes; its text is left out.  A routed manifest has one       *)
(*    route, so one port.                                                  *)
(*  - Runtime secrets, project data and directories are left out, and so is *)
(*    the layout of a deployment that an older version made.               *)
(*  - The reads at the start of an operation, before its first change, are *)
(*    one step.  An operation refused there changes nothing: it does not   *)
(*    start.  A dry run changes nothing either and is left out.            *)
(*  - Files are written whole (WriteArtifact renames a synced temporary    *)
(*    file), so a write either happens or leaves the old content.          *)
(*  - Docker, Caddy and systemd are external: modelled from the commands   *)
(*    run against them and from what their exit status is taken to mean.   *)
(*                                                                         *)
(* An operator named X_mistake is X with a plausible mistake in it.  No    *)
(* other definition uses it: the mutants of PROJECT.json put it in the     *)
(* place of X to show that a property would notice the mistake.            *)
(***************************************************************************)
EXTENDS Naturals, FiniteSets

CONSTANTS
    Procs,       \* processes that run operations on this project
    Manifests,   \* versions of the project manifest
    Routed,      \* those that declare gateway routes
    Stateless,   \* those without volumes and without dependencies
    DynPorts,    \* host ports Docker may pick for a published port 0
    Ops,         \* the operations this instance runs
    Nil,         \* no file, no container, no row
    MaxFaults,   \* bound on the commands, writes and statements that fail
    MaxCrashes,  \* bound on the processes that die in the middle
    MaxCancels,  \* bound on the contexts that are cancelled
    MaxTroubles  \* bound on all of these together

ASSUME ManifestsAssumption == Routed \subseteq Manifests /\ Stateless \subseteq Manifests
ASSUME OpsAssumption == Ops \subseteq {"deploy", "rollback", "restart", "stop", "delete"}
ASSUME BoundsAssumption == {MaxFaults, MaxCrashes, MaxCancels, MaxTroubles} \subseteq Nat
ASSUME PortsAssumption == DynPorts \cap {"none", "stable", "dynamic"} = {}

VARIABLES
    compose,     \* compose[s]: the Compose artifact of the base layout or of slot a, b
    prevCompose, \* compose.previous.yaml
    caddy,       \* the project's Caddy snippet
    prevCaddy,   \* its .previous file
    imported,    \* whether the base Caddyfile imports the project snippets
    live,        \* the route the running Caddy serves
    docker,      \* docker[s]: the containers of the Compose project of s
    db,          \* the project's row of the deployments table
    pc, job,     \* step and local variables of the operation a process runs
    cancelled,   \* the processes whose context is cancelled
    budget       \* faults, crashes and cancellations still allowed, and whether
                 \* a restart has moved containers to another port

fileVars == <<compose, prevCompose, caddy, prevCaddy, imported>>
worldVars == <<fileVars, live, docker, db>>
vars == <<compose, prevCompose, caddy, prevCaddy, imported, live, docker, db,
          pc, job, cancelled, budget>>

-----------------------------------------------------------------------------
(* Data.                                                                     *)

Slots == {"base", "a", "b"}
Ports == {"none", "stable", "dynamic"} \cup DynPorts
Artifacts == [m : Manifests, port : Ports]
MaybeArtifact == Artifacts \cup {Nil}
\* Containers have the port they publish and the one their artifact named when they
\* were created, "dynamic" for a published port 0.
Containers ==
    {c \in [st : {"up", "unhealthy", "stopped"}, m : Manifests, port : Ports, pub : Ports] :
        IF c.pub = "dynamic" THEN c.port \in DynPorts ELSE c.port = c.pub}
Deployments == [status : {"running", "stopped"}, slot : Slots,
                revision : MaybeArtifact \X MaybeArtifact]

\* The files, routes, containers and row of the project, kept by an operation
\* as it found them: a history variable that only properties read.
World == [compose : [Slots -> MaybeArtifact], prevCompose : MaybeArtifact,
          caddy : MaybeArtifact, prevCaddy : MaybeArtifact, imported : BOOLEAN,
          live : MaybeArtifact, docker : [Slots -> Containers \cup {Nil}],
          db : Deployments \cup {Nil}]

Now == [compose |-> compose, prevCompose |-> prevCompose, caddy |-> caddy,
        prevCaddy |-> prevCaddy, imported |-> imported, live |-> live,
        docker |-> docker, db |-> db]

Kinds == {"inplace", "bluegreen", "rollback", "switchback", "restart", "stop", "delete"}

\* What an operation returns: an error after its error path has run ("failed") or
\* has failed in its turn ("broken"), or one of the errors that keep the new
\* deployment: its state could not be stored, its predecessor could not be removed.
Results == {"none", "ok", "failed", "broken", "unrecorded", "undrained"}

\* What an error path may still have to do, and what a deletion removes, in the
\* order of the code.
UndoOrder_upFirst == <<"snippet", "import", "route", "reload", "down", "up", "compose",
                       "previous", "previousRoute">>
UndoOrder == <<"snippet", "import", "route", "reload", "down", "compose", "up",
               "previous", "previousRoute">>
RemovalOrder == <<"base", "previous", "snippet", "previousRoute", "slots">>
Elements(order) == {order[i] : i \in DOMAIN order}

\* The step is the next one of those left to do.
Comes(step, todo, order) ==
    \E i \in DOMAIN order :
        /\ order[i] = step /\ step \in todo
        /\ \A k \in 1..(i - 1) : order[k] \notin todo

Removals_keepSlots == {"base", "previous", "snippet", "previousRoute"}
Removals == Elements(RemovalOrder)  \* of a deletion
Steps == {"idle", "preserve", "write", "config", "up", "ports", "finalize",
          "cy_preserve", "cy_write", "cy_import", "cy_validate", "cy_reload",
          "put", "drain", "undo", "command", "record", "down", "remove", "forget", "done"}

Jobs == [kind : Kinds,
         slot : Slots,            \* the active layout the operation read
         target : Slots,          \* the layout whose containers it starts
         art : MaybeArtifact,     \* the Compose artifact it writes
         route : MaybeArtifact,   \* the Caddy content it applies
         needsCaddy : BOOLEAN,
         snap : MaybeArtifact,    \* target artifact before the write
         oldCaddy : MaybeArtifact,\* snippet before the switch
         cSnap : MaybeArtifact,   \* applyCaddy's snapshots
         iSnap : BOOLEAN,
         todo : SUBSET (Elements(UndoOrder) \cup Elements(RemovalOrder)),
         result : Results,
         before : World]

ASSUME NilAssumption ==
    Nil \notin Artifacts \cup Containers \cup Deployments \cup Jobs

NewJob(kind, slot, target) ==
    [kind |-> kind, slot |-> slot, target |-> target, art |-> Nil, route |-> Nil,
     needsCaddy |-> FALSE, snap |-> Nil, oldCaddy |-> Nil, cSnap |-> Nil, iSnap |-> FALSE,
     todo |-> {}, result |-> "none", before |-> Now]

Other(s) == IF s = "a" THEN "b" ELSE "a"

\* isBlueGreenEligible
Eligible(m) == m \in Routed \cap Stateless

\* Generate: the Compose artifact and the Caddy snippet of a manifest.
ComposeOf(m, port) == [m |-> m, port |-> IF m \in Routed THEN port ELSE "none"]
RouteOf(m, port) == IF m \in Routed THEN [m |-> m, port |-> port] ELSE Nil

ActiveSlot_base == "base"

\* activeComposeLayout: the base layout when there is no row.
ActiveSlot == IF db = Nil THEN "base" ELSE db.slot

Budgets == [faults : 0..MaxFaults, crashes : 0..MaxCrashes, cancels : 0..MaxCancels,
            moved : BOOLEAN]
FullBudget == [faults |-> MaxFaults, crashes |-> MaxCrashes, cancels |-> MaxCancels,
               moved |-> FALSE]

TypeOK ==
    /\ compose \in [Slots -> MaybeArtifact]
    /\ prevCompose \in MaybeArtifact
    /\ caddy \in MaybeArtifact
    /\ prevCaddy \in MaybeArtifact
    /\ imported \in BOOLEAN
    /\ live \in MaybeArtifact
    /\ docker \in [Slots -> Containers \cup {Nil}]
    /\ db \in Deployments \cup {Nil}
    /\ pc \in [Procs -> Steps]
    /\ job \in [Procs -> Jobs \cup {Nil}]
    /\ cancelled \subseteq Procs
    /\ budget \in Budgets
    /\ \A p \in Procs : pc[p] # "idle" => job[p] # Nil

Init ==
    /\ compose = [s \in Slots |-> Nil]
    /\ prevCompose = Nil
    /\ caddy = Nil
    /\ prevCaddy = Nil
    /\ imported = FALSE
    /\ live = Nil
    /\ docker = [s \in Slots |-> Nil]
    /\ db = Nil
    /\ pc = [p \in Procs |-> "idle"]
    /\ job = [p \in Procs |-> Nil]
    /\ cancelled = {}
    /\ budget = FullBudget

-----------------------------------------------------------------------------
(* Control flow.                                                             *)

At(p, l) == pc[p] = l
Goto(p, l) == pc' = [pc EXCEPT ![p] = l]
Finish(p, r) == Goto(p, "done") /\ job' = [job EXCEPT ![p].result = r]

\* Another failure, death or cancellation is within the bounds.
OneMore ==
    MaxFaults + MaxCrashes + MaxCancels
        < budget.faults + budget.crashes + budget.cancels + MaxTroubles

\* A file operation does not see the context: it fails only by a fault.
WriteFails == budget.faults > 0 /\ OneMore /\ budget' = [budget EXCEPT !.faults = @ - 1]
WriteDone == UNCHANGED budget

\* A command or a statement also fails once the context is cancelled
\* (exec.CommandContext, ExecContext), or when it is refused for a reason of its own.
Runs(p) == p \notin cancelled /\ UNCHANGED budget
Breaks(p, refused) ==
    IF p \in cancelled \/ refused THEN UNCHANGED budget ELSE WriteFails

Compensation_keepsRoute(j, at) == {"down", "compose"}
Compensation_keepsPrevious(j, at) == IF at = "config" THEN {"compose"} ELSE {"compose", "up"}

\* What the error paths still do when the step "at" of an operation fails.
Compensation(j, at) ==
    CASE j.kind = "inplace" /\ at = "config"            -> {"compose"}
      [] j.kind = "inplace" /\ at \in {"up", "caddy"}   ->
             IF j.snap # Nil THEN {"compose", "up"} ELSE {"down", "compose"}
      [] j.kind = "bluegreen" /\ at \in {"config", "up", "ports", "finalize", "caddy"} ->
             {"down", "compose"}
      [] j.kind = "bluegreen" /\ at = "put"             -> {"route", "reload", "down", "compose"}
      [] j.kind = "rollback" /\ at = "write"            -> {"previous"}
      [] j.kind = "rollback" /\ at = "config"           -> {"compose", "previous"}
      [] j.kind = "rollback" /\ at = "up"               -> {"compose", "up", "previous"}
      [] j.kind = "rollback" /\ at = "caddy"            ->
             {"compose", "up", "previous", "previousRoute"}
      [] j.kind = "switchback" /\ at \in {"up", "caddy"} -> {"down"}
      [] j.kind = "switchback" /\ at = "put"            -> {"route", "reload", "down"}
      [] OTHER                                          -> {}

\* The step fails with error r: run the compensations, then return the error.
FailsAfter(p, todo, r) ==
    /\ job' = [job EXCEPT ![p].todo = todo, ![p].result = r]
    /\ Goto(p, IF todo = {} THEN "done" ELSE "undo")

FailsAt(p, at) == FailsAfter(p, Compensation(job[p], at), "failed")

CaddyFails(p, restores) == FailsAfter(p, restores \cup Compensation(job[p], "caddy"), "failed")

\* Where a successful applyCaddy returns to.
Switched(p) == IF job[p].kind = "delete" THEN "remove" ELSE "put"

-----------------------------------------------------------------------------
(* The Docker daemon and the Caddy server.                                   *)

HeldByOthers(s) ==
    {docker[t].port : t \in {u \in Slots \ {s} : docker[u] # Nil /\ docker[u].st # "stopped"}}

\* The host ports that containers created with port pub may publish in slot s.
Publishable(s, pub) ==
    CASE pub = "none"    -> {"none"}
      [] pub = "dynamic" -> DynPorts \ HeldByOthers(s)
      [] OTHER           -> {pub} \ HeldByOthers(s)

Started(s, st) ==
    {[st |-> st, m |-> compose[s].m, port |-> port, pub |-> compose[s].port] :
        port \in Publishable(s, compose[s].port)}

\* Restarted containers are not created again: for a published port 0 Docker picks a
\* port anew, whatever their artifact names by now.
Restarted(s) ==
    {[docker[s] EXCEPT !.st = "up", !.port = port] :
        port \in Publishable(s, docker[s].pub)}

\* `up --wait` cannot succeed without its file or with its port taken.
UpRefused(s) == compose[s] = Nil \/ Started(s, "up") = {}

\* A failed `up` may have left the old containers, none, or unhealthy new ones.
UpDebris(s) ==
    {docker[s], Nil} \cup (IF compose[s] = Nil THEN {} ELSE Started(s, "unhealthy"))

DockerUp(s) == \E c \in Started(s, "up") : docker' = [docker EXCEPT ![s] = c]
DockerUpFails(s) == \E c \in UpDebris(s) : docker' = [docker EXCEPT ![s] = c]
DockerDown(s) == docker' = [docker EXCEPT ![s] = Nil]
DockerDownFails(s) == \E c \in {docker[s], Nil} : docker' = [docker EXCEPT ![s] = c]

\* A reload makes Caddy serve the snippet if the base Caddyfile imports it.
Reload == live' = IF imported THEN caddy ELSE Nil

\* A reload that fails keeps the old configuration; systemd may still finish
\* the job of a systemctl that was killed with its context.
ReloadFails(p) == UNCHANGED live \/ (p \in cancelled /\ Reload)

-----------------------------------------------------------------------------
(* Deploy.                                                                   *)

\* Deploy up to its first change: it reads the row of the project and chooses
\* between replacing the containers in place and the blue-green slots.
StartDeploy(p, m) ==
    /\ At(p, "idle") /\ "deploy" \in Ops
    /\ LET bluegreen == db # Nil /\ db.status = "running" /\ Eligible(m)
           fresh == IF bluegreen
                    THEN NewJob("bluegreen", db.slot, Other(db.slot))
                    ELSE NewJob("inplace", "base", "base")
       IN  job' = [job EXCEPT ![p] =
                     [fresh EXCEPT !.art = ComposeOf(m, IF bluegreen THEN "dynamic" ELSE "stable"),
                                   !.route = RouteOf(m, "stable"),
                                   !.needsCaddy = m \in Routed \/ caddy # Nil]]
    /\ Goto(p, "preserve")
    /\ UNCHANGED <<worldVars, cancelled, budget>>

\* persistPrevious: the artifact of the active layout becomes the previous one.
\* A deployment also takes its snapshot here, a rollback took it when it started.
Preserve(p) ==
    /\ At(p, "preserve")
    /\ \/ /\ WriteDone
          /\ IF job[p].kind = "rollback"
             THEN prevCompose' = job[p].snap /\ UNCHANGED job
             ELSE /\ prevCompose' = compose[job[p].slot]
                  /\ job' = [job EXCEPT ![p].snap = compose[job[p].target]]
          /\ Goto(p, "write")
       \/ /\ WriteFails
          /\ FailsAt(p, "preserve")
          /\ UNCHANGED prevCompose
    /\ UNCHANGED <<compose, caddy, prevCaddy, imported, live, docker, db, cancelled>>

WriteCompose(p) ==
    /\ At(p, "write")
    /\ \/ /\ WriteDone
          /\ compose' = [compose EXCEPT ![job[p].target] = job[p].art]
          /\ Goto(p, "config")
          /\ UNCHANGED job
       \/ /\ WriteFails
          /\ FailsAt(p, "write")
          /\ UNCHANGED compose
    /\ UNCHANGED <<prevCompose, caddy, prevCaddy, imported, live, docker, db, cancelled>>

\* docker compose config --quiet
ValidateCompose(p) ==
    /\ At(p, "config")
    /\ \/ Runs(p) /\ compose[job[p].target] # Nil /\ Goto(p, "up") /\ UNCHANGED job
       \/ Breaks(p, compose[job[p].target] = Nil) /\ FailsAt(p, "config")
    /\ UNCHANGED <<worldVars, cancelled>>

AfterUp(p) == IF job[p].needsCaddy THEN "cy_preserve" ELSE "put"

\* docker compose up --detach --remove-orphans --wait
UpContainers(p) ==
    /\ At(p, "up")
    /\ LET s == job[p].target IN
       \/ /\ Runs(p) /\ ~UpRefused(s)
          /\ DockerUp(s)
          /\ Goto(p, IF job[p].kind = "bluegreen" THEN "ports" ELSE AfterUp(p))
          /\ UNCHANGED job
       \/ /\ Breaks(p, UpRefused(s))
          /\ DockerUpFails(s)
          /\ FailsAt(p, "up")
    /\ UNCHANGED <<fileVars, live, db, cancelled>>

ResolvePorts_skipped(p) ==
    /\ At(p, "ports") /\ Goto(p, "finalize")
    /\ UNCHANGED <<worldVars, job, cancelled, budget>>

\* resolveDynamicPorts: docker compose port tells the published host port.
ResolvePorts(p) ==
    /\ At(p, "ports")
    /\ LET c == docker[job[p].target] IN
       \/ /\ Runs(p) /\ c # Nil
          /\ job' = [job EXCEPT ![p].route = RouteOf(job[p].art.m, c.port)]
          /\ Goto(p, "finalize")
       \/ Breaks(p, c = Nil) /\ FailsAt(p, "ports")
    /\ UNCHANGED <<worldVars, cancelled>>

\* The slot's artifact is written again with the port its containers have.
Finalize(p) ==
    /\ At(p, "finalize")
    /\ LET j == job[p]
           final == ComposeOf(j.art.m, j.route.port) IN
       \/ /\ WriteDone
          /\ compose' = [compose EXCEPT ![j.target] = final]
          /\ job' = [job EXCEPT ![p].art = final, ![p].oldCaddy = caddy]
          /\ Goto(p, "cy_preserve")
       \/ /\ WriteFails
          /\ FailsAt(p, "finalize")
          /\ UNCHANGED compose
    /\ UNCHANGED <<prevCompose, caddy, prevCaddy, imported, live, docker, db, cancelled>>

-----------------------------------------------------------------------------
(* applyCaddy, shared by every operation that changes the route.             *)

CaddyPreserve_unsaved(p) ==
    /\ At(p, "cy_preserve") /\ WriteDone
    /\ job' = [job EXCEPT ![p].cSnap = caddy, ![p].iSnap = imported]
    /\ Goto(p, "cy_write")
    /\ UNCHANGED <<worldVars, cancelled>>

CaddyPreserve(p) ==
    /\ At(p, "cy_preserve")
    /\ \/ /\ WriteDone
          /\ prevCaddy' = caddy
          /\ job' = [job EXCEPT ![p].cSnap = caddy, ![p].iSnap = imported]
          /\ Goto(p, "cy_write")
       \/ /\ WriteFails
          /\ CaddyFails(p, {})
          /\ UNCHANGED prevCaddy
    /\ UNCHANGED <<compose, prevCompose, caddy, imported, live, docker, db, cancelled>>

CaddyWrite(p) ==
    /\ At(p, "cy_write")
    /\ \/ /\ WriteDone
          /\ caddy' = job[p].route
          /\ Goto(p, "cy_import")
          /\ UNCHANGED job
       \/ /\ WriteFails
          /\ CaddyFails(p, {})
          /\ UNCHANGED caddy
    /\ UNCHANGED <<compose, prevCompose, prevCaddy, imported, live, docker, db, cancelled>>

\* ensureCaddyImport
CaddyImport(p) ==
    /\ At(p, "cy_import")
    /\ \/ /\ WriteDone
          /\ imported' = TRUE
          /\ Goto(p, "cy_validate")
          /\ UNCHANGED job
       \/ /\ WriteFails
          /\ CaddyFails(p, {"snippet"})
          /\ UNCHANGED imported
    /\ UNCHANGED <<compose, prevCompose, caddy, prevCaddy, live, docker, db, cancelled>>

CaddyValidate(p) ==
    /\ At(p, "cy_validate")
    /\ \/ Runs(p) /\ Goto(p, "cy_reload") /\ UNCHANGED job
       \/ Breaks(p, FALSE) /\ CaddyFails(p, {"snippet", "import"})
    /\ UNCHANGED <<worldVars, cancelled>>

CaddyReload(p) ==
    /\ At(p, "cy_reload")
    /\ \/ Runs(p) /\ Reload /\ Goto(p, Switched(p)) /\ UNCHANGED job
       \/ Breaks(p, FALSE) /\ ReloadFails(p) /\ CaddyFails(p, {"snippet", "import", "reload"})
    /\ UNCHANGED <<fileVars, docker, db, cancelled>>

-----------------------------------------------------------------------------
(* The end of a deployment or a rollback.                                    *)

\* PutDeployment.  Only the blue-green paths undo anything when it fails.
PutDeployment(p) ==
    /\ At(p, "put")
    /\ LET j == job[p]
           switching == j.kind \in {"bluegreen", "switchback"} IN
       \/ /\ Runs(p)
          /\ db' = [status |-> "running", slot |-> j.target, revision |-> <<j.art, j.route>>]
          /\ IF switching THEN Goto(p, "drain") /\ UNCHANGED job ELSE Finish(p, "ok")
       \/ /\ Breaks(p, FALSE)
          /\ FailsAfter(p, Compensation(j, "put"), IF switching THEN "failed" ELSE "unrecorded")
          /\ UNCHANGED db
    /\ UNCHANGED <<fileVars, live, docker, cancelled>>

Drain_target(p) ==
    /\ At(p, "drain") /\ Runs(p)
    /\ DockerDown(job[p].target) /\ Finish(p, "ok")
    /\ UNCHANGED <<fileVars, live, db, cancelled>>

\* docker compose down of the layout that was active before.
Drain(p) ==
    /\ At(p, "drain")
    /\ LET s == job[p].slot IN
       \/ Runs(p) /\ compose[s] # Nil /\ DockerDown(s) /\ Finish(p, "ok")
       \/ Breaks(p, compose[s] = Nil) /\ DockerDownFails(s) /\ Finish(p, "undrained")
    /\ UNCHANGED <<fileVars, live, db, cancelled>>

-----------------------------------------------------------------------------
(* The error paths: rollbackCompose, cleanupBlueGreenSlot,                   *)
(* restoreCaddyAfterFailedSwitch, restoreRollbackCompose and the restores    *)
(* inside applyCaddy and Rollback.  Each does its steps in the order of       *)
(* UndoOrder; a step that fails does not stop the others, except those that  *)
(* need its file.                                                            *)

NeedsFile(step) ==
    CASE step = "compose"                        -> {"up"}
      [] step \in {"snippet", "import", "route"} -> {"reload"}
      [] OTHER                                   -> {}

Undoing(p, step) == At(p, "undo") /\ Comes(step, job[p].todo, UndoOrder)

Proceed(p, step) == FailsAfter(p, job[p].todo \ {step}, job[p].result)
ProceedBroken(p, step) ==
    FailsAfter(p, job[p].todo \ ({step} \cup NeedsFile(step)), "broken")

UndoCompose_removes(p) ==
    /\ Undoing(p, "compose") /\ WriteDone /\ Proceed(p, "compose")
    /\ compose' = [compose EXCEPT ![job[p].target] = Nil]
    /\ UNCHANGED <<prevCompose, caddy, prevCaddy, imported, live, docker, db, cancelled>>

UndoCompose(p) ==
    /\ Undoing(p, "compose") /\ WriteDone /\ Proceed(p, "compose")
    /\ compose' = [compose EXCEPT ![job[p].target] = job[p].snap]
    /\ UNCHANGED <<prevCompose, caddy, prevCaddy, imported, live, docker, db, cancelled>>

\* Rollback read the previous artifacts into art and route.
UndoPrevious(p) ==
    /\ \/ /\ Undoing(p, "previous") /\ Proceed(p, "previous")
          /\ prevCompose' = job[p].art /\ UNCHANGED prevCaddy
       \/ /\ Undoing(p, "previousRoute") /\ Proceed(p, "previousRoute")
          /\ prevCaddy' = job[p].route /\ UNCHANGED prevCompose
    /\ WriteDone
    /\ UNCHANGED <<compose, caddy, imported, live, docker, db, cancelled>>

UndoCaddy(p) ==
    /\ \/ /\ Undoing(p, "snippet") /\ Proceed(p, "snippet")
          /\ caddy' = job[p].cSnap /\ UNCHANGED imported
       \/ /\ Undoing(p, "route") /\ Proceed(p, "route")
          /\ caddy' = job[p].oldCaddy /\ UNCHANGED imported
       \/ /\ Undoing(p, "import") /\ Proceed(p, "import")
          /\ imported' = job[p].iSnap /\ UNCHANGED caddy
    /\ WriteDone
    /\ UNCHANGED <<compose, prevCompose, prevCaddy, live, docker, db, cancelled>>

UndoWriteFails(p) ==
    /\ \E step \in {"compose", "previous", "previousRoute", "snippet", "route", "import"} :
         Undoing(p, step) /\ ProceedBroken(p, step)
    /\ WriteFails
    /\ UNCHANGED <<worldVars, cancelled>>

UndoUp(p) ==
    /\ Undoing(p, "up")
    /\ LET s == job[p].target IN
       \/ Runs(p) /\ ~UpRefused(s) /\ DockerUp(s) /\ Proceed(p, "up")
       \/ Breaks(p, UpRefused(s)) /\ DockerUpFails(s) /\ ProceedBroken(p, "up")
    /\ UNCHANGED <<fileVars, live, db, cancelled>>

UndoDown(p) ==
    /\ Undoing(p, "down")
    /\ LET s == job[p].target IN
       \/ Runs(p) /\ compose[s] # Nil /\ DockerDown(s) /\ Proceed(p, "down")
       \/ Breaks(p, compose[s] = Nil) /\ DockerDownFails(s) /\ ProceedBroken(p, "down")
    /\ UNCHANGED <<fileVars, live, db, cancelled>>

UndoReload(p) ==
    /\ Undoing(p, "reload")
    /\ \/ Runs(p) /\ Reload /\ Proceed(p, "reload")
       \/ Breaks(p, FALSE) /\ ReloadFails(p) /\ ProceedBroken(p, "reload")
    /\ UNCHANGED <<fileVars, docker, db, cancelled>>

Undo(p) == UndoCompose(p) \/ UndoPrevious(p) \/ UndoCaddy(p) \/ UndoWriteFails(p)
              \/ UndoUp(p) \/ UndoDown(p) \/ UndoReload(p)

-----------------------------------------------------------------------------
(* Rollback: in the active layout, or by switching back to the other slot    *)
(* when that one still has an artifact.                                      *)

SlotToReturnTo == ActiveSlot # "base" /\ compose[Other(ActiveSlot)] # Nil

StartRollback(p) ==
    /\ At(p, "idle") /\ "rollback" \in Ops
    /\ db # Nil /\ ~SlotToReturnTo
    /\ compose[db.slot] # Nil /\ prevCompose # Nil
    /\ job' = [job EXCEPT ![p] =
                 [NewJob("rollback", db.slot, db.slot) EXCEPT
                     !.art = prevCompose, !.route = prevCaddy, !.snap = compose[db.slot],
                     !.needsCaddy = caddy # Nil \/ prevCaddy # Nil]]
    /\ Goto(p, "preserve")
    /\ UNCHANGED <<worldVars, cancelled, budget>>

\* rollbackBlueGreen
StartSwitchback(p) ==
    /\ At(p, "idle") /\ "rollback" \in Ops
    /\ db # Nil /\ SlotToReturnTo
    /\ compose[db.slot] # Nil /\ prevCaddy # Nil
    /\ job' = [job EXCEPT ![p] =
                 [NewJob("switchback", db.slot, Other(db.slot)) EXCEPT
                     !.art = compose[Other(db.slot)], !.route = prevCaddy,
                     !.oldCaddy = caddy, !.needsCaddy = TRUE]]
    /\ Goto(p, "config")
    /\ UNCHANGED <<worldVars, cancelled, budget>>

-----------------------------------------------------------------------------
(* Control: restart and stop.                                                *)

StartControl(p, action) ==
    /\ At(p, "idle") /\ action \in Ops \cap {"restart", "stop"}
    /\ db # Nil
    /\ job' = [job EXCEPT ![p] = NewJob(action, db.slot, db.slot)]
    /\ Goto(p, "command")
    /\ UNCHANGED <<worldVars, cancelled, budget>>

StatusAfter_action(kind) == kind

\* docker compose restart | stop; with no containers there is nothing to do.
StatusAfter(kind) == IF kind = "stop" THEN "stopped" ELSE "running"

ControlContainers(p) ==
    /\ At(p, "command")
    /\ LET s == job[p].slot
           halted == [docker[s] EXCEPT !.st = "stopped"]
           after == IF docker[s] = Nil THEN {Nil}
                    ELSE IF job[p].kind = "stop" THEN {halted}
                    ELSE Restarted(s)
           refused == compose[s] = Nil \/ after = {}
           half == IF docker[s] = Nil THEN {Nil} ELSE {docker[s], halted} \cup after
       IN  \/ /\ p \notin cancelled /\ compose[s] # Nil
              /\ \E c \in after :
                    /\ docker' = [docker EXCEPT ![s] = c]
                    /\ budget' = [budget EXCEPT !.moved =
                                     @ \/ (c # Nil /\ c.port # docker[s].port)]
              /\ Goto(p, "record")
              /\ UNCHANGED job
           \/ /\ Breaks(p, refused)
              /\ \E c \in half : docker' = [docker EXCEPT ![s] = c]
              /\ Finish(p, "failed")
    /\ UNCHANGED <<fileVars, live, db, cancelled>>

\* SetDeploymentStatus fails when it finds no row.
RecordStatus(p) ==
    /\ At(p, "record")
    /\ \/ /\ Runs(p) /\ db # Nil
          /\ db' = [db EXCEPT !.status = StatusAfter(job[p].kind)]
          /\ Finish(p, "ok")
       \/ /\ Breaks(p, db = Nil)
          /\ Finish(p, "failed")
          /\ UNCHANGED db
    /\ UNCHANGED <<fileVars, live, docker, cancelled>>

-----------------------------------------------------------------------------
(* Delete.                                                                   *)

StartDelete(p) ==
    /\ At(p, "idle") /\ "delete" \in Ops
    /\ db # Nil \/ compose["base"] # Nil \/ caddy # Nil
    /\ job' = [job EXCEPT ![p] =
                 [NewJob("delete", ActiveSlot, ActiveSlot) EXCEPT
                     !.needsCaddy = caddy # Nil, !.todo = Removals]]
    /\ Goto(p, IF compose[ActiveSlot] # Nil THEN "down"
               ELSE IF caddy # Nil THEN "cy_preserve" ELSE "remove")
    /\ UNCHANGED <<worldVars, cancelled, budget>>

DeleteContainers(p) ==
    /\ At(p, "down")
    /\ LET s == job[p].slot IN
       \/ /\ Runs(p) /\ compose[s] # Nil
          /\ DockerDown(s)
          /\ Goto(p, IF job[p].needsCaddy THEN "cy_preserve" ELSE "remove")
          /\ UNCHANGED job
       \/ Breaks(p, compose[s] = Nil) /\ DockerDownFails(s) /\ Finish(p, "failed")
    /\ UNCHANGED <<fileVars, live, db, cancelled>>

\* One file after the other, then the directory of the slots.
Removing(p, what) ==
    /\ At(p, "remove") /\ Comes(what, job[p].todo, RemovalOrder)
    /\ job' = [job EXCEPT ![p].todo = @ \ {what}]
    /\ Goto(p, IF job[p].todo = {what} THEN "forget" ELSE "remove")

RemoveFile(p) ==
    /\ \/ /\ Removing(p, "base") /\ compose' = [compose EXCEPT !["base"] = Nil]
          /\ UNCHANGED <<prevCompose, caddy, prevCaddy>>
       \/ /\ Removing(p, "previous") /\ prevCompose' = Nil
          /\ UNCHANGED <<compose, caddy, prevCaddy>>
       \/ /\ Removing(p, "snippet") /\ caddy' = Nil
          /\ UNCHANGED <<compose, prevCompose, prevCaddy>>
       \/ /\ Removing(p, "previousRoute") /\ prevCaddy' = Nil
          /\ UNCHANGED <<compose, prevCompose, caddy>>
       \/ /\ Removing(p, "slots") /\ compose' = [compose EXCEPT !["a"] = Nil, !["b"] = Nil]
          /\ UNCHANGED <<prevCompose, caddy, prevCaddy>>
    /\ WriteDone
    /\ UNCHANGED <<imported, live, docker, db, cancelled>>

RemoveFails(p) ==
    /\ At(p, "remove") /\ WriteFails
    /\ Finish(p, "failed")
    /\ UNCHANGED <<worldVars, cancelled>>

\* DeleteProject
Forget(p) ==
    /\ At(p, "forget")
    /\ \/ Runs(p) /\ db' = Nil /\ Finish(p, "ok")
       \/ Breaks(p, FALSE) /\ Finish(p, "failed") /\ UNCHANGED db
    /\ UNCHANGED <<fileVars, live, docker, cancelled>>

-----------------------------------------------------------------------------
(* The end of an operation, a cancelled context (an interrupt, a client that *)
(* closes its request) and the death of the process.                         *)

Leave(p) ==
    /\ Goto(p, "idle")
    /\ job' = [job EXCEPT ![p] = Nil]
    /\ cancelled' = cancelled \ {p}
    /\ UNCHANGED worldVars

Return(p) == At(p, "done") /\ Leave(p) /\ UNCHANGED budget

Cancel(p) ==
    /\ pc[p] \notin {"idle", "done"} /\ p \notin cancelled /\ budget.cancels > 0 /\ OneMore
    /\ cancelled' = cancelled \cup {p}
    /\ budget' = [budget EXCEPT !.cancels = @ - 1]
    /\ UNCHANGED <<worldVars, pc, job>>

Crash(p) ==
    /\ pc[p] \notin {"idle", "done"} /\ budget.crashes > 0 /\ OneMore
    /\ budget' = [budget EXCEPT !.crashes = @ - 1]
    /\ Leave(p)

Start(p) ==
    \/ \E m \in Manifests : StartDeploy(p, m)
    \/ StartRollback(p) \/ StartSwitchback(p)
    \/ \E action \in {"restart", "stop"} : StartControl(p, action)
    \/ StartDelete(p)

Deploying(p) ==
    \/ Preserve(p) \/ WriteCompose(p) \/ ValidateCompose(p) \/ UpContainers(p)
    \/ ResolvePorts(p) \/ Finalize(p) \/ PutDeployment(p) \/ Drain(p)

ApplyCaddy(p) ==
    \/ CaddyPreserve(p) \/ CaddyWrite(p) \/ CaddyImport(p) \/ CaddyValidate(p)
    \/ CaddyReload(p)

Controlling(p) == ControlContainers(p) \/ RecordStatus(p)

Deleting(p) == DeleteContainers(p) \/ RemoveFile(p) \/ RemoveFails(p) \/ Forget(p)

Step(p) == Start(p) \/ Deploying(p) \/ ApplyCaddy(p) \/ Undo(p) \/ Controlling(p)
              \/ Deleting(p) \/ Return(p)

Next == \E p \in Procs : Step(p) \/ Cancel(p) \/ Crash(p)

Spec == Init /\ [][Next]_vars

-----------------------------------------------------------------------------
(* Properties.  Those that look at an operation when it is about to return   *)
(* compare the world with the one it found (job.before).                     *)

Running(s) == docker[s] # Nil /\ docker[s].st = "up"
Serving(s, art) ==
    /\ Running(s) /\ docker[s].m = art.m
    /\ docker[s].port \in IF art.port = "dynamic" THEN DynPorts ELSE {art.port}

\* The running Caddy serves what its files say.
Settled(w) == w.live = w.caddy /\ (w.caddy # Nil => w.imported)

Ended(p, kinds, results) ==
    At(p, "done") /\ job[p].kind \in kinds /\ job[p].result \in results

\* What `rollback` would go back to, and what it would leave, in a world w.
PreviousPair(w) ==
    LET s == w.db.slot IN
    IF s # "base" /\ w.compose[Other(s)] # Nil
    THEN <<w.compose[Other(s)], w.prevCaddy>>
    ELSE <<w.prevCompose, w.prevCaddy>>
CurrentPair(w) == <<w.compose[w.db.slot], w.caddy>>

\* A deployment that reports success has left the artifact it generated in the
\* layout the database names, healthy containers of that artifact, a Caddy that
\* serves exactly their port and, after a blue-green switch, no old containers:
\* whatever failed, was cancelled or crashed in the operations before it.
DeploySuccessServes ==
    \A p \in Procs : Ended(p, {"inplace", "bluegreen"}, {"ok"}) =>
        LET j == job[p] IN
        /\ db # Nil /\ db.status = "running" /\ db.slot = j.target
        /\ compose[j.target] = j.art /\ Serving(j.target, j.art)
        /\ docker[j.target].port = j.art.port
        /\ j.art.m \in Routed => caddy = RouteOf(j.art.m, j.art.port) /\ live = caddy
        /\ j.kind = "bluegreen" => docker[j.slot] = Nil

\* A blue-green deployment that fails, and whose error path does not, leaves
\* the old slot, its route and its row as they were, and nothing of the replacement
\* (its live route when Caddy served what its files said).
FailedReplacementLeavesActive ==
    \A p \in Procs : Ended(p, {"bluegreen"}, {"failed"}) =>
        LET b == job[p].before IN
        /\ docker \in {b.docker, [b.docker EXCEPT ![job[p].target] = Nil]}
        /\ compose = b.compose
        /\ caddy = b.caddy /\ db = b.db
        /\ Settled(b) => live = b.live

\* A replacement in place that fails after its first change brings the previous
\* artifact back with healthy containers, or removes a failed first deployment
\* altogether; the route and the row are those from before, the live route too when
\* Caddy served what its files said.
FailedDeployRestoresArtifact ==
    \A p \in Procs : Ended(p, {"inplace"}, {"failed"}) =>
        LET b == job[p].before IN
        /\ compose = b.compose /\ caddy = b.caddy /\ db = b.db
        /\ Settled(b) => live = b.live
        /\ b.compose["base"] = Nil => docker["base"] \in {b.docker["base"], Nil}
        /\ docker # b.docker /\ docker["base"] # Nil => Serving("base", b.compose["base"])

\* Zero downtime: when the live route leads to the active layout, no step of a
\* blue-green deployment, its error paths included, takes the live route away or
\* leaves it without running containers to lead to.
LeadsTo(w, s) ==
    /\ w.live # Nil
    /\ w.docker[s] # Nil /\ w.docker[s].st = "up" /\ w.docker[s].port = w.live.port

RouteAlive == \E s \in Slots : LeadsTo(Now, s)

NoDowntime ==
    [][\A p \in Procs :
          (/\ job[p] # Nil /\ job[p].kind = "bluegreen"
           /\ LeadsTo(job[p].before, job[p].slot) /\ RouteAlive) => RouteAlive']_vars

\* The layout that status, logs, restart, stop and rollback are pointed at by
\* the row always has its artifact, unless a deletion has started to remove it.
RecordedArtifactExists == db # Nil => compose[db.slot] # Nil

\* As long as nothing has failed and no restart has moved containers that were created
\* with a published port 0 to another port, and while no operation runs: the row, the
\* files, the containers and the live route describe one and the same deployment,
\* nothing else of the project runs, and with no row nothing is left at all.
Untroubled == budget = FullBudget

Coherent ==
    (Untroubled /\ \A p \in Procs : At(p, "idle")) =>
        IF db = Nil
        THEN /\ compose = [s \in Slots |-> Nil] /\ docker = compose
             /\ {prevCompose, caddy, prevCaddy, live} = {Nil}
        ELSE /\ db.status = "running" => Serving(db.slot, compose[db.slot])
             /\ db.revision[1].m = compose[db.slot].m /\ db.revision[2] = caddy
             /\ live = caddy
             /\ caddy # Nil => caddy.port = compose[db.slot].port
             /\ \A s \in Slots \ {db.slot} : docker[s] = Nil

\* A rollback that succeeds exchanges the current and the previous pair of
\* artifacts, so that a second one rolls forward.
RollbackExchangesPairs ==
    \A p \in Procs : Ended(p, {"rollback", "switchback"}, {"ok"}) =>
        LET b == job[p].before IN
        CurrentPair(Now) = PreviousPair(b) /\ PreviousPair(Now) = CurrentPair(b)

\* A rollback in place that fails puts both pairs of artifacts back, and the live
\* route when Caddy served what its files said, and runs the containers of the
\* current one.
FailedRollbackRestores ==
    \A p \in Procs : Ended(p, {"rollback"}, {"failed"}) =>
        LET b == job[p].before
            s == job[p].slot IN
        /\ compose = b.compose /\ prevCompose = b.prevCompose
        /\ caddy = b.caddy /\ prevCaddy = b.prevCaddy /\ db = b.db
        /\ Settled(b) => live = b.live
        /\ docker[s] # b.docker[s] => Serving(s, b.compose[s])

\* A deletion that succeeds leaves no artifact, no route file and no row behind,
\* however many attempts failed or died before.
DeleteLeavesNoState ==
    \A p \in Procs : Ended(p, {"delete"}, {"ok"}) =>
        /\ db = Nil /\ compose = [s \in Slots |-> Nil]
        /\ {prevCompose, caddy, prevCaddy} = {Nil}
=============================================================================
