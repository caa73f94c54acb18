---------------------------- MODULE Lifecycle_proofs ----------------------------
(***************************************************************************)
(* Proofs about Lifecycle, for any manifests, ports, operations and bounds *)
(* on faults, crashes and cancelled contexts.                              *)
(*                                                                         *)
(* The invariants that compare the world with the one an operation found   *)
(* are about operations of a project that do not overlap: their theorems   *)
(* assume that Procs has one element.  Then an operation knows, at each    *)
(* step, what it has changed of the world it found (job.before) and what   *)
(* its error path still has to put back.                                   *)
(***************************************************************************)
EXTENDS Lifecycle, TLAPS

-----------------------------------------------------------------------------
(* The inductive invariant.                                                  *)

\* Types, for any number of processes.  A blue-green deployment completes the artifact
\* it has generated with the port it was told.
FinalInv(p) ==
    /\ job[p].kind = "bluegreen" => job[p].art # Nil /\ job[p].art.m \in Routed
    /\ pc[p] \in {"ports", "finalize"} => job[p].kind = "bluegreen"
    /\ pc[p] = "finalize" => job[p].route # Nil

TypeInv == TypeOK /\ \A p \in Procs : pc[p] # "idle" => FinalInv(p)

Switch == {"cy_preserve", "cy_write", "cy_import", "cy_validate", "cy_reload"}
Replaces == {"inplace", "bluegreen", "rollback"}   \* the kinds that write an artifact
Changes == Replaces \cup {"switchback"}             \* the kinds that change the deployment

\* The steps of each kind of operation.
StepsOf(kind) ==
    CASE kind \in {"inplace", "rollback"} ->
             {"preserve", "write", "config", "up", "put", "undo", "done"} \cup Switch
      [] kind = "bluegreen"  -> {"preserve", "write", "config", "up", "ports", "finalize",
                                 "put", "drain", "undo", "done"} \cup Switch
      [] kind = "switchback" -> {"config", "up", "put", "drain", "undo", "done"} \cup Switch
      [] kind = "delete"     -> {"down", "remove", "forget", "undo", "done"} \cup Switch
      [] OTHER               -> {"command", "record", "done"}

\* An operation that has recorded its deployment, that runs its error path, and one
\* whose error path has not failed so far.
Recorded(p) ==
    pc[p] = "drain" \/ (pc[p] = "done" /\ job[p].result \in {"ok", "undrained"})
Erring(p) == pc[p] \in {"undo", "done"} /\ job[p].result = "failed"

\* An operation has come past one of these steps and not failed.
Past(p, steps) == pc[p] \notin steps /\ pc[p] # "undo"
                  /\ (pc[p] = "done" => job[p].result \in {"ok", "undrained"})

ShapeInv(p) ==
    /\ pc[p] \in StepsOf(job[p].kind)
    /\ pc[p] \notin {"undo", "done"} => job[p].result = "none"
    /\ pc[p] = "undo" => job[p].result \in {"failed", "broken"}
    /\ pc[p] = "done" => job[p].result # "none"
    /\ job[p].result = "undrained" => job[p].kind \in {"bluegreen", "switchback"}
    /\ job[p].kind # "delete" /\ pc[p] # "undo" => job[p].todo = {}
    /\ pc[p] \in Switch => job[p].needsCaddy = TRUE

\* What an operation has decided from the world it found.
PlanInv(p) ==
    LET j == job[p]
        b == j.before IN
    /\ j.kind = "inplace" =>
          /\ j.slot = "base" /\ j.target = "base" /\ j.art # Nil
          /\ j.art.port = "stable" \/ (j.art.port = "none" /\ j.art.m \notin Routed)
          /\ j.route = RouteOf(j.art.m, "stable")
          /\ j.needsCaddy = (j.art.m \in Routed \/ b.caddy # Nil)
    /\ j.kind = "bluegreen" =>
          /\ b.db # Nil /\ j.slot = b.db.slot /\ j.target = Other(b.db.slot)
          /\ j.art # Nil /\ j.art.m \in Routed /\ j.needsCaddy = TRUE
    /\ j.kind = "rollback" =>
          /\ b.db # Nil /\ j.slot = b.db.slot /\ j.target = b.db.slot
          /\ b.db.slot # "base" => b.compose[Other(b.db.slot)] = Nil
          /\ j.art # Nil /\ j.art = b.prevCompose /\ j.route = b.prevCaddy
          /\ j.snap = b.compose[j.target] /\ j.snap # Nil
          /\ j.needsCaddy = (b.caddy # Nil \/ b.prevCaddy # Nil)
    /\ j.kind = "switchback" =>
          /\ b.db # Nil /\ j.slot = b.db.slot /\ j.target = Other(b.db.slot)
          /\ j.slot # "base" /\ b.compose[j.slot] # Nil /\ j.needsCaddy = TRUE
          /\ j.art # Nil /\ j.art = b.compose[j.target]
          /\ j.route = b.prevCaddy /\ j.oldCaddy = b.caddy

\* The row is the one found until the deployment is recorded.
RowInv(p) ==
    LET j == job[p] IN
    /\ pc[p] # "drain" /\ (pc[p] = "done" => job[p].result \notin {"ok", "undrained"})
          => db = j.before.db
    /\ Recorded(p) =>
          db # Nil /\ db.status = "running" /\ db.slot = j.target

\* The artifacts are those found, except that of the target.
ComposeInv(p) ==
    LET j == job[p]
        was == j.before.compose IN
    /\ \A s \in Slots \ {j.target} : compose[s] = was[s]
    /\ compose[j.target] \in {was[j.target], j.art}
    /\ j.kind \notin Replaces => compose[j.target] = was[j.target]
    /\ pc[p] \in {"preserve", "write"} => compose[j.target] = was[j.target]
    /\ j.kind \in Replaces /\ Past(p, {"preserve", "write"}) =>
          compose[j.target] = j.art
    /\ j.kind \in Replaces /\ Past(p, {"preserve"}) => j.snap = was[j.target]
    /\ pc[p] = "undo" /\ "compose" \in j.todo => j.snap = was[j.target]
    /\ Erring(p) => "compose" \in j.todo \/ compose[j.target] = was[j.target]

\* The previous artifact, which only a rollback exchanges.
PreviousInv(p) ==
    LET j == job[p]
        b == j.before IN
    j.kind = "rollback" =>
    /\ pc[p] = "preserve" => prevCompose = b.prevCompose
    /\ Past(p, {"preserve"}) => prevCompose = b.compose[j.target]
    /\ Erring(p) => "previous" \in j.todo \/ prevCompose = b.prevCompose

\* The previous route, saved by applyCaddy.
PreviousRouteInv(p) ==
    LET j == job[p]
        b == j.before IN
    j.kind \in {"rollback", "switchback"} =>
    /\ pc[p] \in {"preserve", "write", "config", "up", "cy_preserve"} => prevCaddy = b.prevCaddy
    /\ Past(p, {"preserve", "write", "config", "up", "cy_preserve"}) =>
          prevCaddy = IF j.needsCaddy THEN b.caddy ELSE b.prevCaddy
    /\ j.kind = "rollback" /\ Erring(p) => "previousRoute" \in j.todo \/ prevCaddy = b.prevCaddy

\* The snippet and its import.
BeforeSwitch == {"preserve", "write", "config", "up", "ports", "finalize", "down",
                 "cy_preserve", "cy_write"}
Moved == {"put", "drain", "done"}
SnippetInv(p) ==
    LET j == job[p]
        b == j.before IN
    /\ pc[p] \in BeforeSwitch => caddy = b.caddy
    /\ pc[p] \in {"cy_import", "cy_validate", "cy_reload"} => caddy = j.route
    /\ Past(p, BeforeSwitch \cup Switch) =>
          caddy = IF j.needsCaddy THEN j.route ELSE b.caddy
    /\ pc[p] \in {"cy_write", "cy_import", "cy_validate", "cy_reload"} => j.cSnap = b.caddy
    /\ pc[p] \in Switch \cup {"put"} /\ j.kind \in {"bluegreen", "switchback"} =>
          j.oldCaddy = b.caddy
    /\ Erring(p) =>
          /\ "snippet" \in j.todo => j.cSnap = b.caddy
          /\ "route" \in j.todo => j.oldCaddy = b.caddy
          /\ "snippet" \notin j.todo /\ "route" \notin j.todo => caddy = b.caddy

ImportInv(p) ==
    LET j == job[p]
        b == j.before IN
    /\ b.imported => imported
    /\ pc[p] \in BeforeSwitch \cup {"cy_import"} => imported = b.imported
    /\ pc[p] \in {"cy_write", "cy_import", "cy_validate", "cy_reload"} => j.iSnap = b.imported
    /\ pc[p] \in {"cy_validate", "cy_reload"} => imported
    /\ pc[p] = "undo" /\ "import" \in j.todo => j.iSnap = b.imported

\* The live route.
LiveInv(p) ==
    LET j == job[p]
        b == j.before IN
    /\ pc[p] \in BeforeSwitch \cup Switch => live = b.live
    /\ Past(p, BeforeSwitch \cup Switch) => live = IF j.needsCaddy THEN j.route ELSE b.live
    /\ Erring(p) => "reload" \in j.todo \/ (Settled(b) => live = b.live)

\* The containers: those of the other layouts, and those of the target.
Shown(c, art) == /\ c # Nil /\ c.st = "up" /\ c.m = art.m
                 /\ c.port \in IF art.port = "dynamic" THEN DynPorts ELSE {art.port}
Restarts(j) == j.kind = "rollback" \/ (j.kind = "inplace" /\ j.before.compose[j.target] # Nil)
DockerInv(p) ==
    LET j == job[p]
        was == j.before.docker IN
    /\ \A s \in Slots \ {j.target} : docker[s] = was[s] \/ (s = j.slot /\ Recorded(p))
    /\ pc[p] = "done" /\ job[p].result = "ok" /\ j.kind \in {"bluegreen", "switchback"} =>
          docker[j.slot] = Nil
    /\ pc[p] \in {"preserve", "write", "config", "up"} => docker[j.target] = was[j.target]
    /\ Past(p, {"preserve", "write", "config", "up"}) => Shown(docker[j.target], j.art)
    /\ j.kind = "bluegreen" /\ pc[p] \in {"preserve", "write", "config", "up", "ports", "finalize"}
          => j.art.port = "dynamic"
    /\ j.kind = "bluegreen" /\ pc[p] = "finalize" =>
          j.route = [m |-> j.art.m, port |-> docker[j.target].port]
    /\ j.kind = "bluegreen"
       /\ Past(p, {"preserve", "write", "config", "up", "ports", "finalize"}) =>
          j.art.port = docker[j.target].port /\ j.route = [m |-> j.art.m, port |-> j.art.port]
    /\ pc[p] = "undo" => ("up" \in j.todo => Restarts(j)) /\ ("down" \in j.todo => ~Restarts(j))
    /\ Erring(p) =>
          IF Restarts(j)
          THEN \/ "up" \in j.todo
               \/ docker[j.target] = was[j.target]
               \/ Shown(docker[j.target], j.before.compose[j.target])
          ELSE "down" \in j.todo \/ docker[j.target] \in {was[j.target], Nil}

\* What a deletion has removed.
RemovedInv(p) ==
    LET j == job[p] IN
    j.kind = "delete" =>
    /\ pc[p] \in {"down"} \cup Switch => j.todo = Removals
    /\ pc[p] = "remove" => j.todo # {} /\ j.todo \subseteq Removals
    /\ pc[p] \in {"forget", "done"} /\ job[p].result \in {"none", "ok"} => j.todo = {}
    /\ (pc[p] # "undo" /\ (pc[p] = "done" => job[p].result = "ok")) =>
          /\ "base" \notin j.todo => compose["base"] = Nil
          /\ "previous" \notin j.todo => prevCompose = Nil
          /\ "snippet" \notin j.todo => caddy = Nil
          /\ "previousRoute" \notin j.todo => prevCaddy = Nil
          /\ "slots" \notin j.todo => compose["a"] = Nil /\ compose["b"] = Nil
    /\ pc[p] = "done" /\ job[p].result = "ok" => db = Nil

ChangeInv(p) ==
    /\ PlanInv(p) /\ RowInv(p) /\ ComposeInv(p) /\ PreviousInv(p) /\ PreviousRouteInv(p)
    /\ SnippetInv(p) /\ ImportInv(p) /\ LiveInv(p) /\ DockerInv(p)

OperationInv(p) ==
    /\ ShapeInv(p) /\ RemovedInv(p)
    /\ job[p].kind \in Changes => ChangeInv(p)

\* Without deletions the recorded layout has its artifact, now and in the world that an
\* operation found.
RecordedInv ==
    "delete" \notin Ops =>
    /\ RecordedArtifactExists
    /\ \A p \in Procs : pc[p] # "idle" =>
          LET b == job[p].before IN
          job[p].kind # "delete" /\ (b.db # Nil => b.compose[b.db.slot] # Nil)

LifecycleInv ==
    /\ TypeOK
    /\ \A p \in Procs : pc[p] # "idle" => OperationInv(p)
    /\ RecordedInv

-----------------------------------------------------------------------------
(* What an update of the local variables of an operation leaves alone.       *)

\* Only the local variables of p have changed, and they are still those of an operation.
JobTyped(p) ==
    /\ job' \in [Procs -> Jobs \cup {Nil}] /\ job'[p] \in Jobs /\ job'[p] # Nil
    /\ \A q \in Procs \ {p} : job'[q] = job[q]

\* The operation is the same, and so are the data it has read.
Same(p) ==
    /\ JobTyped(p)
    /\ job'[p].kind = job[p].kind /\ job'[p].slot = job[p].slot
    /\ job'[p].target = job[p].target /\ job'[p].needsCaddy = job[p].needsCaddy
    /\ job'[p].before = job[p].before
Data(p) ==
    /\ job'[p].art = job[p].art /\ job'[p].route = job[p].route /\ job'[p].snap = job[p].snap
    /\ job'[p].oldCaddy = job[p].oldCaddy /\ job'[p].cSnap = job[p].cSnap
    /\ job'[p].iSnap = job[p].iSnap
TodoSets == SUBSET (Elements(UndoOrder) \cup Elements(RemovalOrder))

\* A process that runs an operation has its local variables.
LEMMA Busy ==
    ASSUME TypeOK, NEW p \in Procs, pc[p] # "idle"
    PROVE  job[p] \in Jobs /\ job \in [Procs -> Jobs \cup {Nil}] /\ pc \in [Procs -> Steps]
    BY DEF TypeOK

\* Nil is none of them.
LEMMA NilJob == Nil \notin Jobs
    BY NilAssumption

\* What an update of the result leaves alone.
LEMMA UpdateResult ==
    ASSUME TypeOK, NEW p \in Procs, pc[p] # "idle",
           NEW r \in Results,
           job' = [job EXCEPT ![p].result = r]
    PROVE  /\ Same(p) /\ Data(p) /\ job'[p].todo = job[p].todo /\ job'[p].result = r
<1>1. job[p] \in Jobs /\ job \in [Procs -> Jobs \cup {Nil}] BY Busy
<1>2. PICK j \in Jobs : j = job[p] BY <1>1
<1>3. PICK k : k = [j EXCEPT !.result = r] OBVIOUS
<1>4. k \in Jobs BY <1>2, <1>3 DEF Jobs, TodoSets
<1>5. job' = [job EXCEPT ![p] = k] BY <1>1, <1>2, <1>3
<1>6. job'[p] = k /\ JobTyped(p) BY <1>1, <1>4, <1>5, NilJob DEF JobTyped
<1>7. k.kind = j.kind /\ k.slot = j.slot /\ k.target = j.target
          /\ k.needsCaddy = j.needsCaddy /\ k.before = j.before
          /\ k.art = j.art /\ k.route = j.route /\ k.snap = j.snap
          /\ k.oldCaddy = j.oldCaddy /\ k.cSnap = j.cSnap
          /\ k.iSnap = j.iSnap /\ k.todo = j.todo /\ k.result = r
      BY <1>2, <1>3 DEF Jobs
<1> QED BY <1>2, <1>6, <1>7 DEF Same, Data

\* What an update of the steps left to do leaves alone.
LEMMA UpdateTodo ==
    ASSUME TypeOK, NEW p \in Procs, pc[p] # "idle",
           NEW T \in TodoSets,
           job' = [job EXCEPT ![p].todo = T]
    PROVE  /\ Same(p) /\ Data(p) /\ job'[p].result = job[p].result /\ job'[p].todo = T
<1>1. job[p] \in Jobs /\ job \in [Procs -> Jobs \cup {Nil}] BY Busy
<1>2. PICK j \in Jobs : j = job[p] BY <1>1
<1>3. PICK k : k = [j EXCEPT !.todo = T] OBVIOUS
<1>4. k \in Jobs BY <1>2, <1>3 DEF Jobs, TodoSets
<1>5. job' = [job EXCEPT ![p] = k] BY <1>1, <1>2, <1>3
<1>6. job'[p] = k /\ JobTyped(p) BY <1>1, <1>4, <1>5, NilJob DEF JobTyped
<1>7. k.kind = j.kind /\ k.slot = j.slot /\ k.target = j.target
          /\ k.needsCaddy = j.needsCaddy /\ k.before = j.before
          /\ k.art = j.art /\ k.route = j.route /\ k.snap = j.snap
          /\ k.oldCaddy = j.oldCaddy /\ k.cSnap = j.cSnap
          /\ k.iSnap = j.iSnap /\ k.result = j.result /\ k.todo = T
      BY <1>2, <1>3 DEF Jobs
<1> QED BY <1>2, <1>6, <1>7 DEF Same, Data

\* What the beginning or a step of an error path leaves alone.
LEMMA UpdateError ==
    ASSUME TypeOK, NEW p \in Procs, pc[p] # "idle",
           NEW T \in TodoSets, NEW r \in Results,
           job' = [job EXCEPT ![p].todo = T, ![p].result = r]
    PROVE  /\ Same(p) /\ Data(p) /\ job'[p].todo = T /\ job'[p].result = r
<1>1. job[p] \in Jobs /\ job \in [Procs -> Jobs \cup {Nil}] BY Busy
<1>2. PICK j \in Jobs : j = job[p] BY <1>1
<1>3. PICK k : k = [j EXCEPT !.todo = T, !.result = r] OBVIOUS
<1>4. k \in Jobs BY <1>2, <1>3 DEF Jobs, TodoSets
<1>5. job' = [job EXCEPT ![p] = k] BY <1>1, <1>2, <1>3
<1>6. job'[p] = k /\ JobTyped(p) BY <1>1, <1>4, <1>5, NilJob DEF JobTyped
<1>7. k.kind = j.kind /\ k.slot = j.slot /\ k.target = j.target
          /\ k.needsCaddy = j.needsCaddy /\ k.before = j.before
          /\ k.art = j.art /\ k.route = j.route /\ k.snap = j.snap
          /\ k.oldCaddy = j.oldCaddy /\ k.cSnap = j.cSnap
          /\ k.iSnap = j.iSnap /\ k.todo = T /\ k.result = r
      BY <1>2, <1>3 DEF Jobs
<1> QED BY <1>2, <1>6, <1>7 DEF Same, Data

\* What the snapshot of the artifact leaves alone.
LEMMA UpdateSnap ==
    ASSUME TypeOK, NEW p \in Procs, pc[p] # "idle",
           NEW a \in MaybeArtifact,
           job' = [job EXCEPT ![p].snap = a]
    PROVE  /\ Same(p) /\ job'[p].art = job[p].art /\ job'[p].route = job[p].route
           /\ job'[p].oldCaddy = job[p].oldCaddy
           /\ job'[p].cSnap = job[p].cSnap /\ job'[p].iSnap = job[p].iSnap
           /\ job'[p].todo = job[p].todo /\ job'[p].result = job[p].result
           /\ job'[p].snap = a
<1>1. job[p] \in Jobs /\ job \in [Procs -> Jobs \cup {Nil}] BY Busy
<1>2. PICK j \in Jobs : j = job[p] BY <1>1
<1>3. PICK k : k = [j EXCEPT !.snap = a] OBVIOUS
<1>4. k \in Jobs BY <1>2, <1>3 DEF Jobs, TodoSets
<1>5. job' = [job EXCEPT ![p] = k] BY <1>1, <1>2, <1>3
<1>6. job'[p] = k /\ JobTyped(p) BY <1>1, <1>4, <1>5, NilJob DEF JobTyped
<1>7. k.kind = j.kind /\ k.slot = j.slot /\ k.target = j.target
          /\ k.needsCaddy = j.needsCaddy /\ k.before = j.before
          /\ k.art = j.art /\ k.route = j.route /\ k.oldCaddy = j.oldCaddy
          /\ k.cSnap = j.cSnap /\ k.iSnap = j.iSnap /\ k.todo = j.todo
          /\ k.result = j.result /\ k.snap = a
      BY <1>2, <1>3 DEF Jobs
<1> QED BY <1>2, <1>6, <1>7 DEF Same

\* What the resolved route leaves alone.
LEMMA UpdateRoute ==
    ASSUME TypeOK, NEW p \in Procs, pc[p] # "idle",
           NEW a \in MaybeArtifact,
           job' = [job EXCEPT ![p].route = a]
    PROVE  /\ Same(p) /\ job'[p].art = job[p].art /\ job'[p].snap = job[p].snap
           /\ job'[p].oldCaddy = job[p].oldCaddy
           /\ job'[p].cSnap = job[p].cSnap /\ job'[p].iSnap = job[p].iSnap
           /\ job'[p].todo = job[p].todo /\ job'[p].result = job[p].result
           /\ job'[p].route = a
<1>1. job[p] \in Jobs /\ job \in [Procs -> Jobs \cup {Nil}] BY Busy
<1>2. PICK j \in Jobs : j = job[p] BY <1>1
<1>3. PICK k : k = [j EXCEPT !.route = a] OBVIOUS
<1>4. k \in Jobs BY <1>2, <1>3 DEF Jobs, TodoSets
<1>5. job' = [job EXCEPT ![p] = k] BY <1>1, <1>2, <1>3
<1>6. job'[p] = k /\ JobTyped(p) BY <1>1, <1>4, <1>5, NilJob DEF JobTyped
<1>7. k.kind = j.kind /\ k.slot = j.slot /\ k.target = j.target
          /\ k.needsCaddy = j.needsCaddy /\ k.before = j.before
          /\ k.art = j.art /\ k.snap = j.snap /\ k.oldCaddy = j.oldCaddy
          /\ k.cSnap = j.cSnap /\ k.iSnap = j.iSnap /\ k.todo = j.todo
          /\ k.result = j.result /\ k.route = a
      BY <1>2, <1>3 DEF Jobs
<1> QED BY <1>2, <1>6, <1>7 DEF Same

\* What the completed artifact leaves alone.
LEMMA UpdateArt ==
    ASSUME TypeOK, NEW p \in Procs, pc[p] # "idle",
           NEW a \in MaybeArtifact, NEW c \in MaybeArtifact,
           job' = [job EXCEPT ![p].art = a, ![p].oldCaddy = c]
    PROVE  /\ Same(p) /\ job'[p].route = job[p].route /\ job'[p].snap = job[p].snap
           /\ job'[p].cSnap = job[p].cSnap /\ job'[p].iSnap = job[p].iSnap
           /\ job'[p].todo = job[p].todo /\ job'[p].result = job[p].result
           /\ job'[p].art = a /\ job'[p].oldCaddy = c
<1>1. job[p] \in Jobs /\ job \in [Procs -> Jobs \cup {Nil}] BY Busy
<1>2. PICK j \in Jobs : j = job[p] BY <1>1
<1>3. PICK k : k = [j EXCEPT !.art = a, !.oldCaddy = c] OBVIOUS
<1>4. k \in Jobs BY <1>2, <1>3 DEF Jobs, TodoSets
<1>5. job' = [job EXCEPT ![p] = k] BY <1>1, <1>2, <1>3
<1>6. job'[p] = k /\ JobTyped(p) BY <1>1, <1>4, <1>5, NilJob DEF JobTyped
<1>7. k.kind = j.kind /\ k.slot = j.slot /\ k.target = j.target
          /\ k.needsCaddy = j.needsCaddy /\ k.before = j.before
          /\ k.route = j.route /\ k.snap = j.snap /\ k.cSnap = j.cSnap
          /\ k.iSnap = j.iSnap /\ k.todo = j.todo /\ k.result = j.result
          /\ k.art = a /\ k.oldCaddy = c
      BY <1>2, <1>3 DEF Jobs
<1> QED BY <1>2, <1>6, <1>7 DEF Same

\* What the snapshots of applyCaddy leave alone.
LEMMA UpdateSnaps ==
    ASSUME TypeOK, NEW p \in Procs, pc[p] # "idle",
           NEW c \in MaybeArtifact, NEW i \in BOOLEAN,
           job' = [job EXCEPT ![p].cSnap = c, ![p].iSnap = i]
    PROVE  /\ Same(p) /\ job'[p].art = job[p].art /\ job'[p].route = job[p].route
           /\ job'[p].snap = job[p].snap
           /\ job'[p].oldCaddy = job[p].oldCaddy
           /\ job'[p].todo = job[p].todo /\ job'[p].result = job[p].result
           /\ job'[p].cSnap = c /\ job'[p].iSnap = i
<1>1. job[p] \in Jobs /\ job \in [Procs -> Jobs \cup {Nil}] BY Busy
<1>2. PICK j \in Jobs : j = job[p] BY <1>1
<1>3. PICK k : k = [j EXCEPT !.cSnap = c, !.iSnap = i] OBVIOUS
<1>4. k \in Jobs BY <1>2, <1>3 DEF Jobs, TodoSets
<1>5. job' = [job EXCEPT ![p] = k] BY <1>1, <1>2, <1>3
<1>6. job'[p] = k /\ JobTyped(p) BY <1>1, <1>4, <1>5, NilJob DEF JobTyped
<1>7. k.kind = j.kind /\ k.slot = j.slot /\ k.target = j.target
          /\ k.needsCaddy = j.needsCaddy /\ k.before = j.before
          /\ k.art = j.art /\ k.route = j.route /\ k.snap = j.snap
          /\ k.oldCaddy = j.oldCaddy /\ k.todo = j.todo
          /\ k.result = j.result /\ k.cSnap = c /\ k.iSnap = i
      BY <1>2, <1>3 DEF Jobs
<1> QED BY <1>2, <1>6, <1>7 DEF Same

-----------------------------------------------------------------------------
(* The operators of the model.                                               *)

\* The steps of an error path and of a deletion, as sets.
LEMMA Orders ==
    /\ Elements(UndoOrder) = {"compose", "previous", "previousRoute", "snippet", "import",
                              "route", "up", "down", "reload"}
    /\ Removals = {"base", "previous", "snippet", "previousRoute", "slots"}
    /\ Removals = Elements(RemovalOrder)
<1>1. DOMAIN UndoOrder = 1..9 /\ DOMAIN RemovalOrder = 1..5 BY DEF UndoOrder, RemovalOrder
<1>2. Elements(UndoOrder) = {"compose", "previous", "previousRoute", "snippet", "import",
                             "route", "up", "down", "reload"}
      BY <1>1 DEF Elements, UndoOrder
<1>3. Elements(RemovalOrder) = {"base", "previous", "snippet", "previousRoute", "slots"}
      BY <1>1 DEF Elements, RemovalOrder
<1> QED BY <1>2, <1>3 DEF Removals

\* The next step is one of those left, and comes after those it depends on.
LEMMA NextToUndo ==
    ASSUME NEW todo, NEW step, Comes(step, todo, UndoOrder)
    PROVE  /\ step \in todo
           /\ step = "up" => "compose" \notin todo
           /\ step = "reload" => {"snippet", "import", "route"} \cap todo = {}
<1>1. PICK i \in 1..9 : /\ UndoOrder[i] = step /\ step \in todo
                        /\ \A k \in 1..(i - 1) : UndoOrder[k] \notin todo
      BY DEF Comes, UndoOrder
<1>2. step = "up" => i = 7 BY <1>1 DEF UndoOrder
<1>3. step = "reload" => i = 4 BY <1>1 DEF UndoOrder
<1>4. step = "up" => UndoOrder[6] \notin todo BY <1>1, <1>2
<1>5. step = "reload" => UndoOrder[1] \notin todo /\ UndoOrder[2] \notin todo
                         /\ UndoOrder[3] \notin todo
      BY <1>1, <1>3
<1> QED BY <1>1, <1>4, <1>5 DEF UndoOrder

\* A deletion removes something that is left.
LEMMA NextToRemove ==
    ASSUME NEW todo, NEW step, Comes(step, todo, RemovalOrder)
    PROVE  step \in todo
    BY DEF Comes

\* A failed step or a refused command leaves the budget within its bounds.
LEMMA BudgetKept ==
    ASSUME TypeOK, NEW p \in Procs, NEW refused,
           WriteFails \/ WriteDone \/ Runs(p) \/ Breaks(p, refused)
    PROVE  budget' \in Budgets
<1>1. budget \in Budgets BY DEF TypeOK
<1>2. CASE UNCHANGED budget BY <1>1, <1>2
<1>3. CASE WriteFails
  <2>1. PICK b \in Budgets : b = budget BY <1>1
  <2>2. b.faults > 0 /\ budget' = [b EXCEPT !.faults = @ - 1] BY <1>3, <2>1 DEF WriteFails
  <2>3. MaxFaults \in Nat BY BoundsAssumption
  <2> QED BY <2>1, <2>2, <2>3 DEF Budgets
<1> QED BY <1>2, <1>3 DEF WriteDone, Runs, Breaks

-----------------------------------------------------------------------------
(* How a step goes on: to another step, or to the error path.                *)

Typed(p) == /\ job[p] \in Jobs /\ job \in [Procs -> Jobs \cup {Nil}]
            /\ pc \in [Procs -> Steps]
Reaches(p, l) == pc'[p] = l
Keeps(p) == Same(p) /\ Data(p)
Carries(p) == Keeps(p) /\ job'[p].todo = job[p].todo /\ job'[p].result = job[p].result
Errs(p, todo, r) ==
    /\ Keeps(p) /\ job'[p].todo = todo /\ job'[p].result = r
    /\ Reaches(p, IF todo = {} THEN "done" ELSE "undo")

\* What the invariant says of an operation.
LEMMA Working ==
    ASSUME LifecycleInv, NEW p \in Procs, pc[p] # "idle"
    PROVE  /\ TypeOK /\ Typed(p) /\ ShapeInv(p) /\ RemovedInv(p)
           /\ job[p].kind \in Changes => ChangeInv(p)
    BY Busy DEF LifecycleInv, OperationInv, Typed

\* The kinds of operation that have a step.
LEMMA KindOfStep ==
    ASSUME NEW p \in Procs, ShapeInv(p), Typed(p)
    PROVE  /\ pc[p] \in {"preserve", "write"} => job[p].kind \in Replaces
           /\ pc[p] \in {"ports", "finalize"} => job[p].kind = "bluegreen"
           /\ pc[p] \in {"config", "up", "put"} => job[p].kind \in Changes
           /\ pc[p] = "drain" => job[p].kind \in {"bluegreen", "switchback"}
           /\ pc[p] \in Switch \cup {"undo"} => job[p].kind \in Changes \cup {"delete"}
           /\ pc[p] \in {"down", "remove", "forget"} => job[p].kind = "delete"
           /\ pc[p] \in {"command", "record"} => job[p].kind \in {"restart", "stop"}
    BY DEF ShapeInv, StepsOf, Typed, Jobs, Kinds, Changes, Replaces, Switch

\* Where an operation goes.
LEMMA Moves ==
    ASSUME NEW p \in Procs, Typed(p), NEW l \in Steps, Goto(p, l)
    PROVE  Reaches(p, l)
    BY DEF Typed, Goto, Reaches

\* A step that changes no local variable carries all of them on.
LEMMA Stays ==
    ASSUME NEW p \in Procs, Typed(p), UNCHANGED job
    PROVE  Carries(p)
<1>1. JobTyped(p) BY NilJob DEF JobTyped, Typed
<1> QED BY <1>1 DEF Typed, Carries, Keeps, Same, Data

\* A step that ends its operation keeps what it has read.
LEMMA Ends ==
    ASSUME TypeOK, NEW p \in Procs, Typed(p), pc[p] # "idle", NEW r \in Results, Finish(p, r)
    PROVE  /\ Keeps(p) /\ job'[p].todo = job[p].todo /\ job'[p].result = r
           /\ Reaches(p, "done")
<1>1. Goto(p, "done") /\ "done" \in Steps BY DEF Finish, Steps
<1>2. Reaches(p, "done") BY <1>1, Moves
<1> QED BY <1>2, UpdateResult DEF Finish, Keeps

\* A failure leads to the error path, or to the end when there is nothing to undo.
LEMMA FailureErrs ==
    ASSUME TypeOK, NEW p \in Procs, Typed(p), pc[p] # "idle",
           NEW todo \in TodoSets, NEW r \in Results, FailsAfter(p, todo, r)
    PROVE  Errs(p, todo, r)
<1>1. {"done", "undo"} \subseteq Steps BY DEF Steps
<1>2. Reaches(p, IF todo = {} THEN "done" ELSE "undo") BY <1>1, Moves DEF FailsAfter
<1> QED BY <1>2, UpdateError DEF FailsAfter, Errs, Keeps

\* An error path has known steps.
LEMMA CompensationTyped ==
    ASSUME NEW j, NEW at
    PROVE  Compensation(j, at) \in TodoSets
    BY Orders DEF Compensation, TodoSets

\* The same for the failure of a step of a deployment.
LEMMA CompensationErrs ==
    ASSUME TypeOK, NEW p \in Procs, Typed(p), pc[p] # "idle", NEW at, FailsAt(p, at)
    PROVE  Errs(p, Compensation(job[p], at), "failed")
    BY CompensationTyped, FailureErrs DEF FailsAt, Results

\* The same for the failure of a step of applyCaddy.
LEMMA CaddyFailureErrs ==
    ASSUME TypeOK, NEW p \in Procs, Typed(p), pc[p] # "idle",
           NEW restores \in SUBSET {"snippet", "import", "reload"}, CaddyFails(p, restores)
    PROVE  Errs(p, restores \cup Compensation(job[p], "caddy"), "failed")
<1>1. restores \cup Compensation(job[p], "caddy") \in TodoSets
      BY CompensationTyped, Orders DEF TodoSets
<1> QED BY <1>1, FailureErrs DEF CaddyFails, Results

-----------------------------------------------------------------------------
(* The error paths.                                                          *)

USE DEF Same, Data, Keeps, Carries, Reaches, Errs, Recorded, Erring, Past

Forward == {"preserve", "write", "config", "up", "ports", "finalize", "put"} \cup Switch

\* The error path has a step for all that the operation has changed, and none that
\* would put back what it did not save.
Covered(p, todo) ==
    LET k == job[p].kind
        t == job[p].target IN
    /\ k \in Replaces /\ pc[p] \notin {"preserve", "write"} => "compose" \in todo
    /\ k \notin Replaces \/ pc[p] = "preserve" => "compose" \notin todo
    /\ k = "rollback" /\ pc[p] # "preserve" => "previous" \in todo
    /\ k = "rollback" /\ pc[p] \in Switch => "previousRoute" \in todo
    /\ pc[p] \in {"cy_import", "cy_validate", "cy_reload"} <=> "snippet" \in todo
    /\ pc[p] = "put" <=> "route" \in todo
    /\ "import" \in todo => pc[p] \in {"cy_validate", "cy_reload"}
    /\ (live' = live /\ pc[p] # "put") \/ "reload" \in todo
    /\ "up" \in todo => Restarts(job[p])
    /\ "down" \in todo => ~Restarts(job[p])
    /\ \A s \in Slots \ {t} : docker'[s] = docker[s]
    /\ \/ docker' = docker /\ pc[p] \in {"preserve", "write", "config", "up"}
       \/ "up" \in todo \/ "down" \in todo

\* A step that fails, and an error path that covers it.
LEMMA Fails ==
    ASSUME NEW p \in Procs, Typed(p), ShapeInv(p), ChangeInv(p), job[p].kind \in Changes,
           pc[p] \in Forward, pc[p] = "put" => job[p].kind \in {"bluegreen", "switchback"},
           NEW todo \in TodoSets, Errs(p, todo, "failed"),
           Covered(p, todo), UNCHANGED <<fileVars, db>>
    PROVE  OperationInv(p)'
<1>1. ShapeInv(p)' BY DEF ShapeInv, StepsOf, Changes, Replaces, Switch
<1>2. PlanInv(p)' BY DEF ChangeInv, PlanInv
<1>3. RowInv(p)' BY DEF ChangeInv, RowInv, Forward, Switch
<1>4. ComposeInv(p)' BY DEF ChangeInv, ComposeInv, Forward, Covered, fileVars, Switch
<1>5. PreviousInv(p)' BY DEF ChangeInv, PreviousInv, Forward, Covered, fileVars, Switch
<1>6. PreviousRouteInv(p)'
      BY DEF ChangeInv, PreviousRouteInv, ShapeInv, StepsOf, Forward, Covered, fileVars, Switch
<1>7. SnippetInv(p)'
      BY DEF ChangeInv, SnippetInv, Forward, Covered, fileVars, Switch, BeforeSwitch
<1>8. ImportInv(p)' BY DEF ChangeInv, ImportInv, BeforeSwitch, Covered, fileVars
<1>9. LiveInv(p)' BY DEF ChangeInv, LiveInv, Forward, Covered, Switch, BeforeSwitch
<1>10. DockerInv(p)' BY DEF ChangeInv, DockerInv, Forward, Covered, Restarts, Switch
<1>11. RemovedInv(p)' BY DEF RemovedInv, Changes, Replaces
<1> QED BY <1>1, <1>2, <1>3, <1>4, <1>5, <1>6, <1>7, <1>8, <1>9, <1>10, <1>11
        DEF OperationInv, ChangeInv

-----------------------------------------------------------------------------
(* The steps of a deployment.                                                *)

\* Containers that start are those of the artifact, at a port that it publishes.
LEMMA DockerStarts ==
    ASSUME TypeOK, NEW s \in Slots, compose[s] \in Artifacts, DockerUp(s)
    PROVE  Shown(docker'[s], compose[s])
<1>1. PICK c \in Started(s, "up") : docker' = [docker EXCEPT ![s] = c] BY DEF DockerUp
<1>2. PICK port \in Publishable(s, compose[s].port) :
          c = [st |-> "up", m |-> compose[s].m, port |-> port, pub |-> compose[s].port]
      BY <1>1 DEF Started
<1>3. port \in IF compose[s].port = "dynamic" THEN DynPorts ELSE {compose[s].port}
      BY <1>2 DEF Publishable
<1>4. docker'[s] = c BY <1>1 DEF TypeOK
<1>5. port \in Ports BY <1>3 DEF Ports, Artifacts
<1>6. c \in Containers
  <2>1. compose[s].port \in Ports /\ compose[s].m \in Manifests BY DEF Artifacts
  <2> QED BY <1>2, <1>3, <1>5, <2>1 DEF Containers
<1> QED BY <1>2, <1>3, <1>4, <1>6, NilAssumption DEF Shown

\* The artifact of a slot with the port that Docker picked.
Final(p) == ComposeOf(job[p].art.m, job[p].route.port)
\* The artifact completed with its port is one.
LEMMA FinalArtifact ==
    ASSUME TypeOK, NEW p \in Procs, Typed(p), ChangeInv(p),
           pc[p] = "finalize", job[p].kind = "bluegreen"
    PROVE  /\ Final(p) \in MaybeArtifact /\ Final(p) # Nil
           /\ Final(p) = [m |-> job[p].art.m, port |-> docker[job[p].target].port]
           /\ docker[job[p].target].port \in DynPorts
           /\ docker[job[p].target].port # "dynamic"
<1> DEFINE port == docker[job[p].target].port
<1>1. port \in DynPorts /\ job[p].route = [m |-> job[p].art.m, port |-> port]
      BY DEF ChangeInv, DockerInv, Shown
<1>2. job[p].art \in Artifacts /\ job[p].art.m \in Routed
      BY DEF ChangeInv, PlanInv, Typed, Jobs, MaybeArtifact
<1>3. Final(p) = [m |-> job[p].art.m, port |-> port]
      BY <1>1, <1>2 DEF Final, ComposeOf
<1>4. Final(p) \in Artifacts BY <1>1, <1>2, <1>3 DEF Artifacts, Ports
<1>5. port # "dynamic" BY <1>1, PortsAssumption
<1> QED BY <1>1, <1>3, <1>4, <1>5, NilAssumption DEF MaybeArtifact

\* The route of a slot whose containers have a port.
LEMMA RouteTyped ==
    ASSUME TypeOK, NEW p \in Procs, Typed(p), ChangeInv(p), job[p].kind = "bluegreen",
           docker[job[p].target] # Nil
    PROVE  RouteOf(job[p].art.m, docker[job[p].target].port) \in MaybeArtifact
<1>1. docker[job[p].target] \in Containers BY DEF TypeOK, Typed, Jobs
<1>2. job[p].art \in Artifacts BY DEF ChangeInv, PlanInv, Typed, Jobs, MaybeArtifact
<1> QED BY <1>1, <1>2 DEF RouteOf, MaybeArtifact, Artifacts, Containers

\* persistPrevious saves the active artifact and takes the snapshot.
LEMMA PreserveStep ==
    ASSUME LifecycleInv, NEW p \in Procs, Preserve(p)
    PROVE  OperationInv(p)' /\ Same(p)
<1>1. /\ pc[p] = "preserve" /\ TypeOK /\ Typed(p)
      /\ job[p].kind \in Replaces /\ ShapeInv(p) /\ RemovedInv(p)
      /\ ChangeInv(p)
      BY Working, KindOfStep DEF Preserve, At, Changes, Replaces
<1>2. CASE /\ job[p].kind = "rollback" /\ prevCompose' = job[p].snap
          /\ Goto(p, "write") /\ UNCHANGED job
  <2>1. /\ Reaches(p, "write") /\ Carries(p) /\ job[p].kind = "rollback"
        /\ prevCompose' = job[p].snap
        /\ UNCHANGED <<compose, caddy, prevCaddy, imported, live,
                      docker, db, cancelled>>
        BY <1>1, <1>2, Moves, Stays DEF Preserve, Steps, worldVars, fileVars
  <2>2. ShapeInv(p)' BY <1>1, <2>1 DEF ShapeInv, StepsOf, Switch, Replaces
  <2>3. PlanInv(p)' BY <1>1, <2>1 DEF ChangeInv, PlanInv, Replaces
  <2>4. RowInv(p)' BY <1>1, <2>1 DEF ChangeInv, RowInv, Replaces
  <2>5. ComposeInv(p)'
        BY <1>1, <2>1 DEF ChangeInv, ComposeInv, Replaces, PlanInv
  <2>6. PreviousInv(p)'
        BY <1>1, <2>1 DEF ChangeInv, PreviousInv, Replaces, PlanInv
  <2>7. PreviousRouteInv(p)'
        BY <1>1, <2>1 DEF ChangeInv, PreviousRouteInv, Replaces
  <2>8. SnippetInv(p)'
        BY <1>1, <2>1 DEF ChangeInv, SnippetInv, BeforeSwitch, Switch,
           Replaces
  <2>9. ImportInv(p)'
        BY <1>1, <2>1 DEF ChangeInv, ImportInv, BeforeSwitch, Replaces
  <2>10. LiveInv(p)'
         BY <1>1, <2>1 DEF ChangeInv, LiveInv, BeforeSwitch, Switch, Replaces
  <2>11. DockerInv(p)'
         BY <1>1, <2>1 DEF ChangeInv, DockerInv, Shown, Restarts, Replaces
  <2>12. RemovedInv(p)' BY <1>1, <2>1 DEF RemovedInv, Replaces
  <2> QED
      BY <1>1, <2>1, <2>2, <2>3, <2>4, <2>5, <2>6, <2>7, <2>8, <2>9, <2>10,
         <2>11, <2>12 DEF OperationInv, ChangeInv
<1>3. CASE /\ job[p].kind # "rollback" /\ prevCompose' = compose[job[p].slot]
          /\ job' = [job EXCEPT ![p].snap = compose[job[p].target]]
          /\ Goto(p, "write")
  <2>1. compose[job[p].target] \in MaybeArtifact
        BY <1>1, <1>3 DEF TypeOK, Typed, Jobs, MaybeArtifact
  <2>2. /\ Same(p) /\ job'[p].art = job[p].art
        /\ job'[p].route = job[p].route
        /\ job'[p].oldCaddy = job[p].oldCaddy
        /\ job'[p].cSnap = job[p].cSnap /\ job'[p].iSnap = job[p].iSnap
        /\ job'[p].todo = job[p].todo /\ job'[p].result = job[p].result
        /\ job'[p].snap = compose[job[p].target]
        BY <1>1, <2>1, <1>3, UpdateSnap
  <2>3. /\ Reaches(p, "write") /\ job[p].kind # "rollback"
        /\ UNCHANGED <<compose, caddy, prevCaddy, imported, live,
                      docker, db, cancelled>>
        BY <1>1, <2>1, <2>2, <1>3, Moves DEF Preserve, Steps, TypeOK, Typed,
           Jobs, worldVars, fileVars
  <2>4. ShapeInv(p)'
        BY <1>1, <2>1, <2>2, <2>3 DEF ShapeInv, StepsOf, Switch, Replaces
  <2>5. PlanInv(p)' BY <1>1, <2>1, <2>2, <2>3 DEF ChangeInv, PlanInv, Replaces
  <2>6. RowInv(p)' BY <1>1, <2>1, <2>2, <2>3 DEF ChangeInv, RowInv, Replaces
  <2>7. ComposeInv(p)'
        BY <1>1, <2>1, <2>2, <2>3 DEF ChangeInv, ComposeInv, Replaces
  <2>8. PreviousInv(p)'
        BY <1>1, <2>1, <2>2, <2>3 DEF ChangeInv, PreviousInv, Replaces
  <2>9. PreviousRouteInv(p)'
        BY <1>1, <2>1, <2>2, <2>3 DEF ChangeInv, PreviousRouteInv, Replaces
  <2>10. SnippetInv(p)'
         BY <1>1, <2>1, <2>2, <2>3 DEF ChangeInv, SnippetInv, BeforeSwitch,
            Switch, Replaces
  <2>11. ImportInv(p)'
         BY <1>1, <2>1, <2>2, <2>3 DEF ChangeInv, ImportInv, BeforeSwitch,
            Replaces
  <2>12. LiveInv(p)'
         BY <1>1, <2>1, <2>2, <2>3 DEF ChangeInv, LiveInv, BeforeSwitch,
            Switch, Replaces
  <2>13. DockerInv(p)'
         BY <1>1, <2>1, <2>2, <2>3 DEF ChangeInv, DockerInv, Shown, Restarts,
            Replaces
  <2>14. RemovedInv(p)' BY <1>1, <2>1, <2>2, <2>3 DEF RemovedInv, Replaces
  <2> QED
      BY <1>1, <2>2, <2>4, <2>5, <2>6, <2>7, <2>8, <2>9, <2>10, <2>11, <2>12,
         <2>13, <2>14 DEF OperationInv, ChangeInv
<1>4. CASE WriteFails /\ FailsAt(p, "preserve") /\ UNCHANGED prevCompose
  <2>1. /\ Errs(p, Compensation(job[p], "preserve"), "failed")
        /\ UNCHANGED <<compose, prevCompose, caddy, prevCaddy, imported,
                      live, docker, db, cancelled>>
        BY <1>1, <1>4, CompensationErrs DEF Preserve, worldVars, fileVars
  <2>2. Compensation(job[p], "preserve") \in TodoSets
        BY <1>1, <2>1, CompensationTyped, Orders DEF TodoSets
  <2>3. Compensation(job[p], "preserve") = {}
        BY <1>1, <2>1, <2>2 DEF Compensation, Replaces, Changes
  <2>4. Covered(p, Compensation(job[p], "preserve"))
        BY <1>1, <2>1, <2>2, <2>3 DEF Covered, Restarts, Replaces, Changes,
           Switch, ShapeInv, StepsOf
  <2>5. OperationInv(p)'
        BY <1>1, <2>1, <2>2, <2>3, <2>4, Fails DEF Forward, Switch, Changes,
           Replaces, fileVars
  <2> QED BY <2>5, <2>1
<1> QED BY <1>2, <1>3, <1>4 DEF Preserve

\* The target gets the artifact, or keeps its own and is compensated.
LEMMA WriteComposeStep ==
    ASSUME LifecycleInv, NEW p \in Procs, WriteCompose(p)
    PROVE  OperationInv(p)' /\ Same(p)
<1>1. /\ pc[p] = "write" /\ TypeOK /\ Typed(p) /\ job[p].kind \in Replaces
      /\ ShapeInv(p) /\ RemovedInv(p) /\ ChangeInv(p)
      BY Working, KindOfStep DEF WriteCompose, At, Changes, Replaces
<1>2. CASE /\ compose' = [compose EXCEPT ![job[p].target] = job[p].art]
          /\ Goto(p, "config") /\ UNCHANGED job
  <2>1. /\ Reaches(p, "config") /\ Carries(p)
        /\ compose'[job[p].target] = job[p].art
        /\ \A s \in Slots \ {job[p].target} : compose'[s] = compose[s]
        /\ UNCHANGED <<prevCompose, caddy, prevCaddy, imported, live,
                      docker, db, cancelled>>
        BY <1>1, <1>2, Moves, Stays DEF WriteCompose, Steps, worldVars,
           fileVars, TypeOK, Typed, Jobs
  <2>2. ShapeInv(p)' BY <1>1, <2>1 DEF ShapeInv, StepsOf, Switch, Replaces
  <2>3. PlanInv(p)' BY <1>1, <2>1 DEF ChangeInv, PlanInv, Replaces
  <2>4. RowInv(p)' BY <1>1, <2>1 DEF ChangeInv, RowInv, Replaces
  <2>5. ComposeInv(p)' BY <1>1, <2>1 DEF ChangeInv, ComposeInv, Replaces
  <2>6. PreviousInv(p)' BY <1>1, <2>1 DEF ChangeInv, PreviousInv, Replaces
  <2>7. PreviousRouteInv(p)'
        BY <1>1, <2>1 DEF ChangeInv, PreviousRouteInv, Replaces
  <2>8. SnippetInv(p)'
        BY <1>1, <2>1 DEF ChangeInv, SnippetInv, BeforeSwitch, Switch,
           Replaces
  <2>9. ImportInv(p)'
        BY <1>1, <2>1 DEF ChangeInv, ImportInv, BeforeSwitch, Replaces
  <2>10. LiveInv(p)'
         BY <1>1, <2>1 DEF ChangeInv, LiveInv, BeforeSwitch, Switch, Replaces
  <2>11. DockerInv(p)'
         BY <1>1, <2>1 DEF ChangeInv, DockerInv, Shown, Restarts, Replaces
  <2>12. RemovedInv(p)' BY <1>1, <2>1 DEF RemovedInv, Replaces
  <2> QED
      BY <1>1, <2>1, <2>2, <2>3, <2>4, <2>5, <2>6, <2>7, <2>8, <2>9, <2>10,
         <2>11, <2>12 DEF OperationInv, ChangeInv
<1>3. CASE WriteFails /\ FailsAt(p, "write") /\ UNCHANGED compose
  <2>1. /\ Errs(p, Compensation(job[p], "write"), "failed")
        /\ UNCHANGED <<compose, prevCompose, caddy, prevCaddy, imported,
                      live, docker, db, cancelled>>
        BY <1>1, <1>3, CompensationErrs DEF WriteCompose, worldVars, fileVars
  <2>2. Compensation(job[p], "write") \in TodoSets
        BY <1>1, <2>1, CompensationTyped, Orders DEF TodoSets
  <2>3. Compensation(job[p], "write") = IF job[p].kind = "rollback" THEN {"previous"} ELSE {}
        BY <1>1, <2>1, <2>2 DEF Compensation, Replaces, Changes
  <2>4. Covered(p, Compensation(job[p], "write"))
        BY <1>1, <2>1, <2>2, <2>3 DEF Covered, Restarts, Replaces, Changes,
           Switch, ShapeInv, StepsOf
  <2>5. OperationInv(p)'
        BY <1>1, <2>1, <2>2, <2>3, <2>4, Fails DEF Forward, Switch, Changes,
           Replaces, fileVars
  <2> QED BY <2>5, <2>1
<1> QED BY <1>2, <1>3 DEF WriteCompose

\* Validation changes nothing.
LEMMA ValidateComposeStep ==
    ASSUME LifecycleInv, NEW p \in Procs, ValidateCompose(p)
    PROVE  OperationInv(p)' /\ Same(p)
<1>1. /\ pc[p] = "config" /\ TypeOK /\ Typed(p) /\ job[p].kind \in Changes
      /\ ShapeInv(p) /\ RemovedInv(p) /\ ChangeInv(p)
      BY Working, KindOfStep DEF ValidateCompose, At, Changes, Replaces
<1>2. CASE Goto(p, "up") /\ UNCHANGED job
  <2>1. /\ Reaches(p, "up") /\ Carries(p)
        /\ UNCHANGED <<compose, prevCompose, caddy, prevCaddy, imported,
                      live, docker, db, cancelled>>
        BY <1>1, <1>2, Moves, Stays DEF ValidateCompose, Steps, worldVars,
           fileVars
  <2>2. ShapeInv(p)'
        BY <1>1, <2>1 DEF ShapeInv, StepsOf, Switch, Changes, Replaces
  <2>3. PlanInv(p)' BY <1>1, <2>1 DEF ChangeInv, PlanInv, Changes, Replaces
  <2>4. RowInv(p)' BY <1>1, <2>1 DEF ChangeInv, RowInv, Changes, Replaces
  <2>5. ComposeInv(p)'
        BY <1>1, <2>1 DEF ChangeInv, ComposeInv, Replaces, Changes
  <2>6. PreviousInv(p)'
        BY <1>1, <2>1 DEF ChangeInv, PreviousInv, Changes, Replaces
  <2>7. PreviousRouteInv(p)'
        BY <1>1, <2>1 DEF ChangeInv, PreviousRouteInv, Changes, Replaces
  <2>8. SnippetInv(p)'
        BY <1>1, <2>1 DEF ChangeInv, SnippetInv, BeforeSwitch, Switch,
           Changes, Replaces
  <2>9. ImportInv(p)'
        BY <1>1, <2>1 DEF ChangeInv, ImportInv, BeforeSwitch, Changes,
           Replaces
  <2>10. LiveInv(p)'
         BY <1>1, <2>1 DEF ChangeInv, LiveInv, BeforeSwitch, Switch, Changes,
            Replaces
  <2>11. DockerInv(p)'
         BY <1>1, <2>1 DEF ChangeInv, DockerInv, Shown, Restarts, Replaces,
            Changes
  <2>12. RemovedInv(p)' BY <1>1, <2>1 DEF RemovedInv, Changes, Replaces
  <2> QED
      BY <1>1, <2>1, <2>2, <2>3, <2>4, <2>5, <2>6, <2>7, <2>8, <2>9, <2>10,
         <2>11, <2>12 DEF OperationInv, ChangeInv
<1>3. CASE FailsAt(p, "config")
  <2>1. /\ Errs(p, Compensation(job[p], "config"), "failed")
        /\ UNCHANGED <<compose, prevCompose, caddy, prevCaddy, imported,
                      live, docker, db, cancelled>>
        BY <1>1, <1>3, CompensationErrs, ZenonT(40) DEF ValidateCompose, worldVars,
           fileVars
  <2>2. Compensation(job[p], "config") \in TodoSets
        BY <1>1, <2>1, CompensationTyped, Orders DEF TodoSets
  <2>3. /\ (job[p].kind = "inplace" => Compensation(job[p], "config") = {"compose"})
        /\ (job[p].kind = "bluegreen" => Compensation(job[p], "config") = {"down", "compose"})
        /\ (job[p].kind = "rollback" => Compensation(job[p], "config") = {"compose", "previous"})
        /\ (job[p].kind = "switchback" => Compensation(job[p], "config") = {})
        BY <1>1, <2>1, <2>2 DEF Compensation, Replaces, Changes
  <2>4. Covered(p, Compensation(job[p], "config"))
        BY <1>1, <2>1, <2>2, <2>3 DEF Covered, Restarts, Replaces, Changes,
           Switch, ShapeInv, StepsOf, ChangeInv, PlanInv
  <2>5. OperationInv(p)'
        BY <1>1, <2>1, <2>2, <2>3, <2>4, Fails DEF Forward, Switch, Changes,
           Replaces, fileVars
  <2> QED BY <2>5, <2>1
<1> QED BY <1>2, <1>3 DEF ValidateCompose

\* The target shows the new artifact, or the error path takes it back.
LEMMA UpContainersStep ==
    ASSUME LifecycleInv, NEW p \in Procs, UpContainers(p)
    PROVE  OperationInv(p)' /\ Same(p)
<1>1. /\ pc[p] = "up" /\ TypeOK /\ Typed(p) /\ job[p].kind \in Changes
      /\ ShapeInv(p) /\ RemovedInv(p) /\ ChangeInv(p)
      BY Working, KindOfStep DEF UpContainers, At, Changes, Replaces
<1>2. CASE /\ ~UpRefused(job[p].target) /\ DockerUp(job[p].target) /\ UNCHANGED job
          /\ Goto(p, IF job[p].kind = "bluegreen" THEN "ports" ELSE AfterUp(p))
  <2>1. /\ Carries(p)
        /\ Reaches(p, IF job[p].kind = "bluegreen" THEN "ports" ELSE AfterUp(p))
        /\ \A s \in Slots \ {job[p].target} : docker'[s] = docker[s]
        /\ UNCHANGED <<compose, prevCompose, caddy, prevCaddy, imported,
                      live, db, cancelled>>
        BY <1>1, <1>2, Moves, Stays DEF UpContainers, Steps, worldVars,
           fileVars, AfterUp, DockerUp, TypeOK, Typed, Jobs
  <2>2. compose[job[p].target] = job[p].art
        BY <1>1, <2>1 DEF ChangeInv, PlanInv, ComposeInv, Replaces, Changes
  <2>3. Shown(docker'[job[p].target], job[p].art)
        BY <1>1, <2>1, <2>2, <1>2, DockerStarts DEF UpRefused, TypeOK, Typed,
           Jobs, MaybeArtifact
  <2>4. ShapeInv(p)'
        BY <1>1, <2>1, <2>2, <2>3 DEF ShapeInv, StepsOf, Switch, Changes,
           Replaces, AfterUp
  <2>5. PlanInv(p)'
        BY <1>1, <2>1, <2>2, <2>3 DEF ChangeInv, PlanInv, Changes, Replaces,
           AfterUp
  <2>6. RowInv(p)'
        BY <1>1, <2>1, <2>2, <2>3 DEF ChangeInv, RowInv, Changes, Replaces,
           AfterUp
  <2>7. ComposeInv(p)'
        BY <1>1, <2>1, <2>2, <2>3 DEF ChangeInv, ComposeInv, Replaces,
           Changes, AfterUp
  <2>8. PreviousInv(p)'
        BY <1>1, <2>1, <2>2, <2>3 DEF ChangeInv, PreviousInv, Changes,
           Replaces, AfterUp
  <2>9. PreviousRouteInv(p)'
        BY <1>1, <2>1, <2>2, <2>3 DEF ChangeInv, PreviousRouteInv, Changes,
           Replaces, AfterUp
  <2>10. SnippetInv(p)'
         BY <1>1, <2>1, <2>2, <2>3 DEF ChangeInv, SnippetInv, BeforeSwitch,
            Switch, Changes, Replaces, AfterUp, PlanInv
  <2>11. ImportInv(p)'
         BY <1>1, <2>1, <2>2, <2>3 DEF ChangeInv, ImportInv, BeforeSwitch,
            Changes, Replaces, AfterUp
  <2>12. LiveInv(p)'
         BY <1>1, <2>1, <2>2, <2>3 DEF ChangeInv, LiveInv, BeforeSwitch,
            Switch, Changes, Replaces, AfterUp
  <2>13. DockerInv(p)'
         BY <1>1, <2>1, <2>2, <2>3 DEF ChangeInv, DockerInv, Shown, Restarts,
            Replaces, Changes, AfterUp
  <2>14. RemovedInv(p)'
         BY <1>1, <2>1, <2>2, <2>3 DEF RemovedInv, Changes, Replaces, AfterUp
  <2> QED
      BY <1>1, <2>1, <2>4, <2>5, <2>6, <2>7, <2>8, <2>9, <2>10, <2>11, <2>12,
         <2>13, <2>14 DEF OperationInv, ChangeInv
<1>3. CASE DockerUpFails(job[p].target) /\ FailsAt(p, "up")
  <2>1. /\ Errs(p, Compensation(job[p], "up"), "failed")
        /\ UNCHANGED <<compose, prevCompose, caddy, prevCaddy, imported,
                      live, db, cancelled>>
        /\ \A s \in Slots \ {job[p].target} : docker'[s] = docker[s]
        BY <1>1, <1>3, CompensationErrs DEF UpContainers, worldVars,
           fileVars, DockerUpFails, TypeOK, Typed, Jobs
  <2>2. Compensation(job[p], "up") \in TodoSets
        BY <1>1, <2>1, CompensationTyped, Orders DEF TodoSets
  <2>3. /\ (job[p].kind = "inplace" =>
               Compensation(job[p], "up") = IF job[p].snap # Nil THEN {"compose", "up"}
                   ELSE {"down", "compose"})
        /\ (job[p].kind = "bluegreen" => Compensation(job[p], "up") = {"down", "compose"})
        /\ (job[p].kind = "rollback" => Compensation(job[p], "up") = {"compose", "up", "previous"})
        /\ (job[p].kind = "switchback" => Compensation(job[p], "up") = {"down"})
        BY <1>1, <2>1, <2>2 DEF Compensation, Replaces, Changes
  <2>4. Covered(p, Compensation(job[p], "up"))
        BY <1>1, <2>1, <2>2, <2>3 DEF Covered, Restarts, Replaces, Changes,
           Switch, ShapeInv, StepsOf, ChangeInv, ComposeInv
  <2>5. OperationInv(p)'
        BY <1>1, <2>1, <2>2, <2>3, <2>4, Fails DEF Forward, Switch, Changes,
           Replaces, fileVars
  <2> QED BY <2>5, <2>1
<1> QED BY <1>2, <1>3 DEF UpContainers

\* The route gets the port the containers have.
LEMMA ResolvePortsStep ==
    ASSUME LifecycleInv, NEW p \in Procs, ResolvePorts(p)
    PROVE  OperationInv(p)' /\ Same(p)
<1>1. /\ pc[p] = "ports" /\ TypeOK /\ Typed(p) /\ job[p].kind = "bluegreen"
      /\ ShapeInv(p) /\ RemovedInv(p) /\ ChangeInv(p)
      BY Working, KindOfStep DEF ResolvePorts, At, Changes, Replaces
<1>2. CASE /\ docker[job[p].target] # Nil /\ Goto(p, "finalize")
          /\ job' = [job EXCEPT ![p].route = RouteOf(job[p].art.m, docker[job[p].target].port)]
  <2>1. RouteOf(job[p].art.m, docker[job[p].target].port) \in MaybeArtifact
        BY <1>1, <1>2, RouteTyped DEF TypeOK, Typed, Jobs, MaybeArtifact
  <2>2. /\ Same(p) /\ job'[p].art = job[p].art
        /\ job'[p].snap = job[p].snap /\ job'[p].oldCaddy = job[p].oldCaddy
        /\ job'[p].cSnap = job[p].cSnap /\ job'[p].iSnap = job[p].iSnap
        /\ job'[p].todo = job[p].todo /\ job'[p].result = job[p].result
        /\ job'[p].route = RouteOf(job[p].art.m, docker[job[p].target].port)
        BY <1>1, <2>1, <1>2, UpdateRoute
  <2>3. /\ Reaches(p, "finalize")
        /\ UNCHANGED <<compose, prevCompose, caddy, prevCaddy, imported,
                      live, docker, db, cancelled>>
        BY <1>1, <2>1, <2>2, <1>2, Moves DEF ResolvePorts, Steps, TypeOK,
           Typed, Jobs, worldVars, fileVars
  <2>4. ShapeInv(p)'
        BY <1>1, <2>1, <2>2, <2>3 DEF ShapeInv, StepsOf, Switch, Replaces
  <2>5. PlanInv(p)' BY <1>1, <2>1, <2>2, <2>3 DEF ChangeInv, PlanInv, Replaces
  <2>6. RowInv(p)' BY <1>1, <2>1, <2>2, <2>3 DEF ChangeInv, RowInv, Replaces
  <2>7. ComposeInv(p)'
        BY <1>1, <2>1, <2>2, <2>3 DEF ChangeInv, ComposeInv, Replaces
  <2>8. PreviousInv(p)'
        BY <1>1, <2>1, <2>2, <2>3 DEF ChangeInv, PreviousInv, Replaces
  <2>9. PreviousRouteInv(p)'
        BY <1>1, <2>1, <2>2, <2>3 DEF ChangeInv, PreviousRouteInv, Replaces
  <2>10. SnippetInv(p)'
         BY <1>1, <2>1, <2>2, <2>3 DEF ChangeInv, SnippetInv, BeforeSwitch,
            Switch, Replaces
  <2>11. ImportInv(p)'
         BY <1>1, <2>1, <2>2, <2>3 DEF ChangeInv, ImportInv, BeforeSwitch,
            Replaces
  <2>12. LiveInv(p)'
         BY <1>1, <2>1, <2>2, <2>3 DEF ChangeInv, LiveInv, BeforeSwitch,
            Switch, Replaces
  <2>13. DockerInv(p)'
         BY <1>1, <2>1, <2>2, <2>3 DEF ChangeInv, DockerInv, Shown, Restarts,
            Replaces, PlanInv, RouteOf
  <2>14. RemovedInv(p)' BY <1>1, <2>1, <2>2, <2>3 DEF RemovedInv, Replaces
  <2> QED
      BY <1>1, <2>2, <2>4, <2>5, <2>6, <2>7, <2>8, <2>9, <2>10, <2>11, <2>12,
         <2>13, <2>14 DEF OperationInv, ChangeInv
<1>3. CASE FailsAt(p, "ports")
  <2>1. /\ Errs(p, Compensation(job[p], "ports"), "failed")
        /\ UNCHANGED <<compose, prevCompose, caddy, prevCaddy, imported,
                      live, docker, db, cancelled>>
        BY <1>1, <1>3, CompensationErrs DEF ResolvePorts, worldVars, fileVars
  <2>2. Compensation(job[p], "ports") \in TodoSets
        BY <1>1, <2>1, CompensationTyped, Orders DEF TodoSets
  <2>3. Compensation(job[p], "ports") = {"down", "compose"}
        BY <1>1, <2>1, <2>2 DEF Compensation, Replaces, Changes
  <2>4. Covered(p, Compensation(job[p], "ports"))
        BY <1>1, <2>1, <2>2, <2>3 DEF Covered, Restarts, Replaces, Changes,
           Switch, ShapeInv, StepsOf
  <2>5. OperationInv(p)'
        BY <1>1, <2>1, <2>2, <2>3, <2>4, Fails DEF Forward, Switch, Changes,
           Replaces, fileVars
  <2> QED BY <2>5, <2>1
<1> QED BY <1>2, <1>3 DEF ResolvePorts

\* The artifact gets the port of the route.
LEMMA FinalizeStep ==
    ASSUME LifecycleInv, NEW p \in Procs, Finalize(p)
    PROVE  OperationInv(p)' /\ Same(p)
<1>1. /\ pc[p] = "finalize" /\ TypeOK /\ Typed(p)
      /\ job[p].kind = "bluegreen" /\ ShapeInv(p) /\ RemovedInv(p)
      /\ ChangeInv(p)
      BY Working, KindOfStep DEF Finalize, At, Changes, Replaces
<1>2. CASE /\ compose' = [compose EXCEPT ![job[p].target] = Final(p)]
          /\ job' = [job EXCEPT ![p].art = Final(p), ![p].oldCaddy = caddy]
          /\ Goto(p, "cy_preserve")
  <2>1. /\ Final(p) \in MaybeArtifact /\ Final(p) # Nil
        /\ Final(p) = [m |-> job[p].art.m, port |-> docker[job[p].target].port]
        /\ docker[job[p].target].port \in DynPorts
        /\ docker[job[p].target].port # "dynamic"
        BY <1>1, <1>2, FinalArtifact
  <2>2. caddy \in MaybeArtifact
        BY <1>1, <1>2, SMTT(30) DEF TypeOK, Typed, Jobs, MaybeArtifact
  <2>3. /\ Same(p) /\ job'[p].route = job[p].route
        /\ job'[p].snap = job[p].snap /\ job'[p].cSnap = job[p].cSnap
        /\ job'[p].iSnap = job[p].iSnap /\ job'[p].todo = job[p].todo
        /\ job'[p].result = job[p].result /\ job'[p].art = Final(p)
        /\ job'[p].oldCaddy = caddy
        BY <1>1, <2>1, <2>2, <1>2, UpdateArt, ZenonT(40)
  <2>4. /\ Reaches(p, "cy_preserve") /\ compose'[job[p].target] = Final(p)
        /\ \A s \in Slots \ {job[p].target} : compose'[s] = compose[s]
        /\ UNCHANGED <<prevCompose, caddy, prevCaddy, imported, live,
                      docker, db, cancelled>>
        BY <1>1, <2>1, <2>2, <2>3, <1>2, Moves DEF Finalize, Steps, TypeOK,
           Typed, Jobs, worldVars, fileVars
  <2>5. ShapeInv(p)'
        BY <1>1, <2>1, <2>2, <2>3, <2>4 DEF ShapeInv, StepsOf, Switch,
           Replaces, ChangeInv, PlanInv
  <2>6. PlanInv(p)'
        BY <1>1, <2>1, <2>2, <2>3, <2>4 DEF ChangeInv, PlanInv, Replaces
  <2>7. RowInv(p)'
        BY <1>1, <2>1, <2>2, <2>3, <2>4 DEF ChangeInv, RowInv, Replaces
  <2>8. ComposeInv(p)'
        BY <1>1, <2>1, <2>2, <2>3, <2>4 DEF ChangeInv, ComposeInv, Replaces
  <2>9. PreviousInv(p)'
        BY <1>1, <2>1, <2>2, <2>3, <2>4 DEF ChangeInv, PreviousInv, Replaces
  <2>10. PreviousRouteInv(p)'
         BY <1>1, <2>1, <2>2, <2>3, <2>4 DEF ChangeInv, PreviousRouteInv,
            Replaces
  <2>11. SnippetInv(p)'
         BY <1>1, <2>1, <2>2, <2>3, <2>4 DEF ChangeInv, SnippetInv,
            BeforeSwitch, Switch, Replaces
  <2>12. ImportInv(p)'
         BY <1>1, <2>1, <2>2, <2>3, <2>4 DEF ChangeInv, ImportInv,
            BeforeSwitch, Replaces
  <2>13. LiveInv(p)'
         BY <1>1, <2>1, <2>2, <2>3, <2>4 DEF ChangeInv, LiveInv,
            BeforeSwitch, Switch, Replaces
  <2>14. DockerInv(p)'
         BY <1>1, <2>1, <2>2, <2>3, <2>4 DEF ChangeInv, DockerInv, Shown,
            Restarts, Replaces
  <2>15. RemovedInv(p)'
         BY <1>1, <2>1, <2>2, <2>3, <2>4 DEF RemovedInv, Replaces
  <2> QED
      BY <1>1, <2>3, <2>5, <2>6, <2>7, <2>8, <2>9, <2>10, <2>11, <2>12,
         <2>13, <2>14, <2>15 DEF OperationInv, ChangeInv
<1>3. CASE FailsAt(p, "finalize") /\ UNCHANGED compose
  <2>1. /\ Errs(p, Compensation(job[p], "finalize"), "failed")
        /\ UNCHANGED <<compose, prevCompose, caddy, prevCaddy, imported,
                      live, docker, db, cancelled>>
        BY <1>1, <1>3, CompensationErrs DEF Finalize, worldVars, fileVars
  <2>2. Compensation(job[p], "finalize") \in TodoSets
        BY <1>1, <2>1, CompensationTyped, Orders DEF TodoSets
  <2>3. Compensation(job[p], "finalize") = {"down", "compose"}
        BY <1>1, <2>1, <2>2 DEF Compensation, Replaces, Changes
  <2>4. Covered(p, Compensation(job[p], "finalize"))
        BY <1>1, <2>1, <2>2, <2>3 DEF Covered, Restarts, Replaces, Changes,
           Switch, ShapeInv, StepsOf
  <2>5. OperationInv(p)'
        BY <1>1, <2>1, <2>2, <2>3, <2>4, Fails DEF Forward, Switch, Changes,
           Replaces, fileVars
  <2> QED BY <2>5, <2>1
<1> QED BY <1>2, <1>3 DEF Finalize, Final

-----------------------------------------------------------------------------
(* The steps of applyCaddy.                                                  *)

\* A deletion that fails promises nothing.
LEMMA DeletionFails ==
    ASSUME NEW p \in Procs, Typed(p), ShapeInv(p), job[p].kind = "delete",
           pc[p] \in Switch \cup {"undo", "down", "remove", "forget"},
           NEW todo, NEW r \in {"failed", "broken"}, Errs(p, todo, r)
    PROVE  OperationInv(p)'
<1>1. ShapeInv(p)' BY DEF ShapeInv, StepsOf, Switch
<1>2. RemovedInv(p)' BY DEF RemovedInv, Switch
<1> QED BY <1>1, <1>2 DEF OperationInv, Changes, Replaces

\* applyCaddy fails after it has restored what it wrote; then the caller compensates.
LEMMA CaddyFailureStep ==
    ASSUME LifecycleInv, NEW p \in Procs, pc[p] \in Switch,
           NEW restores \in SUBSET {"snippet", "import", "reload"}, CaddyFails(p, restores),
           "snippet" \in restores <=> pc[p] \in {"cy_import", "cy_validate", "cy_reload"},
           "import" \in restores => pc[p] \in {"cy_validate", "cy_reload"},
           live' = live \/ "reload" \in restores, UNCHANGED <<fileVars, docker, db>>
    PROVE  OperationInv(p)' /\ Same(p)
<1> DEFINE todo == restores \cup Compensation(job[p], "caddy")
<1>1. pc[p] # "idle" BY DEF Switch
<1>2. /\ TypeOK /\ Typed(p) /\ job[p].kind \in Changes \cup {"delete"} /\ ShapeInv(p)
      /\ RemovedInv(p) /\ (job[p].kind \in Changes => ChangeInv(p))
      BY <1>1, Working, KindOfStep
<1>3. Errs(p, todo, "failed") BY <1>1, <1>2, CaddyFailureErrs
<1>4. todo \in TodoSets BY CompensationTyped, Orders DEF TodoSets
<1>5. CASE job[p].kind \in Changes
  <2>1. Compensation(job[p], "caddy") =
            CASE job[p].kind = "inplace" -> IF job[p].snap # Nil THEN {"compose", "up"}
                                            ELSE {"down", "compose"}
              [] job[p].kind = "bluegreen" -> {"down", "compose"}
              [] job[p].kind = "rollback" -> {"compose", "up", "previous", "previousRoute"}
              [] job[p].kind = "switchback" -> {"down"}
        BY <1>5 DEF Compensation, Changes, Replaces
  <2>2. Covered(p, todo)
        BY <1>1, <1>2, <1>5, <2>1 DEF Covered, Restarts, Replaces, Changes, Switch, ChangeInv,
           ComposeInv
  <2> QED BY <1>2, <1>3, <1>4, <1>5, <2>2, Fails DEF Forward, Switch
<1>6. CASE job[p].kind = "delete" BY <1>2, <1>3, <1>6, DeletionFails
<1> QED BY <1>2, <1>5, <1>6

\* The snippet and the import are saved before either is written.
LEMMA CaddyPreserveStep ==
    ASSUME LifecycleInv, NEW p \in Procs, CaddyPreserve(p)
    PROVE  OperationInv(p)' /\ Same(p)
<1>1. /\ pc[p] = "cy_preserve" /\ TypeOK /\ Typed(p)
      /\ job[p].kind \in Changes \cup {"delete"} /\ ShapeInv(p)
      /\ RemovedInv(p) /\ (job[p].kind \in Changes => ChangeInv(p))
      BY Working, KindOfStep DEF CaddyPreserve, At, Switch
<1>2. CASE /\ prevCaddy' = caddy /\ Goto(p, "cy_write")
          /\ job' = [job EXCEPT ![p].cSnap = caddy, ![p].iSnap = imported]
  <2>1. caddy \in MaybeArtifact /\ imported \in BOOLEAN
        BY <1>1, <1>2 DEF TypeOK, Typed, Jobs, MaybeArtifact
  <2>2. /\ Same(p) /\ job'[p].art = job[p].art
        /\ job'[p].route = job[p].route /\ job'[p].snap = job[p].snap
        /\ job'[p].oldCaddy = job[p].oldCaddy /\ job'[p].todo = job[p].todo
        /\ job'[p].result = job[p].result /\ job'[p].cSnap = caddy
        /\ job'[p].iSnap = imported
        BY <1>1, <2>1, <1>2, UpdateSnaps
  <2>3. /\ Reaches(p, "cy_write") /\ prevCaddy' = caddy
        /\ UNCHANGED <<compose, prevCompose, caddy, imported, live,
                      docker, db, cancelled>>
        BY <1>1, <2>1, <2>2, <1>2, Moves DEF CaddyPreserve, Steps, TypeOK,
           Typed, Jobs, worldVars, fileVars
  <2>4. ShapeInv(p)'
        BY <1>1, <2>1, <2>2, <2>3 DEF ShapeInv, StepsOf, Switch, Changes,
           Replaces
  <2>5. job[p].kind \in Changes => PlanInv(p)'
        BY <1>1, <2>1, <2>2, <2>3 DEF ChangeInv, PlanInv, Changes, Replaces
  <2>6. job[p].kind \in Changes => RowInv(p)'
        BY <1>1, <2>1, <2>2, <2>3 DEF ChangeInv, RowInv, Changes, Replaces
  <2>7. job[p].kind \in Changes => ComposeInv(p)'
        BY <1>1, <2>1, <2>2, <2>3 DEF ChangeInv, ComposeInv, Replaces,
           Changes
  <2>8. job[p].kind \in Changes => PreviousInv(p)'
        BY <1>1, <2>1, <2>2, <2>3 DEF ChangeInv, PreviousInv, Changes,
           Replaces
  <2>9. job[p].kind \in Changes => PreviousRouteInv(p)'
        BY <1>1, <2>1, <2>2, <2>3 DEF ChangeInv, PreviousRouteInv, Changes,
           Replaces, SnippetInv, BeforeSwitch, ShapeInv, Switch
  <2>10. job[p].kind \in Changes => SnippetInv(p)'
         BY <1>1, <2>1, <2>2, <2>3 DEF ChangeInv, SnippetInv, BeforeSwitch,
            Switch, Changes, Replaces
  <2>11. job[p].kind \in Changes => ImportInv(p)'
         BY <1>1, <2>1, <2>2, <2>3 DEF ChangeInv, ImportInv, BeforeSwitch,
            Changes, Replaces
  <2>12. job[p].kind \in Changes => LiveInv(p)'
         BY <1>1, <2>1, <2>2, <2>3 DEF ChangeInv, LiveInv, BeforeSwitch,
            Switch, Changes, Replaces
  <2>13. job[p].kind \in Changes => DockerInv(p)'
         BY <1>1, <2>1, <2>2, <2>3 DEF ChangeInv, DockerInv, Shown, Restarts,
            Replaces, Changes
  <2>14. RemovedInv(p)'
         BY <1>1, <2>1, <2>2, <2>3, Orders DEF RemovedInv, Changes, Replaces,
            Switch
  <2> QED
      BY <1>1, <2>2, <2>4, <2>5, <2>6, <2>7, <2>8, <2>9, <2>10, <2>11, <2>12,
         <2>13, <2>14 DEF OperationInv, ChangeInv
<1>3. CASE CaddyFails(p, {}) /\ UNCHANGED prevCaddy
      BY <1>1, <1>3, CaddyFailureStep DEF CaddyPreserve, Switch, worldVars,
         fileVars
<1> QED BY <1>2, <1>3 DEF CaddyPreserve

\* The snippet is written, or nothing is.
LEMMA CaddyWriteStep ==
    ASSUME LifecycleInv, NEW p \in Procs, CaddyWrite(p)
    PROVE  OperationInv(p)' /\ Same(p)
<1>1. /\ pc[p] = "cy_write" /\ TypeOK /\ Typed(p)
      /\ job[p].kind \in Changes \cup {"delete"} /\ ShapeInv(p)
      /\ RemovedInv(p) /\ (job[p].kind \in Changes => ChangeInv(p))
      BY Working, KindOfStep DEF CaddyWrite, At, Switch
<1>2. CASE caddy' = job[p].route /\ Goto(p, "cy_import") /\ UNCHANGED job
  <2>1. /\ Reaches(p, "cy_import") /\ Carries(p) /\ caddy' = job[p].route
        /\ UNCHANGED <<compose, prevCompose, prevCaddy, imported, live,
                      docker, db, cancelled>>
        BY <1>1, <1>2, Moves, Stays DEF CaddyWrite, Steps, worldVars,
           fileVars
  <2>2. ShapeInv(p)'
        BY <1>1, <2>1 DEF ShapeInv, StepsOf, Switch, Changes, Replaces
  <2>3. job[p].kind \in Changes => PlanInv(p)'
        BY <1>1, <2>1 DEF ChangeInv, PlanInv, Changes, Replaces
  <2>4. job[p].kind \in Changes => RowInv(p)'
        BY <1>1, <2>1 DEF ChangeInv, RowInv, Changes, Replaces
  <2>5. job[p].kind \in Changes => ComposeInv(p)'
        BY <1>1, <2>1 DEF ChangeInv, ComposeInv, Replaces, Changes
  <2>6. job[p].kind \in Changes => PreviousInv(p)'
        BY <1>1, <2>1 DEF ChangeInv, PreviousInv, Changes, Replaces
  <2>7. job[p].kind \in Changes => PreviousRouteInv(p)'
        BY <1>1, <2>1 DEF ChangeInv, PreviousRouteInv, Changes, Replaces
  <2>8. job[p].kind \in Changes => SnippetInv(p)'
        BY <1>1, <2>1 DEF ChangeInv, SnippetInv, BeforeSwitch, Switch,
           Changes, Replaces
  <2>9. job[p].kind \in Changes => ImportInv(p)'
        BY <1>1, <2>1 DEF ChangeInv, ImportInv, BeforeSwitch, Changes,
           Replaces
  <2>10. job[p].kind \in Changes => LiveInv(p)'
         BY <1>1, <2>1 DEF ChangeInv, LiveInv, BeforeSwitch, Switch, Changes,
            Replaces
  <2>11. job[p].kind \in Changes => DockerInv(p)'
         BY <1>1, <2>1 DEF ChangeInv, DockerInv, Shown, Restarts, Replaces,
            Changes
  <2>12. RemovedInv(p)'
         BY <1>1, <2>1, Orders DEF RemovedInv, Changes, Replaces, Switch
  <2> QED
      BY <1>1, <2>1, <2>2, <2>3, <2>4, <2>5, <2>6, <2>7, <2>8, <2>9, <2>10,
         <2>11, <2>12 DEF OperationInv, ChangeInv
<1>3. CASE CaddyFails(p, {}) /\ UNCHANGED caddy
      BY <1>1, <1>3, CaddyFailureStep DEF CaddyWrite, Switch, worldVars,
         fileVars
<1> QED BY <1>2, <1>3 DEF CaddyWrite

\* The import is added; an error path restores the snippet.
LEMMA CaddyImportStep ==
    ASSUME LifecycleInv, NEW p \in Procs, CaddyImport(p)
    PROVE  OperationInv(p)' /\ Same(p)
<1>1. /\ pc[p] = "cy_import" /\ TypeOK /\ Typed(p)
      /\ job[p].kind \in Changes \cup {"delete"} /\ ShapeInv(p)
      /\ RemovedInv(p) /\ (job[p].kind \in Changes => ChangeInv(p))
      BY Working, KindOfStep DEF CaddyImport, At, Switch
<1>2. CASE imported' = TRUE /\ Goto(p, "cy_validate") /\ UNCHANGED job
  <2>1. /\ Reaches(p, "cy_validate") /\ Carries(p) /\ imported'
        /\ UNCHANGED <<compose, prevCompose, caddy, prevCaddy, live,
                      docker, db, cancelled>>
        BY <1>1, <1>2, Moves, Stays DEF CaddyImport, Steps, worldVars,
           fileVars
  <2>2. ShapeInv(p)'
        BY <1>1, <2>1 DEF ShapeInv, StepsOf, Switch, Changes, Replaces
  <2>3. job[p].kind \in Changes => PlanInv(p)'
        BY <1>1, <2>1 DEF ChangeInv, PlanInv, Changes, Replaces
  <2>4. job[p].kind \in Changes => RowInv(p)'
        BY <1>1, <2>1 DEF ChangeInv, RowInv, Changes, Replaces
  <2>5. job[p].kind \in Changes => ComposeInv(p)'
        BY <1>1, <2>1 DEF ChangeInv, ComposeInv, Replaces, Changes
  <2>6. job[p].kind \in Changes => PreviousInv(p)'
        BY <1>1, <2>1 DEF ChangeInv, PreviousInv, Changes, Replaces
  <2>7. job[p].kind \in Changes => PreviousRouteInv(p)'
        BY <1>1, <2>1 DEF ChangeInv, PreviousRouteInv, Changes, Replaces
  <2>8. job[p].kind \in Changes => SnippetInv(p)'
        BY <1>1, <2>1 DEF ChangeInv, SnippetInv, BeforeSwitch, Switch,
           Changes, Replaces
  <2>9. job[p].kind \in Changes => ImportInv(p)'
        BY <1>1, <2>1 DEF ChangeInv, ImportInv, BeforeSwitch, Changes,
           Replaces
  <2>10. job[p].kind \in Changes => LiveInv(p)'
         BY <1>1, <2>1 DEF ChangeInv, LiveInv, BeforeSwitch, Switch, Changes,
            Replaces
  <2>11. job[p].kind \in Changes => DockerInv(p)'
         BY <1>1, <2>1 DEF ChangeInv, DockerInv, Shown, Restarts, Replaces,
            Changes
  <2>12. RemovedInv(p)'
         BY <1>1, <2>1, Orders DEF RemovedInv, Changes, Replaces, Switch
  <2> QED
      BY <1>1, <2>1, <2>2, <2>3, <2>4, <2>5, <2>6, <2>7, <2>8, <2>9, <2>10,
         <2>11, <2>12 DEF OperationInv, ChangeInv
<1>3. CASE CaddyFails(p, {"snippet"}) /\ UNCHANGED imported
      BY <1>1, <1>3, CaddyFailureStep DEF CaddyImport, Switch, worldVars,
         fileVars
<1> QED BY <1>2, <1>3 DEF CaddyImport

\* Validation changes nothing; an error path restores the snippet and the import.
LEMMA CaddyValidateStep ==
    ASSUME LifecycleInv, NEW p \in Procs, CaddyValidate(p)
    PROVE  OperationInv(p)' /\ Same(p)
<1>1. /\ pc[p] = "cy_validate" /\ TypeOK /\ Typed(p)
      /\ job[p].kind \in Changes \cup {"delete"} /\ ShapeInv(p)
      /\ RemovedInv(p) /\ (job[p].kind \in Changes => ChangeInv(p))
      BY Working, KindOfStep DEF CaddyValidate, At, Switch
<1>2. CASE Goto(p, "cy_reload") /\ UNCHANGED job
  <2>1. /\ Reaches(p, "cy_reload") /\ Carries(p)
        /\ UNCHANGED <<compose, prevCompose, caddy, prevCaddy, imported,
                      live, docker, db, cancelled>>
        BY <1>1, <1>2, Moves, Stays DEF CaddyValidate, Steps, worldVars,
           fileVars
  <2>2. ShapeInv(p)'
        BY <1>1, <2>1 DEF ShapeInv, StepsOf, Switch, Changes, Replaces
  <2>3. job[p].kind \in Changes => PlanInv(p)'
        BY <1>1, <2>1 DEF ChangeInv, PlanInv, Changes, Replaces
  <2>4. job[p].kind \in Changes => RowInv(p)'
        BY <1>1, <2>1 DEF ChangeInv, RowInv, Changes, Replaces
  <2>5. job[p].kind \in Changes => ComposeInv(p)'
        BY <1>1, <2>1 DEF ChangeInv, ComposeInv, Replaces, Changes
  <2>6. job[p].kind \in Changes => PreviousInv(p)'
        BY <1>1, <2>1 DEF ChangeInv, PreviousInv, Changes, Replaces
  <2>7. job[p].kind \in Changes => PreviousRouteInv(p)'
        BY <1>1, <2>1 DEF ChangeInv, PreviousRouteInv, Changes, Replaces
  <2>8. job[p].kind \in Changes => SnippetInv(p)'
        BY <1>1, <2>1 DEF ChangeInv, SnippetInv, BeforeSwitch, Switch,
           Changes, Replaces
  <2>9. job[p].kind \in Changes => ImportInv(p)'
        BY <1>1, <2>1 DEF ChangeInv, ImportInv, BeforeSwitch, Changes,
           Replaces
  <2>10. job[p].kind \in Changes => LiveInv(p)'
         BY <1>1, <2>1 DEF ChangeInv, LiveInv, BeforeSwitch, Switch, Changes,
            Replaces
  <2>11. job[p].kind \in Changes => DockerInv(p)'
         BY <1>1, <2>1 DEF ChangeInv, DockerInv, Shown, Restarts, Replaces,
            Changes
  <2>12. RemovedInv(p)'
         BY <1>1, <2>1, Orders DEF RemovedInv, Changes, Replaces, Switch
  <2> QED
      BY <1>1, <2>1, <2>2, <2>3, <2>4, <2>5, <2>6, <2>7, <2>8, <2>9, <2>10,
         <2>11, <2>12 DEF OperationInv, ChangeInv
<1>3. CASE CaddyFails(p, {"snippet", "import"})
      BY <1>1, <1>3, CaddyFailureStep DEF CaddyValidate, Switch, worldVars,
         fileVars
<1> QED BY <1>2, <1>3 DEF CaddyValidate

\* The new route is live; an error path restores the files and reloads.
LEMMA CaddyReloadStep ==
    ASSUME LifecycleInv, NEW p \in Procs, CaddyReload(p)
    PROVE  OperationInv(p)' /\ Same(p)
<1>1. /\ pc[p] = "cy_reload" /\ TypeOK /\ Typed(p)
      /\ job[p].kind \in Changes \cup {"delete"} /\ ShapeInv(p)
      /\ RemovedInv(p) /\ (job[p].kind \in Changes => ChangeInv(p))
      BY Working, KindOfStep DEF CaddyReload, At, Switch
<1>2. CASE Reload /\ Goto(p, Switched(p)) /\ UNCHANGED job
  <2>1. /\ Carries(p) /\ Reaches(p, Switched(p))
        /\ live' = IF imported THEN caddy ELSE Nil
        /\ UNCHANGED <<compose, prevCompose, caddy, prevCaddy, imported,
                      docker, db, cancelled>>
        BY <1>1, <1>2, Moves, Stays DEF CaddyReload, Steps, worldVars,
           fileVars, Switched, Reload
  <2>2. ShapeInv(p)'
        BY <1>1, <2>1 DEF ShapeInv, StepsOf, Switch, Changes, Replaces,
           Switched
  <2>3. job[p].kind \in Changes => PlanInv(p)'
        BY <1>1, <2>1 DEF ChangeInv, PlanInv, Changes, Replaces, Switched
  <2>4. job[p].kind \in Changes => RowInv(p)'
        BY <1>1, <2>1 DEF ChangeInv, RowInv, Changes, Replaces, Switched
  <2>5. job[p].kind \in Changes => ComposeInv(p)'
        BY <1>1, <2>1 DEF ChangeInv, ComposeInv, Replaces, Changes, Switched
  <2>6. job[p].kind \in Changes => PreviousInv(p)'
        BY <1>1, <2>1 DEF ChangeInv, PreviousInv, Changes, Replaces, Switched
  <2>7. job[p].kind \in Changes => PreviousRouteInv(p)'
        BY <1>1, <2>1 DEF ChangeInv, PreviousRouteInv, Changes, Replaces,
           Switched
  <2>8. job[p].kind \in Changes => SnippetInv(p)'
        BY <1>1, <2>1 DEF ChangeInv, SnippetInv, BeforeSwitch, Switch,
           Changes, Replaces, Switched, ShapeInv
  <2>9. job[p].kind \in Changes => ImportInv(p)'
        BY <1>1, <2>1 DEF ChangeInv, ImportInv, BeforeSwitch, Changes,
           Replaces, Switched
  <2>10. job[p].kind \in Changes => LiveInv(p)'
         BY <1>1, <2>1 DEF ChangeInv, LiveInv, BeforeSwitch, Switch, Changes,
            Replaces, Switched, ImportInv, SnippetInv, ShapeInv
  <2>11. job[p].kind \in Changes => DockerInv(p)'
         BY <1>1, <2>1 DEF ChangeInv, DockerInv, Shown, Restarts, Replaces,
            Changes, Switched
  <2>12. RemovedInv(p)'
         BY <1>1, <2>1, Orders DEF RemovedInv, Changes, Replaces, Switch,
            Switched
  <2> QED
      BY <1>1, <2>1, <2>2, <2>3, <2>4, <2>5, <2>6, <2>7, <2>8, <2>9, <2>10,
         <2>11, <2>12 DEF OperationInv, ChangeInv
<1>3. CASE CaddyFails(p, {"snippet", "import", "reload"})
      BY <1>1, <1>3, CaddyFailureStep DEF CaddyReload, Switch, worldVars,
         fileVars
<1> QED BY <1>2, <1>3 DEF CaddyReload

-----------------------------------------------------------------------------
(* The steps that record a deployment and remove its predecessor.            *)

RowPut(p) == db' = [status |-> "running", slot |-> job[p].target,
                    revision |-> <<job[p].art, job[p].route>>]

\* The row names the target.
LEMMA RowRecorded ==
    ASSUME NEW p \in Procs, Typed(p), RowPut(p)
    PROVE  db' # Nil /\ db'.status = "running" /\ db'.slot = job[p].target
<1>1. [status |-> "running", slot |-> job[p].target,
       revision |-> <<job[p].art, job[p].route>>] \in Deployments
      BY DEF Typed, Jobs, Deployments
<1> QED BY <1>1, NilAssumption DEF RowPut

\* In place there is nothing to compensate when the row could not be written.
LEMMA Unrecorded ==
    ASSUME TypeOK, NEW p \in Procs, Typed(p), pc[p] # "idle", job[p].todo = {},
           job[p].kind \notin {"bluegreen", "switchback"},
           FailsAfter(p, Compensation(job[p], "put"), "unrecorded")
    PROVE  Errs(p, {}, "unrecorded")
<1>1. Compensation(job[p], "put") = {} BY DEF Compensation
<1>2. {} \in TodoSets BY DEF TodoSets
<1> QED BY <1>1, <1>2, FailureErrs, ZenonT(40) DEF Results

\* The row is recorded, or a blue-green switch is taken back.
LEMMA PutDeploymentStep ==
    ASSUME LifecycleInv, NEW p \in Procs, PutDeployment(p)
    PROVE  OperationInv(p)' /\ Same(p)
<1>1. /\ pc[p] = "put" /\ TypeOK /\ Typed(p) /\ job[p].kind \in Changes
      /\ ShapeInv(p) /\ RemovedInv(p) /\ ChangeInv(p)
      BY Working, KindOfStep DEF PutDeployment, At, Changes, Replaces
<1>2. CASE /\ job[p].kind \in {"bluegreen", "switchback"} /\ RowPut(p)
          /\ Goto(p, "drain") /\ UNCHANGED job
  <2>1. /\ Reaches(p, "drain") /\ Carries(p)
        /\ job[p].kind \in {"bluegreen", "switchback"} /\ db' # Nil
        /\ db'.status = "running" /\ db'.slot = job[p].target
        /\ UNCHANGED <<compose, prevCompose, caddy, prevCaddy, imported,
                      live, docker, cancelled>>
        BY <1>1, <1>2, Moves, Stays, RowRecorded DEF PutDeployment, Steps,
           worldVars, fileVars
  <2>2. ShapeInv(p)'
        BY <1>1, <2>1 DEF ShapeInv, StepsOf, Switch, Changes, Replaces
  <2>3. PlanInv(p)' BY <1>1, <2>1 DEF ChangeInv, PlanInv, Changes, Replaces
  <2>4. RowInv(p)' BY <1>1, <2>1 DEF ChangeInv, RowInv, Changes, Replaces
  <2>5. ComposeInv(p)'
        BY <1>1, <2>1 DEF ChangeInv, ComposeInv, Replaces, Changes
  <2>6. PreviousInv(p)'
        BY <1>1, <2>1 DEF ChangeInv, PreviousInv, Changes, Replaces
  <2>7. PreviousRouteInv(p)'
        BY <1>1, <2>1 DEF ChangeInv, PreviousRouteInv, Changes, Replaces
  <2>8. SnippetInv(p)'
        BY <1>1, <2>1 DEF ChangeInv, SnippetInv, BeforeSwitch, Switch,
           Changes, Replaces
  <2>9. ImportInv(p)'
        BY <1>1, <2>1 DEF ChangeInv, ImportInv, BeforeSwitch, Changes,
           Replaces
  <2>10. LiveInv(p)'
         BY <1>1, <2>1 DEF ChangeInv, LiveInv, BeforeSwitch, Switch, Changes,
            Replaces
  <2>11. DockerInv(p)'
         BY <1>1, <2>1 DEF ChangeInv, DockerInv, Shown, Restarts, Replaces,
            Changes
  <2>12. RemovedInv(p)' BY <1>1, <2>1 DEF RemovedInv, Changes, Replaces
  <2> QED
      BY <1>1, <2>1, <2>2, <2>3, <2>4, <2>5, <2>6, <2>7, <2>8, <2>9, <2>10,
         <2>11, <2>12 DEF OperationInv, ChangeInv
<1>3. CASE /\ job[p].kind \notin {"bluegreen", "switchback"} /\ RowPut(p)
          /\ Finish(p, "ok")
  <2>1. /\ Reaches(p, "done") /\ Keeps(p) /\ job'[p].todo = job[p].todo
        /\ job'[p].result = "ok"
        /\ job[p].kind \notin {"bluegreen", "switchback"} /\ db' # Nil
        /\ db'.status = "running" /\ db'.slot = job[p].target
        /\ UNCHANGED <<compose, prevCompose, caddy, prevCaddy, imported,
                      live, docker, cancelled>>
        BY <1>1, <1>3, Ends, RowRecorded DEF PutDeployment, Results,
           worldVars, fileVars
  <2>2. ShapeInv(p)'
        BY <1>1, <2>1 DEF ShapeInv, StepsOf, Switch, Changes, Replaces
  <2>3. PlanInv(p)' BY <1>1, <2>1 DEF ChangeInv, PlanInv, Changes, Replaces
  <2>4. RowInv(p)' BY <1>1, <2>1 DEF ChangeInv, RowInv, Changes, Replaces
  <2>5. ComposeInv(p)'
        BY <1>1, <2>1 DEF ChangeInv, ComposeInv, Replaces, Changes
  <2>6. PreviousInv(p)'
        BY <1>1, <2>1 DEF ChangeInv, PreviousInv, Changes, Replaces
  <2>7. PreviousRouteInv(p)'
        BY <1>1, <2>1 DEF ChangeInv, PreviousRouteInv, Changes, Replaces
  <2>8. SnippetInv(p)'
        BY <1>1, <2>1 DEF ChangeInv, SnippetInv, BeforeSwitch, Switch,
           Changes, Replaces
  <2>9. ImportInv(p)'
        BY <1>1, <2>1 DEF ChangeInv, ImportInv, BeforeSwitch, Changes,
           Replaces
  <2>10. LiveInv(p)'
         BY <1>1, <2>1 DEF ChangeInv, LiveInv, BeforeSwitch, Switch, Changes,
            Replaces
  <2>11. DockerInv(p)'
         BY <1>1, <2>1 DEF ChangeInv, DockerInv, Shown, Restarts, Replaces,
            Changes
  <2>12. RemovedInv(p)' BY <1>1, <2>1 DEF RemovedInv, Changes, Replaces
  <2> QED
      BY <1>1, <2>1, <2>2, <2>3, <2>4, <2>5, <2>6, <2>7, <2>8, <2>9, <2>10,
         <2>11, <2>12 DEF OperationInv, ChangeInv
<1>4. CASE /\ job[p].kind \in {"bluegreen", "switchback"} /\ UNCHANGED db
          /\ FailsAfter(p, Compensation(job[p], "put"), "failed")
  <2>1. /\ Errs(p, Compensation(job[p], "put"), "failed")
        /\ UNCHANGED <<compose, prevCompose, caddy, prevCaddy, imported,
                      live, docker, db, cancelled>>
        /\ job[p].kind \in {"bluegreen", "switchback"}
        BY <1>1, <1>4, CompensationErrs DEF PutDeployment, FailsAt,
           worldVars, fileVars
  <2>2. Compensation(job[p], "put") \in TodoSets
        BY <1>1, <2>1, CompensationTyped, Orders DEF TodoSets
  <2>3. /\ job[p].kind = "bluegreen" =>
              Compensation(job[p], "put") = {"route", "reload", "down", "compose"}
        /\ job[p].kind = "switchback" =>
              Compensation(job[p], "put") = {"route", "reload", "down"}
        BY <1>1, <2>1, <2>2 DEF Compensation, Replaces, Changes
  <2>4. Covered(p, Compensation(job[p], "put"))
        BY <1>1, <2>1, <2>2, <2>3 DEF Covered, Restarts, Replaces, Changes,
           Switch, ShapeInv, StepsOf, ChangeInv, ComposeInv, PlanInv
  <2>5. OperationInv(p)'
        BY <1>1, <2>1, <2>2, <2>3, <2>4, Fails DEF Forward, Switch, Changes,
           Replaces, fileVars
  <2> QED BY <2>5, <2>1
<1>5. CASE /\ job[p].kind \notin {"bluegreen", "switchback"} /\ UNCHANGED db
          /\ FailsAfter(p, Compensation(job[p], "put"), "unrecorded")
  <2>1. /\ Reaches(p, "done") /\ Keeps(p) /\ job'[p].todo = job[p].todo
        /\ job'[p].result = "unrecorded"
        /\ job[p].kind \notin {"bluegreen", "switchback"}
        /\ job[p].todo = {}
        /\ UNCHANGED <<compose, prevCompose, caddy, prevCaddy, imported,
                      live, docker, db, cancelled>>
        BY <1>1, <1>5, Unrecorded DEF PutDeployment, ShapeInv, Changes,
           Replaces, worldVars, fileVars
  <2>2. ShapeInv(p)'
        BY <1>1, <2>1 DEF ShapeInv, StepsOf, Switch, Changes, Replaces
  <2>3. PlanInv(p)' BY <1>1, <2>1 DEF ChangeInv, PlanInv, Changes, Replaces
  <2>4. RowInv(p)' BY <1>1, <2>1 DEF ChangeInv, RowInv, Changes, Replaces
  <2>5. ComposeInv(p)'
        BY <1>1, <2>1 DEF ChangeInv, ComposeInv, Replaces, Changes
  <2>6. PreviousInv(p)'
        BY <1>1, <2>1 DEF ChangeInv, PreviousInv, Changes, Replaces
  <2>7. PreviousRouteInv(p)'
        BY <1>1, <2>1 DEF ChangeInv, PreviousRouteInv, Changes, Replaces
  <2>8. SnippetInv(p)'
        BY <1>1, <2>1 DEF ChangeInv, SnippetInv, BeforeSwitch, Switch,
           Changes, Replaces
  <2>9. ImportInv(p)'
        BY <1>1, <2>1 DEF ChangeInv, ImportInv, BeforeSwitch, Changes,
           Replaces
  <2>10. LiveInv(p)'
         BY <1>1, <2>1 DEF ChangeInv, LiveInv, BeforeSwitch, Switch, Changes,
            Replaces
  <2>11. DockerInv(p)'
         BY <1>1, <2>1 DEF ChangeInv, DockerInv, Shown, Restarts, Replaces,
            Changes
  <2>12. RemovedInv(p)' BY <1>1, <2>1 DEF RemovedInv, Changes, Replaces
  <2> QED
      BY <1>1, <2>1, <2>2, <2>3, <2>4, <2>5, <2>6, <2>7, <2>8, <2>9, <2>10,
         <2>11, <2>12 DEF OperationInv, ChangeInv
<1> QED BY <1>2, <1>3, <1>4, <1>5 DEF PutDeployment, RowPut

\* Only the containers of the previous slot are removed.
LEMMA DrainStep ==
    ASSUME LifecycleInv, NEW p \in Procs, Drain(p)
    PROVE  OperationInv(p)' /\ Same(p)
<1>1. /\ pc[p] = "drain" /\ TypeOK /\ Typed(p)
      /\ job[p].kind \in {"bluegreen", "switchback"} /\ ShapeInv(p)
      /\ RemovedInv(p) /\ ChangeInv(p)
      BY Working, KindOfStep DEF Drain, At, Changes, Replaces
<1>2. CASE /\ DockerDown(job[p].slot)
          /\ Finish(p, "ok")
  <2>1. /\ Reaches(p, "done") /\ Keeps(p) /\ job'[p].todo = job[p].todo
        /\ job'[p].result = "ok" /\ docker'[job[p].slot] = Nil
        /\ \A s \in Slots \ {job[p].slot} : docker'[s] = docker[s]
        /\ UNCHANGED <<compose, prevCompose, caddy, prevCaddy, imported,
                      live, db, cancelled>>
        BY <1>1, <1>2, Ends DEF Drain, Results, worldVars, fileVars,
           DockerDown, TypeOK, Typed, Jobs
  <2>2. /\ job[p].slot \in Slots /\ job[p].target \in Slots
        /\ job[p].slot # job[p].target
        BY <1>1, <2>1 DEF ChangeInv, PlanInv, Other, Typed, Jobs, Slots,
           Deployments, World
  <2>3. docker'[job[p].target] = docker[job[p].target] BY <1>1, <2>1, <2>2
  <2>4. ShapeInv(p)'
        BY <1>1, <2>1, <2>2, <2>3 DEF ShapeInv, StepsOf, Switch, Replaces
  <2>5. PlanInv(p)' BY <1>1, <2>1, <2>2, <2>3 DEF ChangeInv, PlanInv, Replaces
  <2>6. RowInv(p)' BY <1>1, <2>1, <2>2, <2>3 DEF ChangeInv, RowInv, Replaces
  <2>7. ComposeInv(p)'
        BY <1>1, <2>1, <2>2, <2>3 DEF ChangeInv, ComposeInv, Replaces
  <2>8. PreviousInv(p)'
        BY <1>1, <2>1, <2>2, <2>3 DEF ChangeInv, PreviousInv, Replaces
  <2>9. PreviousRouteInv(p)'
        BY <1>1, <2>1, <2>2, <2>3 DEF ChangeInv, PreviousRouteInv, Replaces
  <2>10. SnippetInv(p)'
         BY <1>1, <2>1, <2>2, <2>3 DEF ChangeInv, SnippetInv, BeforeSwitch,
            Switch, Replaces
  <2>11. ImportInv(p)'
         BY <1>1, <2>1, <2>2, <2>3 DEF ChangeInv, ImportInv, BeforeSwitch,
            Replaces
  <2>12. LiveInv(p)'
         BY <1>1, <2>1, <2>2, <2>3 DEF ChangeInv, LiveInv, BeforeSwitch,
            Switch, Replaces
  <2>13. DockerInv(p)'
         BY <1>1, <2>1, <2>2, <2>3 DEF ChangeInv, DockerInv, Shown, Restarts,
            Replaces
  <2>14. RemovedInv(p)' BY <1>1, <2>1, <2>2, <2>3 DEF RemovedInv, Replaces
  <2> QED
      BY <1>1, <2>1, <2>4, <2>5, <2>6, <2>7, <2>8, <2>9, <2>10, <2>11, <2>12,
         <2>13, <2>14 DEF OperationInv, ChangeInv
<1>3. CASE /\ DockerDownFails(job[p].slot)
          /\ Finish(p, "undrained")
  <2>1. /\ Reaches(p, "done") /\ Keeps(p) /\ job'[p].todo = job[p].todo
        /\ job'[p].result = "undrained"
        /\ \A s \in Slots \ {job[p].slot} : docker'[s] = docker[s]
        /\ UNCHANGED <<compose, prevCompose, caddy, prevCaddy, imported,
                      live, db, cancelled>>
        BY <1>1, <1>3, Ends DEF Drain, Results, worldVars, fileVars,
           DockerDownFails, TypeOK, Typed, Jobs
  <2>2. /\ job[p].slot \in Slots /\ job[p].target \in Slots
        /\ job[p].slot # job[p].target
        BY <1>1, <2>1 DEF ChangeInv, PlanInv, Other, Typed, Jobs, Slots,
           Deployments, World
  <2>3. docker'[job[p].target] = docker[job[p].target] BY <1>1, <2>1, <2>2
  <2>4. ShapeInv(p)'
        BY <1>1, <2>1, <2>2, <2>3 DEF ShapeInv, StepsOf, Switch, Replaces
  <2>5. PlanInv(p)' BY <1>1, <2>1, <2>2, <2>3 DEF ChangeInv, PlanInv, Replaces
  <2>6. RowInv(p)' BY <1>1, <2>1, <2>2, <2>3 DEF ChangeInv, RowInv, Replaces
  <2>7. ComposeInv(p)'
        BY <1>1, <2>1, <2>2, <2>3 DEF ChangeInv, ComposeInv, Replaces
  <2>8. PreviousInv(p)'
        BY <1>1, <2>1, <2>2, <2>3 DEF ChangeInv, PreviousInv, Replaces
  <2>9. PreviousRouteInv(p)'
        BY <1>1, <2>1, <2>2, <2>3 DEF ChangeInv, PreviousRouteInv, Replaces
  <2>10. SnippetInv(p)'
         BY <1>1, <2>1, <2>2, <2>3 DEF ChangeInv, SnippetInv, BeforeSwitch,
            Switch, Replaces
  <2>11. ImportInv(p)'
         BY <1>1, <2>1, <2>2, <2>3 DEF ChangeInv, ImportInv, BeforeSwitch,
            Replaces
  <2>12. LiveInv(p)'
         BY <1>1, <2>1, <2>2, <2>3 DEF ChangeInv, LiveInv, BeforeSwitch,
            Switch, Replaces
  <2>13. DockerInv(p)'
         BY <1>1, <2>1, <2>2, <2>3 DEF ChangeInv, DockerInv, Shown, Restarts,
            Replaces
  <2>14. RemovedInv(p)' BY <1>1, <2>1, <2>2, <2>3 DEF RemovedInv, Replaces
  <2> QED
      BY <1>1, <2>1, <2>4, <2>5, <2>6, <2>7, <2>8, <2>9, <2>10, <2>11, <2>12,
         <2>13, <2>14 DEF OperationInv, ChangeInv
<1> QED BY <1>2, <1>3 DEF Drain

-----------------------------------------------------------------------------
(* The steps of the error paths.                                             *)

\* What a step of an error path that does not fail does to the world.
Restores(p, step) ==
    LET j == job[p]
        t == job[p].target IN
    /\ step \in j.todo /\ Errs(p, j.todo \ {step}, j.result)
    /\ \A s \in Slots :
          compose'[s] = IF s = t /\ step = "compose" THEN j.snap ELSE compose[s]
    /\ prevCompose' = IF step = "previous" THEN j.art ELSE prevCompose
    /\ prevCaddy' = IF step = "previousRoute" THEN j.route ELSE prevCaddy
    /\ caddy' = IF step = "snippet" THEN j.cSnap ELSE IF step = "route" THEN j.oldCaddy
                ELSE caddy
    /\ imported' = IF step = "import" THEN j.iSnap ELSE imported
    /\ step = "reload" => /\ {"snippet", "import", "route"} \cap j.todo = {}
                          /\ live' = IF imported THEN caddy ELSE Nil
    /\ step # "reload" => live' = live
    /\ step = "up" => "compose" \notin j.todo /\ Shown(docker'[t], compose[t])
    /\ step = "down" => docker'[t] = Nil
    /\ step \notin {"up", "down"} => docker'[t] = docker[t]
    /\ \A s \in Slots \ {t} : docker'[s] = docker[s]
    /\ db' = db

\* Each step brings the world nearer to the one that the operation found.
LEMMA Restored ==
    ASSUME LifecycleInv, NEW p \in Procs, pc[p] = "undo", NEW step, Restores(p, step)
    PROVE  OperationInv(p)'
<1>1. /\ Typed(p) /\ ShapeInv(p) /\ RemovedInv(p)
      /\ job[p].kind \in Changes \cup {"delete"} /\ (job[p].kind \in Changes => ChangeInv(p))
      BY Working, KindOfStep
<1>2. job[p].target \in Slots BY <1>1 DEF Typed, Jobs
<1>3. ShapeInv(p)' BY <1>1 DEF Restores, ShapeInv, StepsOf, Changes, Replaces, Switch
<1>4. RemovedInv(p)' BY <1>1 DEF Restores, RemovedInv, ShapeInv, Switch
<1>5. ASSUME job[p].kind \in Changes PROVE ChangeInv(p)'
  <2>1. ChangeInv(p) BY <1>1, <1>5
  <2>2. PlanInv(p)' BY <2>1 DEF ChangeInv, PlanInv, Restores
  <2>3. RowInv(p)' BY <1>1, <2>1 DEF ChangeInv, RowInv, Restores, ShapeInv
  <2>4. ComposeInv(p)' BY <1>1, <1>2, <2>1 DEF ChangeInv, ComposeInv, Restores, ShapeInv
  <2>5. PreviousInv(p)' BY <1>1, <2>1 DEF ChangeInv, PreviousInv, PlanInv, Restores, ShapeInv
  <2>6. PreviousRouteInv(p)'
        BY <1>1, <2>1 DEF ChangeInv, PreviousRouteInv, PlanInv, Restores, ShapeInv
  <2>7. SnippetInv(p)'
        BY <1>1, <2>1 DEF ChangeInv, SnippetInv, Restores, ShapeInv, BeforeSwitch, Switch
  <2>8. ImportInv(p)' BY <2>1 DEF ChangeInv, ImportInv, Restores, BeforeSwitch
  <2>9. LiveInv(p)'
    <3>1. CASE step = "reload"
          BY <1>1, <2>1, <3>1 DEF ChangeInv, LiveInv, SnippetInv, ImportInv, Settled,
             Restores, ShapeInv, BeforeSwitch, Switch
    <3>2. CASE step # "reload"
          BY <1>1, <2>1, <3>2, SMTT(30)
           DEF ChangeInv, LiveInv, Restores, ShapeInv, BeforeSwitch, Switch
    <3> QED BY <3>1, <3>2
  <2>10. DockerInv(p)'
    <3>1. Restarts(job[p]) => step # "down" BY <2>1 DEF ChangeInv, DockerInv, Restores
    <3>2. ~Restarts(job[p]) => step # "up" BY <2>1 DEF ChangeInv, DockerInv, Restores
    <3>3. step = "up" /\ Erring(p) => compose[job[p].target] = job[p].before.compose[job[p].target]
          BY <2>1 DEF ChangeInv, ComposeInv, Restores
    <3>4. Erring(p)' =>
              IF Restarts(job[p])
              THEN \/ "up" \in job'[p].todo
                   \/ docker'[job[p].target] = job[p].before.docker[job[p].target]
                   \/ Shown(docker'[job[p].target], job[p].before.compose[job[p].target])
              ELSE \/ "down" \in job'[p].todo
                   \/ docker'[job[p].target] \in {job[p].before.docker[job[p].target], Nil}
          BY <1>1, <2>1, <3>1, <3>2, <3>3 DEF ChangeInv, DockerInv, Restores, ShapeInv
    <3> QED BY <1>1, <2>1, <3>4 DEF ChangeInv, DockerInv, Restores, Restarts, ShapeInv
  <2> QED BY <2>2, <2>3, <2>4, <2>5, <2>6, <2>7, <2>8, <2>9, <2>10 DEF ChangeInv
<1> QED BY <1>3, <1>4, <1>5 DEF OperationInv, Restores

\* An error path that has failed leaves no more than the rest of its steps.
LEMMA BreaksOff ==
    ASSUME LifecycleInv, NEW p \in Procs, pc[p] = "undo",
           NEW todo \in SUBSET job[p].todo, Errs(p, todo, "broken"), UNCHANGED <<fileVars, db>>,
           \A s \in Slots \ {job[p].target} : docker'[s] = docker[s]
    PROVE  OperationInv(p)'
<1>1. /\ Typed(p) /\ ShapeInv(p) /\ RemovedInv(p)
      /\ job[p].kind \in Changes \cup {"delete"} /\ (job[p].kind \in Changes => ChangeInv(p))
      BY Working, KindOfStep
<1>2. ShapeInv(p)' BY <1>1 DEF ShapeInv, StepsOf, Changes, Replaces, Switch
<1>3. RemovedInv(p)' BY <1>1 DEF RemovedInv, Switch
<1>4. ASSUME job[p].kind \in Changes PROVE ChangeInv(p)'
  <2>1. ChangeInv(p) BY <1>1, <1>4
  <2>2. PlanInv(p)' BY <2>1 DEF ChangeInv, PlanInv
  <2>3. RowInv(p)' BY <1>1, <2>1 DEF ChangeInv, RowInv
  <2>4. ComposeInv(p)' BY <1>1, <2>1 DEF ChangeInv, ComposeInv, fileVars
  <2>5. PreviousInv(p)' BY <2>1 DEF ChangeInv, PreviousInv
  <2>6. PreviousRouteInv(p)' BY <2>1 DEF ChangeInv, PreviousRouteInv
  <2>7. SnippetInv(p)' BY <2>1 DEF ChangeInv, SnippetInv, BeforeSwitch, Switch
  <2>8. ImportInv(p)' BY <2>1 DEF ChangeInv, ImportInv, fileVars, BeforeSwitch
  <2>9. LiveInv(p)' BY <2>1 DEF ChangeInv, LiveInv, BeforeSwitch, Switch
  <2>10. DockerInv(p)' BY <1>1, <2>1 DEF ChangeInv, DockerInv, Restarts
  <2> QED BY <2>2, <2>3, <2>4, <2>5, <2>6, <2>7, <2>8, <2>9, <2>10 DEF ChangeInv
<1> QED BY <1>2, <1>3, <1>4 DEF OperationInv

\* A step of an error path done leaves the other steps.
LEMMA ProceedErrs ==
    ASSUME TypeOK, NEW p \in Procs, Typed(p), pc[p] # "idle", NEW step, Proceed(p, step)
    PROVE  Errs(p, job[p].todo \ {step}, job[p].result)
<1>1. job[p].todo \ {step} \in TodoSets /\ job[p].result \in Results
      BY DEF Typed, Jobs, TodoSets
<1> QED BY <1>1, FailureErrs DEF Proceed

\* A step of an error path failed leaves those that do not need its file.
LEMMA ProceedBrokenErrs ==
    ASSUME TypeOK, NEW p \in Procs, Typed(p), pc[p] # "idle", NEW step, ProceedBroken(p, step)
    PROVE  Errs(p, job[p].todo \ ({step} \cup NeedsFile(step)), "broken")
<1>1. job[p].todo \ ({step} \cup NeedsFile(step)) \in TodoSets /\ "broken" \in Results
      BY DEF Typed, Jobs, TodoSets, Results
<1> QED BY <1>1, FailureErrs DEF ProceedBroken

\* The next step of an error path comes after those it depends on.
LEMMA Undoes ==
    ASSUME LifecycleInv, NEW p \in Procs, NEW step, Undoing(p, step)
    PROVE  /\ pc[p] = "undo" /\ TypeOK /\ Typed(p) /\ step \in job[p].todo
           /\ step = "up" => "compose" \notin job[p].todo
           /\ step = "reload" => {"snippet", "import", "route"} \cap job[p].todo = {}
<1>1. pc[p] = "undo" /\ Comes(step, job[p].todo, UndoOrder) BY DEF Undoing, At
<1> QED BY <1>1, NextToUndo, Working

\* The artifact of the target is put back.
LEMMA UndoComposeStep ==
    ASSUME LifecycleInv, NEW p \in Procs, UndoCompose(p)
    PROVE  OperationInv(p)' /\ Same(p)
<1>1. /\ pc[p] = "undo" /\ TypeOK /\ Typed(p) /\ "compose" \in job[p].todo
      BY Undoes DEF UndoCompose
<1>2. Errs(p, job[p].todo \ {"compose"}, job[p].result)
      BY <1>1, ProceedErrs DEF UndoCompose
<1>3. /\ compose' = [compose EXCEPT ![job[p].target] = job[p].snap]
      /\ compose \in [Slots -> MaybeArtifact]
      BY <1>1 DEF UndoCompose, TypeOK
<1>4. Restores(p, "compose") BY <1>1, <1>2, <1>3 DEF UndoCompose, Restores
<1> QED BY <1>1, <1>2, <1>4, Restored

\* The previous artifact and the previous route are put back.
LEMMA UndoPreviousStep ==
    ASSUME LifecycleInv, NEW p \in Procs, UndoPrevious(p)
    PROVE  OperationInv(p)' /\ Same(p)
<1>1. PICK step \in {"previous", "previousRoute"} :
          /\ Undoing(p, step) /\ Proceed(p, step)
          /\ prevCompose' = IF step = "previous" THEN job[p].art ELSE prevCompose
          /\ prevCaddy' = IF step = "previousRoute" THEN job[p].route ELSE prevCaddy
      BY DEF UndoPrevious
<1>2. /\ pc[p] = "undo" /\ TypeOK /\ Typed(p) /\ step \in job[p].todo BY <1>1, Undoes
<1>3. Errs(p, job[p].todo \ {step}, job[p].result) BY <1>1, <1>2, ProceedErrs
<1>4. Restores(p, step) BY <1>1, <1>2, <1>3 DEF UndoPrevious, Restores
<1> QED BY <1>2, <1>3, <1>4, Restored

\* The snippet and the import are put back.
LEMMA UndoCaddyStep ==
    ASSUME LifecycleInv, NEW p \in Procs, UndoCaddy(p)
    PROVE  OperationInv(p)' /\ Same(p)
<1>1. PICK step \in {"snippet", "route", "import"} :
          /\ Undoing(p, step) /\ Proceed(p, step)
          /\ caddy' = IF step = "snippet" THEN job[p].cSnap
                      ELSE IF step = "route" THEN job[p].oldCaddy ELSE caddy
          /\ imported' = IF step = "import" THEN job[p].iSnap ELSE imported
      BY DEF UndoCaddy
<1>2. /\ pc[p] = "undo" /\ TypeOK /\ Typed(p) /\ step \in job[p].todo BY <1>1, Undoes
<1>3. Errs(p, job[p].todo \ {step}, job[p].result) BY <1>1, <1>2, ProceedErrs
<1>4. Restores(p, step) BY <1>1, <1>2, <1>3 DEF UndoCaddy, Restores
<1> QED BY <1>2, <1>3, <1>4, Restored

\* A file that cannot be put back breaks the error path.
LEMMA UndoWriteFailsStep ==
    ASSUME LifecycleInv, NEW p \in Procs, UndoWriteFails(p)
    PROVE  OperationInv(p)' /\ Same(p)
<1>1. PICK step : Undoing(p, step) /\ ProceedBroken(p, step) BY DEF UndoWriteFails
<1>2. /\ pc[p] = "undo" /\ TypeOK /\ Typed(p) BY <1>1, Undoes
<1>3. Errs(p, job[p].todo \ ({step} \cup NeedsFile(step)), "broken")
      BY <1>1, <1>2, ProceedBrokenErrs
<1>4. UNCHANGED <<fileVars, db>> /\ docker' = docker BY DEF UndoWriteFails, worldVars
<1> QED BY <1>2, <1>3, <1>4, BreaksOff

\* The restored artifact gets its containers back.
LEMMA UndoUpStep ==
    ASSUME LifecycleInv, NEW p \in Procs, UndoUp(p)
    PROVE  OperationInv(p)' /\ Same(p)
<1>1. /\ pc[p] = "undo" /\ TypeOK /\ Typed(p) /\ "up" \in job[p].todo
      /\ "compose" \notin job[p].todo
      BY Undoes DEF UndoUp
<1>2. docker \in [Slots -> Containers \cup {Nil}] /\ job[p].target \in Slots
      BY <1>1 DEF TypeOK, Typed, Jobs
<1>3. UNCHANGED <<fileVars, live, db>> BY DEF UndoUp
<1>4. CASE ~UpRefused(job[p].target) /\ DockerUp(job[p].target) /\ Proceed(p, "up")
  <2>1. Errs(p, job[p].todo \ {"up"}, job[p].result) BY <1>1, <1>4, ProceedErrs
  <2>2. compose[job[p].target] \in Artifacts
        BY <1>1, <1>2, <1>4 DEF UpRefused, TypeOK, MaybeArtifact
  <2>3. Shown(docker'[job[p].target], compose[job[p].target])
        BY <1>1, <1>2, <1>4, <2>2, DockerStarts
  <2>4. \A s \in Slots \ {job[p].target} : docker'[s] = docker[s]
        BY <1>2, <1>4 DEF DockerUp
  <2>5. Restores(p, "up") BY <1>1, <1>3, <2>1, <2>3, <2>4 DEF Restores, fileVars
  <2> QED BY <1>1, <2>1, <2>5, Restored
<1>5. CASE DockerUpFails(job[p].target) /\ ProceedBroken(p, "up")
  <2>1. Errs(p, job[p].todo \ ({"up"} \cup NeedsFile("up")), "broken")
        BY <1>1, <1>5, ProceedBrokenErrs
  <2>2. \A s \in Slots \ {job[p].target} : docker'[s] = docker[s]
        BY <1>2, <1>5 DEF DockerUpFails
  <2> QED BY <1>1, <1>3, <2>1, <2>2, BreaksOff
<1> QED BY <1>4, <1>5 DEF UndoUp

\* The containers of the target are removed.
LEMMA UndoDownStep ==
    ASSUME LifecycleInv, NEW p \in Procs, UndoDown(p)
    PROVE  OperationInv(p)' /\ Same(p)
<1>1. /\ pc[p] = "undo" /\ TypeOK /\ Typed(p) /\ "down" \in job[p].todo
      BY Undoes DEF UndoDown
<1>2. docker \in [Slots -> Containers \cup {Nil}] /\ job[p].target \in Slots
      BY <1>1 DEF TypeOK, Typed, Jobs
<1>3. UNCHANGED <<fileVars, live, db>> BY DEF UndoDown
<1>4. CASE DockerDown(job[p].target) /\ Proceed(p, "down")
  <2>1. Errs(p, job[p].todo \ {"down"}, job[p].result) BY <1>1, <1>4, ProceedErrs
  <2>2. /\ docker'[job[p].target] = Nil
        /\ \A s \in Slots \ {job[p].target} : docker'[s] = docker[s]
        BY <1>2, <1>4 DEF DockerDown
  <2>3. Restores(p, "down") BY <1>1, <1>3, <2>1, <2>2 DEF Restores, fileVars
  <2> QED BY <1>1, <2>1, <2>3, Restored
<1>5. CASE DockerDownFails(job[p].target) /\ ProceedBroken(p, "down")
  <2>1. Errs(p, job[p].todo \ ({"down"} \cup NeedsFile("down")), "broken")
        BY <1>1, <1>5, ProceedBrokenErrs
  <2>2. \A s \in Slots \ {job[p].target} : docker'[s] = docker[s]
        BY <1>2, <1>5 DEF DockerDownFails
  <2> QED BY <1>1, <1>3, <2>1, <2>2, BreaksOff
<1> QED BY <1>4, <1>5 DEF UndoDown

\* The restored route is live again.
LEMMA UndoReloadStep ==
    ASSUME LifecycleInv, NEW p \in Procs, UndoReload(p)
    PROVE  OperationInv(p)' /\ Same(p)
<1>1. /\ pc[p] = "undo" /\ TypeOK /\ Typed(p) /\ "reload" \in job[p].todo
      /\ {"snippet", "import", "route"} \cap job[p].todo = {}
      BY Undoes DEF UndoReload
<1>2. UNCHANGED <<fileVars, docker, db>> BY DEF UndoReload
<1>3. CASE Reload /\ Proceed(p, "reload")
  <2>1. Errs(p, job[p].todo \ {"reload"}, job[p].result) BY <1>1, <1>3, ProceedErrs
  <2>2. Restores(p, "reload") BY <1>1, <1>2, <1>3, <2>1 DEF Restores, fileVars, Reload
  <2> QED BY <1>1, <2>1, <2>2, Restored
<1>4. CASE ProceedBroken(p, "reload")
  <2>1. Errs(p, job[p].todo \ ({"reload"} \cup NeedsFile("reload")), "broken")
        BY <1>1, <1>4, ProceedBrokenErrs
  <2> QED BY <1>1, <1>2, <2>1, BreaksOff
<1> QED BY <1>3, <1>4 DEF UndoReload

-----------------------------------------------------------------------------
(* Restart and stop.                                                         *)

\* A restart or stop has no promise to keep but its shape.
LEMMA ControlContainersStep ==
    ASSUME LifecycleInv, NEW p \in Procs, ControlContainers(p)
    PROVE  OperationInv(p)' /\ Same(p)
<1>1. /\ pc[p] = "command" /\ TypeOK /\ Typed(p) /\ ShapeInv(p)
      /\ job[p].kind \in {"restart", "stop"}
      BY Working, KindOfStep DEF ControlContainers, At
<1>2. CASE Goto(p, "record") /\ UNCHANGED job
  <2>1. Reaches(p, "record") /\ Carries(p) BY <1>1, <1>2, Moves, Stays DEF Steps
  <2> QED BY <1>1, <2>1 DEF OperationInv, ShapeInv, RemovedInv, StepsOf, Switch, Changes,
             Replaces
<1>3. CASE Finish(p, "failed")
  <2>1. /\ Keeps(p) /\ job'[p].todo = job[p].todo /\ job'[p].result = "failed"
        /\ Reaches(p, "done")
        BY <1>1, <1>3, Ends DEF Results
  <2> QED BY <1>1, <2>1 DEF OperationInv, ShapeInv, RemovedInv, StepsOf, Switch, Changes,
             Replaces
<1> QED BY <1>2, <1>3 DEF ControlContainers

\* The same for the status it records.
LEMMA RecordStatusStep ==
    ASSUME LifecycleInv, NEW p \in Procs, RecordStatus(p)
    PROVE  OperationInv(p)' /\ Same(p)
<1>1. /\ pc[p] = "record" /\ TypeOK /\ Typed(p) /\ ShapeInv(p)
      /\ job[p].kind \in {"restart", "stop"}
      BY Working, KindOfStep DEF RecordStatus, At
<1>2. PICK r \in {"ok", "failed"} : Finish(p, r) BY DEF RecordStatus
<1>3. /\ Keeps(p) /\ job'[p].todo = job[p].todo /\ job'[p].result = r
      /\ Reaches(p, "done")
      BY <1>1, <1>2, Ends DEF Results
<1> QED BY <1>1, <1>2, <1>3 DEF OperationInv, ShapeInv, RemovedInv, StepsOf, Switch, Changes,
           Replaces

-----------------------------------------------------------------------------
(* Delete.                                                                   *)

\* A deletion has still everything to remove after its containers.
LEMMA DeleteContainersStep ==
    ASSUME LifecycleInv, NEW p \in Procs, DeleteContainers(p)
    PROVE  OperationInv(p)' /\ Same(p)
<1>1. /\ pc[p] = "down" /\ TypeOK /\ Typed(p) /\ ShapeInv(p) /\ RemovedInv(p)
      /\ job[p].kind = "delete"
      BY Working, KindOfStep DEF DeleteContainers, At
<1>2. CASE /\ Goto(p, IF job[p].needsCaddy THEN "cy_preserve" ELSE "remove")
           /\ UNCHANGED job
  <2>1. Carries(p) BY <1>1, <1>2, Stays
  <2>2. Reaches(p, IF job[p].needsCaddy THEN "cy_preserve" ELSE "remove")
        BY <1>1, <1>2, Moves DEF Steps
  <2>3. job[p].needsCaddy \in BOOLEAN BY <1>1 DEF Typed, Jobs
  <2>4. ShapeInv(p)' BY <1>1, <2>1, <2>2, <2>3 DEF ShapeInv, StepsOf, Switch
  <2>5. RemovedInv(p)' BY <1>1, <2>1, <2>2, Orders DEF RemovedInv, Switch
  <2> QED BY <1>1, <2>1, <2>4, <2>5 DEF OperationInv, Changes, Replaces
<1>3. CASE Finish(p, "failed")
  <2>1. /\ Keeps(p) /\ job'[p].todo = job[p].todo /\ job'[p].result = "failed"
        /\ Reaches(p, "done")
        BY <1>1, <1>3, Ends DEF Results
  <2> QED BY <1>1, <2>1 DEF OperationInv, ShapeInv, RemovedInv, StepsOf, Switch, Changes,
             Replaces
<1> QED BY <1>2, <1>3 DEF DeleteContainers

\* A removal strikes what it removed off the list.
LEMMA Strikes ==
    ASSUME LifecycleInv, NEW p \in Procs, NEW what, Removing(p, what)
    PROVE  /\ pc[p] = "remove" /\ TypeOK /\ Typed(p) /\ ShapeInv(p) /\ RemovedInv(p)
           /\ job[p].kind = "delete" /\ what \in job[p].todo
           /\ Keeps(p) /\ job'[p].todo = job[p].todo \ {what} /\ job'[p].result = job[p].result
           /\ Reaches(p, IF job[p].todo = {what} THEN "forget" ELSE "remove")
<1>1. /\ pc[p] = "remove" /\ TypeOK /\ Typed(p) /\ ShapeInv(p) /\ RemovedInv(p)
      /\ job[p].kind = "delete" /\ what \in job[p].todo
      BY Working, KindOfStep, NextToRemove DEF Removing, At
<1>2. job[p].todo \ {what} \in TodoSets BY <1>1 DEF Typed, Jobs, TodoSets
<1>3. job' = [job EXCEPT ![p].todo = job[p].todo \ {what}]
      BY <1>1 DEF Removing, Typed
<1>4. Keeps(p) /\ job'[p].todo = job[p].todo \ {what} /\ job'[p].result = job[p].result
      BY <1>1, <1>2, <1>3, UpdateTodo
<1>5. Reaches(p, IF job[p].todo = {what} THEN "forget" ELSE "remove")
      BY <1>1, Moves DEF Removing, Steps
<1> QED BY <1>1, <1>4, <1>5

\* What has been removed stays removed.
LEMMA RemoveFileStep ==
    ASSUME LifecycleInv, NEW p \in Procs, RemoveFile(p)
    PROVE  OperationInv(p)' /\ Same(p)
<1>1. compose \in [Slots -> MaybeArtifact] BY DEF LifecycleInv, TypeOK
<1>2. PICK what : /\ Removing(p, what)
                  /\ \A s \in Slots : compose'[s] = compose[s] \/ compose'[s] = Nil
                  /\ prevCompose' = prevCompose \/ prevCompose' = Nil
                  /\ caddy' = caddy \/ caddy' = Nil
                  /\ prevCaddy' = prevCaddy \/ prevCaddy' = Nil
                  /\ what = "base" => compose'["base"] = Nil
                  /\ what = "previous" => prevCompose' = Nil
                  /\ what = "snippet" => caddy' = Nil
                  /\ what = "previousRoute" => prevCaddy' = Nil
                  /\ what = "slots" => compose'["a"] = Nil /\ compose'["b"] = Nil
  <2>1. CASE Removing(p, "base") /\ compose' = [compose EXCEPT !["base"] = Nil]
             /\ UNCHANGED <<prevCompose, caddy, prevCaddy>>
        BY <1>1, <2>1 DEF Slots
  <2>2. CASE Removing(p, "previous") /\ prevCompose' = Nil
             /\ UNCHANGED <<compose, caddy, prevCaddy>>
        BY <1>1, <2>2
  <2>3. CASE Removing(p, "snippet") /\ caddy' = Nil
             /\ UNCHANGED <<compose, prevCompose, prevCaddy>>
        BY <1>1, <2>3
  <2>4. CASE Removing(p, "previousRoute") /\ prevCaddy' = Nil
             /\ UNCHANGED <<compose, prevCompose, caddy>>
        BY <1>1, <2>4
  <2>5. CASE Removing(p, "slots") /\ compose' = [compose EXCEPT !["a"] = Nil, !["b"] = Nil]
             /\ UNCHANGED <<prevCompose, caddy, prevCaddy>>
        BY <1>1, <2>5 DEF Slots
  <2> QED BY <2>1, <2>2, <2>3, <2>4, <2>5 DEF RemoveFile
<1>3. /\ pc[p] = "remove" /\ ShapeInv(p) /\ RemovedInv(p)
      /\ job[p].kind = "delete" /\ what \in job[p].todo
      /\ Keeps(p) /\ job'[p].todo = job[p].todo \ {what} /\ job'[p].result = job[p].result
      /\ Reaches(p, IF job[p].todo = {what} THEN "forget" ELSE "remove")
      BY <1>2, Strikes
<1>4. ShapeInv(p)' BY <1>3 DEF ShapeInv, StepsOf, Switch
<1>5. job[p].result = "none" BY <1>3 DEF ShapeInv
<1>6. /\ "base" \notin job'[p].todo => compose'["base"] = Nil
      /\ "previous" \notin job'[p].todo => prevCompose' = Nil
      /\ "snippet" \notin job'[p].todo => caddy' = Nil
      /\ "previousRoute" \notin job'[p].todo => prevCaddy' = Nil
      /\ "slots" \notin job'[p].todo => compose'["a"] = Nil /\ compose'["b"] = Nil
      BY <1>2, <1>3 DEF RemovedInv, Slots
<1>7. RemovedInv(p)' BY <1>3, <1>5, <1>6, Orders DEF RemovedInv, Switch
<1> QED BY <1>3, <1>4, <1>7 DEF OperationInv, Changes, Replaces

\* A removal that fails ends the deletion.
LEMMA RemoveFailsStep ==
    ASSUME LifecycleInv, NEW p \in Procs, RemoveFails(p)
    PROVE  OperationInv(p)' /\ Same(p)
<1>1. /\ pc[p] = "remove" /\ TypeOK /\ Typed(p) /\ ShapeInv(p) /\ job[p].kind = "delete"
      BY Working, KindOfStep DEF RemoveFails, At
<1>2. /\ Keeps(p) /\ job'[p].todo = job[p].todo /\ job'[p].result = "failed"
      /\ Reaches(p, "done")
      BY <1>1, Ends DEF RemoveFails, Results
<1> QED BY <1>1, <1>2 DEF OperationInv, ShapeInv, RemovedInv, StepsOf, Switch, Changes,
           Replaces

\* The row goes last, when every file is gone.
LEMMA ForgetStep ==
    ASSUME LifecycleInv, NEW p \in Procs, Forget(p)
    PROVE  OperationInv(p)' /\ Same(p)
<1>1. /\ pc[p] = "forget" /\ TypeOK /\ Typed(p) /\ ShapeInv(p) /\ RemovedInv(p)
      /\ job[p].kind = "delete"
      BY Working, KindOfStep DEF Forget, At
<1>2. PICK r \in {"ok", "failed"} : Finish(p, r) /\ (r = "ok" => db' = Nil) BY DEF Forget
<1>3. /\ Keeps(p) /\ job'[p].todo = job[p].todo /\ job'[p].result = r
      /\ Reaches(p, "done")
      BY <1>1, <1>2, Ends DEF Results
<1>4. ShapeInv(p)' BY <1>1, <1>2, <1>3 DEF ShapeInv, StepsOf, Switch
<1>5. job[p].result = "none" /\ job[p].todo = {} BY <1>1 DEF ShapeInv, RemovedInv
<1>6. RemovedInv(p)'
      BY <1>1, <1>2, <1>3, <1>5 DEF RemovedInv, Switch, Forget, fileVars
<1> QED BY <1>1, <1>3, <1>4, <1>6 DEF OperationInv, Changes, Replaces

-----------------------------------------------------------------------------
(* The start of an operation.                                                *)

\* The world that an operation finds is the present one.
LEMMA FoundWorld ==
    ASSUME TypeOK
    PROVE  /\ Now \in World
           /\ Now.compose = compose /\ Now.prevCompose = prevCompose /\ Now.caddy = caddy
           /\ Now.prevCaddy = prevCaddy /\ Now.imported = imported /\ Now.live = live
           /\ Now.docker = docker /\ Now.db = db
    BY DEF TypeOK, Now, World

\* A new operation has its local variables.
LEMMA NewJobTyped ==
    ASSUME TypeOK, NEW kind \in Kinds, NEW slot \in Slots, NEW target \in Slots
    PROVE  NewJob(kind, slot, target) \in Jobs
<1>1. Now \in World BY FoundWorld
<1>2. Nil \in MaybeArtifact /\ {} \in TodoSets /\ "none" \in Results
      BY DEF MaybeArtifact, TodoSets, Results
<1> QED BY <1>1, <1>2 DEF NewJob, Jobs, TodoSets

\* The recorded slot is one of the slots.
LEMMA RowSlot ==
    ASSUME TypeOK
    PROVE  /\ db # Nil => db \in Deployments /\ db.slot \in Slots /\ Other(db.slot) \in Slots
           /\ ActiveSlot \in Slots
    BY DEF TypeOK, Deployments, Slots, Other, ActiveSlot

\* A process that starts an operation gets its local variables.
LEMMA Begun ==
    ASSUME TypeOK, NEW p \in Procs, NEW j \in Jobs, NEW l \in Steps,
           job' = [job EXCEPT ![p] = j], Goto(p, l)
    PROVE  job'[p] = j /\ Reaches(p, l) /\ JobTyped(p)
    BY NilJob DEF TypeOK, Goto, JobTyped

\* What holds at the first step of an operation that has changed nothing yet.
LEMMA FirstStep ==
    ASSUME TypeOK, NEW p \in Procs, NEW j \in Jobs, job'[p] = j, j.kind \in Changes,
           j.before = Now, j.todo = {}, j.result = "none",
           pc'[p] = IF j.kind = "switchback" THEN "config" ELSE "preserve",
           j.kind = "bluegreen" => j.art.port = "dynamic",
           UNCHANGED worldVars, PlanInv(p)'
    PROVE  OperationInv(p)'
<1>1. /\ j.before.compose = compose /\ j.before.prevCompose = prevCompose
      /\ j.before.caddy = caddy /\ j.before.prevCaddy = prevCaddy
      /\ j.before.imported = imported /\ j.before.live = live
      /\ j.before.docker = docker /\ j.before.db = db
      BY FoundWorld
<1>2. /\ compose' = compose /\ prevCompose' = prevCompose /\ caddy' = caddy
      /\ prevCaddy' = prevCaddy /\ imported' = imported /\ live' = live
      /\ docker' = docker /\ db' = db
      BY DEF worldVars, fileVars
<1>3. ShapeInv(p)' BY DEF ShapeInv, StepsOf, Changes, Replaces, Switch
<1>4. RowInv(p)' BY <1>1, <1>2 DEF RowInv
<1>5. ComposeInv(p)' BY <1>1, <1>2 DEF ComposeInv, Changes, Replaces
<1>6. PreviousInv(p)' BY <1>1, <1>2 DEF PreviousInv
<1>7. PreviousRouteInv(p)' BY <1>1, <1>2 DEF PreviousRouteInv
<1>8. SnippetInv(p)' BY <1>1, <1>2 DEF SnippetInv, BeforeSwitch, Switch
<1>9. ImportInv(p)' BY <1>1, <1>2 DEF ImportInv
<1>10. LiveInv(p)' BY <1>1, <1>2 DEF LiveInv, BeforeSwitch, Switch
<1>11. DockerInv(p)' BY <1>1, <1>2 DEF DockerInv
<1>12. RemovedInv(p)' BY DEF RemovedInv, Changes, Replaces
<1> QED BY <1>3, <1>4, <1>5, <1>6, <1>7, <1>8, <1>9, <1>10, <1>11, <1>12
        DEF OperationInv, ChangeInv

\* A deployment starts with its plan.
LEMMA StartDeployStep ==
    ASSUME TypeOK, NEW p \in Procs, NEW m \in Manifests, StartDeploy(p, m)
    PROVE  /\ OperationInv(p)' /\ JobTyped(p) /\ job'[p].before = Now /\ pc'[p] = "preserve"
           /\ job'[p].kind = IF db # Nil /\ db.status = "running" /\ Eligible(m)
                             THEN "bluegreen" ELSE "inplace"
<1>1. UNCHANGED worldVars /\ Goto(p, "preserve") /\ "preserve" \in Steps
      BY DEF StartDeploy, Steps
<1>2. Now.db = db /\ Now.caddy = caddy BY FoundWorld
<1>3. Routed \subseteq Manifests BY ManifestsAssumption
<1>4. CASE db # Nil /\ db.status = "running" /\ Eligible(m)
  <2>1. m \in Routed BY <1>4 DEF Eligible
  <2>2. PICK n : n = NewJob("bluegreen", db.slot, Other(db.slot)) OBVIOUS
  <2>3. n \in Jobs BY <1>4, <2>2, NewJobTyped, RowSlot DEF Kinds
  <2>4. PICK j : j = [n EXCEPT !.art = [m |-> m, port |-> "dynamic"],
                               !.route = [m |-> m, port |-> "stable"], !.needsCaddy = TRUE]
        OBVIOUS
  <2>5. {[m |-> m, port |-> "dynamic"], [m |-> m, port |-> "stable"]} \subseteq Artifacts
        BY DEF Artifacts, Ports
  <2>6. j \in Jobs BY <2>3, <2>4, <2>5 DEF Jobs, MaybeArtifact
  <2>7. /\ n.kind = "bluegreen" /\ n.slot = db.slot /\ n.target = Other(db.slot)
        /\ n.todo = {} /\ n.result = "none" /\ n.before = Now
        BY <2>2 DEF NewJob
  <2>8. /\ j.kind = "bluegreen" /\ j.slot = db.slot /\ j.target = Other(db.slot)
        /\ j.art = [m |-> m, port |-> "dynamic"] /\ j.needsCaddy = TRUE
        /\ j.todo = {} /\ j.result = "none" /\ j.before = Now
        BY <2>3, <2>4, <2>7 DEF Jobs
  <2>9. job' = [job EXCEPT ![p] = j]
        BY <1>4, <2>1, <2>2, <2>4 DEF StartDeploy, ComposeOf, RouteOf
  <2>10. job'[p] = j /\ Reaches(p, "preserve") /\ JobTyped(p) BY <1>1, <2>6, <2>9, Begun
  <2>11. j.art # Nil BY <2>5, <2>8, NilAssumption
  <2>12. PlanInv(p)' BY <1>2, <1>4, <2>1, <2>8, <2>10, <2>11 DEF PlanInv
  <2>13. OperationInv(p)' BY <1>1, <2>6, <2>8, <2>10, <2>12, FirstStep DEF Changes, Replaces
  <2> QED BY <1>4, <2>8, <2>10, <2>13
<1>5. CASE ~(db # Nil /\ db.status = "running" /\ Eligible(m))
  <2>1. PICK n : n = NewJob("inplace", "base", "base") OBVIOUS
  <2>2. n \in Jobs BY <2>1, NewJobTyped DEF Kinds, Slots
  <2>3. PICK art : art = ComposeOf(m, "stable") OBVIOUS
  <2>4. PICK route : route = RouteOf(m, "stable") OBVIOUS
  <2>5. PICK needs \in BOOLEAN : needs = (m \in Routed \/ caddy # Nil) OBVIOUS
  <2>6. PICK j : j = [n EXCEPT !.art = art, !.route = route, !.needsCaddy = needs] OBVIOUS
  <2>7. art \in Artifacts /\ art.m = m /\ art.port = IF m \in Routed THEN "stable" ELSE "none"
        BY <2>3 DEF ComposeOf, Artifacts, Ports
  <2>8. route \in MaybeArtifact BY <2>4 DEF RouteOf, MaybeArtifact, Artifacts, Ports
  <2>9. j \in Jobs BY <2>2, <2>5, <2>6, <2>7, <2>8 DEF Jobs, MaybeArtifact
  <2>10. /\ n.kind = "inplace" /\ n.slot = "base" /\ n.target = "base"
         /\ n.todo = {} /\ n.result = "none" /\ n.before = Now
        BY <2>1 DEF NewJob
  <2>11. /\ j.kind = "inplace" /\ j.slot = "base" /\ j.target = "base"
         /\ j.art = art /\ j.route = route /\ j.needsCaddy = needs
         /\ j.todo = {} /\ j.result = "none" /\ j.before = Now
        BY <2>2, <2>6, <2>10 DEF Jobs
  <2>12. job' = [job EXCEPT ![p] = j]
        BY <1>5, <2>1, <2>3, <2>4, <2>5, <2>6 DEF StartDeploy
  <2>13. job'[p] = j /\ Reaches(p, "preserve") /\ JobTyped(p) BY <1>1, <2>9, <2>12, Begun
  <2>14. j.art # Nil BY <2>7, <2>11, NilAssumption
  <2>15. PlanInv(p)' BY <1>2, <2>4, <2>5, <2>7, <2>11, <2>13, <2>14 DEF PlanInv
  <2>16. OperationInv(p)' BY <1>1, <2>9, <2>11, <2>13, <2>15, FirstStep DEF Changes, Replaces
  <2> QED BY <1>5, <2>11, <2>13, <2>16
<1> QED BY <1>4, <1>5

\* A rollback in place starts with its plan.
LEMMA StartRollbackStep ==
    ASSUME TypeOK, NEW p \in Procs, StartRollback(p)
    PROVE  /\ OperationInv(p)' /\ JobTyped(p) /\ job'[p].before = Now /\ pc'[p] = "preserve"
           /\ job'[p].kind = "rollback"
<1>1. UNCHANGED worldVars /\ Goto(p, "preserve") /\ "preserve" \in Steps
      BY DEF StartRollback, Steps
<1>2. /\ Now.db = db /\ Now.caddy = caddy /\ Now.compose = compose
      /\ Now.prevCompose = prevCompose /\ Now.prevCaddy = prevCaddy
      BY FoundWorld
<1>3. db # Nil /\ compose[db.slot] # Nil /\ prevCompose # Nil /\ ~SlotToReturnTo
      BY DEF StartRollback
<1>4. db.slot \in Slots BY <1>3, RowSlot
<1>5. PICK n : n = NewJob("rollback", db.slot, db.slot) OBVIOUS
<1>6. n \in Jobs BY <1>4, <1>5, NewJobTyped DEF Kinds
<1>7. PICK needs \in BOOLEAN : needs = (caddy # Nil \/ prevCaddy # Nil) OBVIOUS
<1>8. PICK j : j = [n EXCEPT !.art = prevCompose, !.route = prevCaddy,
                             !.snap = compose[db.slot], !.needsCaddy = needs]
      OBVIOUS
<1>9. /\ prevCompose \in MaybeArtifact /\ prevCaddy \in MaybeArtifact
      /\ compose[db.slot] \in MaybeArtifact
      BY <1>4 DEF TypeOK
<1>10. j \in Jobs BY <1>6, <1>7, <1>8, <1>9 DEF Jobs
<1>11. /\ n.kind = "rollback" /\ n.slot = db.slot /\ n.target = db.slot
       /\ n.todo = {} /\ n.result = "none" /\ n.before = Now
      BY <1>5 DEF NewJob
<1>12. /\ j.kind = "rollback" /\ j.slot = db.slot /\ j.target = db.slot
       /\ j.art = prevCompose /\ j.route = prevCaddy /\ j.snap = compose[db.slot]
       /\ j.needsCaddy = needs /\ j.todo = {} /\ j.result = "none" /\ j.before = Now
      BY <1>6, <1>8, <1>11 DEF Jobs
<1>13. job' = [job EXCEPT ![p] = j] BY <1>5, <1>7, <1>8 DEF StartRollback
<1>14. job'[p] = j /\ Reaches(p, "preserve") /\ JobTyped(p) BY <1>1, <1>10, <1>13, Begun
<1>15. db.slot # "base" => compose[Other(db.slot)] = Nil
       BY <1>3 DEF SlotToReturnTo, ActiveSlot
<1>16. PlanInv(p)' BY <1>2, <1>3, <1>7, <1>12, <1>14, <1>15 DEF PlanInv
<1>17. OperationInv(p)' BY <1>1, <1>10, <1>12, <1>14, <1>16, FirstStep DEF Changes, Replaces
<1> QED BY <1>12, <1>14, <1>17

\* A rollback to the other slot starts with its plan.
LEMMA StartSwitchbackStep ==
    ASSUME TypeOK, NEW p \in Procs, StartSwitchback(p)
    PROVE  /\ OperationInv(p)' /\ JobTyped(p) /\ job'[p].before = Now /\ pc'[p] = "config"
           /\ job'[p].kind = "switchback"
<1>1. UNCHANGED worldVars /\ Goto(p, "config") /\ "config" \in Steps
      BY DEF StartSwitchback, Steps
<1>2. /\ Now.db = db /\ Now.caddy = caddy /\ Now.compose = compose
      /\ Now.prevCompose = prevCompose /\ Now.prevCaddy = prevCaddy
      BY FoundWorld
<1>3. db # Nil /\ compose[db.slot] # Nil /\ SlotToReturnTo
      BY DEF StartSwitchback
<1>4. db.slot \in Slots /\ Other(db.slot) \in Slots BY <1>3, RowSlot
<1>5. PICK n : n = NewJob("switchback", db.slot, Other(db.slot)) OBVIOUS
<1>6. n \in Jobs BY <1>4, <1>5, NewJobTyped DEF Kinds
<1>7. PICK j : j = [n EXCEPT !.art = compose[Other(db.slot)], !.route = prevCaddy,
                             !.oldCaddy = caddy, !.needsCaddy = TRUE]
      OBVIOUS
<1>8. /\ caddy \in MaybeArtifact /\ prevCaddy \in MaybeArtifact
      /\ compose[Other(db.slot)] \in MaybeArtifact
      BY <1>4 DEF TypeOK
<1>9. j \in Jobs BY <1>6, <1>7, <1>8 DEF Jobs
<1>10. /\ n.kind = "switchback" /\ n.slot = db.slot /\ n.target = Other(db.slot)
       /\ n.todo = {} /\ n.result = "none" /\ n.before = Now
      BY <1>5 DEF NewJob
<1>11. /\ j.kind = "switchback" /\ j.slot = db.slot /\ j.target = Other(db.slot)
       /\ j.art = compose[Other(db.slot)] /\ j.route = prevCaddy /\ j.oldCaddy = caddy
       /\ j.needsCaddy = TRUE /\ j.todo = {} /\ j.result = "none" /\ j.before = Now
      BY <1>6, <1>7, <1>10 DEF Jobs
<1>12. job' = [job EXCEPT ![p] = j] BY <1>5, <1>7 DEF StartSwitchback
<1>13. job'[p] = j /\ Reaches(p, "config") /\ JobTyped(p) BY <1>1, <1>9, <1>12, Begun
<1>14. db.slot # "base" /\ compose[Other(db.slot)] # Nil
       BY <1>3 DEF SlotToReturnTo, ActiveSlot
<1>15. PlanInv(p)' BY <1>2, <1>3, <1>11, <1>13, <1>14 DEF PlanInv
<1>16. OperationInv(p)' BY <1>1, <1>9, <1>11, <1>13, <1>15, FirstStep DEF Changes, Replaces
<1> QED BY <1>11, <1>13, <1>16

\* A restart or stop starts with nothing to undo.
LEMMA StartControlStep ==
    ASSUME TypeOK, NEW p \in Procs, NEW action \in {"restart", "stop"}, StartControl(p, action)
    PROVE  /\ OperationInv(p)' /\ JobTyped(p) /\ job'[p].before = Now /\ pc'[p] = "command"
           /\ job'[p].kind = action /\ job'[p].slot = db.slot
<1>1. PICK n : n = NewJob(action, db.slot, db.slot) OBVIOUS
<1>2. n \in Jobs BY <1>1, NewJobTyped, RowSlot DEF StartControl, Kinds
<1>3. /\ n.kind = action /\ n.slot = db.slot /\ n.todo = {} /\ n.result = "none"
      /\ n.before = Now
      BY <1>1 DEF NewJob
<1>4. job'[p] = n /\ Reaches(p, "command") /\ JobTyped(p)
      BY <1>1, <1>2, Begun DEF StartControl, Steps
<1> QED BY <1>3, <1>4 DEF OperationInv, ShapeInv, RemovedInv, StepsOf, Switch, Changes, Replaces

\* A deletion starts with everything to remove.
LEMMA StartDeleteStep ==
    ASSUME TypeOK, NEW p \in Procs, StartDelete(p)
    PROVE  /\ OperationInv(p)' /\ JobTyped(p) /\ job'[p].before = Now
           /\ job'[p].kind = "delete" /\ job'[p].route = Nil
           /\ pc'[p] \in {"down", "cy_preserve", "remove"}
           /\ pc'[p] = "remove" \/ (pc'[p] = "down" /\ ~job'[p].needsCaddy) => caddy = Nil
           /\ job'[p].slot = ActiveSlot /\ (compose[ActiveSlot] # Nil => pc'[p] = "down")
<1>1. PICK n : n = NewJob("delete", ActiveSlot, ActiveSlot) OBVIOUS
<1>2. n \in Jobs BY <1>1, NewJobTyped, RowSlot DEF Kinds
<1>3. PICK needs \in BOOLEAN : needs = (caddy # Nil) OBVIOUS
<1>4. PICK j : j = [n EXCEPT !.needsCaddy = needs, !.todo = Removals] OBVIOUS
<1>5. j \in Jobs BY <1>2, <1>3, <1>4, Orders DEF Jobs
<1>6. n.kind = "delete" /\ n.result = "none" /\ n.before = Now /\ n.route = Nil
      /\ n.slot = ActiveSlot
      BY <1>1 DEF NewJob
<1>7. /\ j.kind = "delete" /\ j.result = "none" /\ j.before = Now /\ j.slot = ActiveSlot
      /\ j.needsCaddy = needs /\ j.todo = Removals /\ j.route = Nil
      BY <1>2, <1>4, <1>6 DEF Jobs
<1>8. job' = [job EXCEPT ![p] = j] BY <1>1, <1>3, <1>4 DEF StartDelete
<1>9. job'[p] = j /\ JobTyped(p)
      /\ Reaches(p, IF compose[ActiveSlot] # Nil THEN "down"
                    ELSE IF caddy # Nil THEN "cy_preserve" ELSE "remove")
      BY <1>5, <1>8, Begun DEF StartDelete, Steps
<1>10. ShapeInv(p)' BY <1>3, <1>7, <1>9 DEF ShapeInv, StepsOf, Switch
<1>11. RemovedInv(p)' BY <1>7, <1>9, Orders DEF RemovedInv, Switch
<1>12. /\ pc'[p] \in {"down", "cy_preserve", "remove"}
       /\ pc'[p] = "remove" \/ (pc'[p] = "down" /\ ~job'[p].needsCaddy) => caddy = Nil
      BY <1>3, <1>7, <1>9
<1> QED BY <1>7, <1>9, <1>10, <1>11, <1>12 DEF OperationInv, Changes, Replaces

-----------------------------------------------------------------------------
(* Types, whatever other processes do.                                       *)

WorldTyped ==
    /\ compose \in [Slots -> MaybeArtifact]
    /\ {prevCompose, caddy, prevCaddy, live} \subseteq MaybeArtifact
    /\ imported \in BOOLEAN
    /\ docker \in [Slots -> Containers \cup {Nil}]
    /\ db \in Deployments \cup {Nil}
    /\ cancelled \subseteq Procs
    /\ budget \in Budgets
LocalTyped ==
    /\ pc \in [Procs -> Steps] /\ job \in [Procs -> Jobs \cup {Nil}]
    /\ \A p \in Procs : pc[p] # "idle" => job[p] # Nil /\ FinalInv(p)

\* The types are those of the shared world and those of the processes.
LEMMA TypeParts == TypeInv <=> WorldTyped /\ LocalTyped
    BY DEF TypeInv, TypeOK, WorldTyped, LocalTyped

\* An operation that goes on to a step that needs nothing in particular.
Usual(p) ==
    \/ \E l \in Steps \ {"ports", "finalize"} : Goto(p, l) /\ UNCHANGED job
    \/ \E r \in Results : Finish(p, r)
    \/ \E todo \in TodoSets, r \in Results : FailsAfter(p, todo, r)

\* A step of one process leaves the local variables of the others alone.
LEMMA LocalStep ==
    ASSUME TypeInv, NEW p \in Procs, NEW l \in Steps, Goto(p, l), JobTyped(p), FinalInv(p)'
    PROVE  LocalTyped'
<1>1. pc' = [pc EXCEPT ![p] = l] /\ pc \in [Procs -> Steps]
      BY DEF Goto, TypeInv, TypeOK
<1>2. ASSUME NEW q \in Procs, q # p, pc'[q] # "idle" PROVE job'[q] # Nil /\ FinalInv(q)'
  <2>1. pc'[q] = pc[q] /\ job'[q] = job[q] BY <1>1, <1>2 DEF JobTyped
  <2> QED BY <1>2, <2>1 DEF TypeInv, TypeOK, FinalInv
<1> QED BY <1>1, <1>2 DEF LocalTyped, JobTyped

\* A usual step keeps the types of the local variables.
LEMMA UsualTypes ==
    ASSUME TypeInv, NEW p \in Procs, pc[p] # "idle", Usual(p)
    PROVE  LocalTyped'
<1>1. TypeOK /\ Typed(p) /\ FinalInv(p) BY Busy DEF TypeInv, Typed
<1>2. \E l \in Steps \ {"ports", "finalize"} :
          Goto(p, l) /\ Same(p) /\ job'[p].art = job[p].art
  <2>1. {"done", "undo"} \subseteq Steps \ {"ports", "finalize"} BY DEF Steps
  <2>2. CASE \E l \in Steps \ {"ports", "finalize"} : Goto(p, l) /\ UNCHANGED job
        BY <1>1, <2>2, Stays
  <2>3. ASSUME NEW r \in Results, Finish(p, r)
        PROVE  Goto(p, "done") /\ Same(p) /\ job'[p].art = job[p].art
        BY <1>1, <2>3, Ends DEF Finish
  <2>4. ASSUME NEW todo \in TodoSets, NEW r \in Results, FailsAfter(p, todo, r)
        PROVE  /\ Goto(p, "done") \/ Goto(p, "undo")
               /\ Same(p) /\ job'[p].art = job[p].art
    <3>1. Same(p) /\ job'[p].art = job[p].art BY <1>1, <2>4, FailureErrs
    <3>2. Goto(p, "done") \/ Goto(p, "undo") BY <2>4 DEF FailsAfter
    <3> QED BY <3>1, <3>2
  <2>5. CASE \E r \in Results : Finish(p, r) BY <2>1, <2>3, <2>5
  <2>6. CASE \E todo \in TodoSets, r \in Results : FailsAfter(p, todo, r)
        BY <2>1, <2>4, <2>6
  <2> QED BY <2>2, <2>5, <2>6 DEF Usual
<1>3. PICK l \in Steps \ {"ports", "finalize"} :
          Goto(p, l) /\ Same(p) /\ job'[p].art = job[p].art
      BY <1>2
<1>4. pc'[p] = l BY <1>1, <1>3, Moves
<1>5. FinalInv(p)' BY <1>1, <1>3, <1>4 DEF FinalInv
<1> QED BY <1>3, <1>5, LocalStep

\* The failures, and the steps of the error paths, are usual steps.
LEMMA UsualErrors ==
    ASSUME TypeOK, NEW p \in Procs, pc[p] # "idle",
           \/ \E at : FailsAt(p, at)
           \/ \E restores \in SUBSET {"snippet", "import", "reload"} : CaddyFails(p, restores)
           \/ \E step : Proceed(p, step) \/ ProceedBroken(p, step)
    PROVE  Usual(p)
<1>1. job[p] \in Jobs BY Busy
<1>2. job[p].todo \in TodoSets /\ job[p].result \in Results BY <1>1 DEF Jobs, TodoSets
<1>3. {"failed", "broken"} \subseteq Results BY DEF Results
<1>4. CASE \E at : FailsAt(p, at)
      BY <1>3, <1>4, CompensationTyped DEF FailsAt, Usual
<1>5. ASSUME NEW restores \in SUBSET {"snippet", "import", "reload"}, CaddyFails(p, restores)
      PROVE  Usual(p)
  <2>1. restores \cup Compensation(job[p], "caddy") \in TodoSets
        BY CompensationTyped, Orders DEF TodoSets
  <2> QED BY <1>3, <1>5, <2>1 DEF CaddyFails, Usual
<1>6. ASSUME NEW step, Proceed(p, step) \/ ProceedBroken(p, step)
      PROVE  Usual(p)
  <2>1. /\ job[p].todo \ {step} \in TodoSets
        /\ job[p].todo \ ({step} \cup NeedsFile(step)) \in TodoSets
        BY <1>2 DEF TodoSets
  <2> QED BY <1>2, <1>3, <1>6, <2>1 DEF Proceed, ProceedBroken, Usual
<1> QED BY <1>4, <1>5, <1>6

\* A docker command leaves containers or none.
LEMMA DockerTypes ==
    ASSUME TypeOK, NEW s \in Slots,
           \/ compose[s] # Nil /\ DockerUp(s)
           \/ DockerUpFails(s) \/ DockerDown(s) \/ DockerDownFails(s)
    PROVE  docker' \in [Slots -> Containers \cup {Nil}]
<1>1. ASSUME compose[s] # Nil, NEW st \in {"up", "unhealthy"}
      PROVE  Started(s, st) \subseteq Containers
  <2>1. compose[s] \in Artifacts BY <1>1 DEF TypeOK, MaybeArtifact
  <2>2. ASSUME NEW port \in Publishable(s, compose[s].port)
        PROVE  [st |-> st, m |-> compose[s].m, port |-> port, pub |-> compose[s].port]
                   \in Containers
    <3>1. IF compose[s].port = "dynamic" THEN port \in DynPorts ELSE port = compose[s].port
          BY <2>2 DEF Publishable
    <3>2. port \in Ports /\ compose[s].port \in Ports /\ compose[s].m \in Manifests
          BY <2>1, <3>1 DEF Ports, Artifacts
    <3> QED BY <1>1, <3>1, <3>2 DEF Containers
  <2> QED BY <2>2 DEF Started
<1>2. docker \in [Slots -> Containers \cup {Nil}] BY DEF TypeOK
<1>3. UpDebris(s) \subseteq Containers \cup {Nil} BY <1>1, <1>2 DEF UpDebris
<1>4. \E c \in Containers \cup {Nil} : docker' = [docker EXCEPT ![s] = c]
      BY <1>1, <1>2, <1>3 DEF DockerUp, DockerUpFails, DockerDown, DockerDownFails
<1> QED BY <1>2, <1>4

\* Types, after the previous artifact was saved.
LEMMA PreserveTypes ==
    ASSUME TypeInv, NEW p \in Procs, Preserve(p)
    PROVE  TypeInv'
<1>1. pc[p] = "preserve" /\ TypeOK /\ job[p] \in Jobs /\ FinalInv(p)
      BY Busy DEF Preserve, At, TypeInv
<1>2. job[p].slot \in Slots /\ job[p].target \in Slots /\ job[p].snap \in MaybeArtifact
      BY <1>1 DEF Jobs
<1>3. compose[job[p].slot] \in MaybeArtifact /\ compose[job[p].target] \in MaybeArtifact
      BY <1>1, <1>2 DEF TypeOK
<1>4. "write" \in Steps \ {"ports", "finalize"} BY DEF Steps
<1>5. LocalTyped'
  <2>1. CASE job' = [job EXCEPT ![p].snap = compose[job[p].target]] /\ Goto(p, "write")
    <3>1. Same(p) /\ job'[p].art = job[p].art BY <1>1, <1>3, <2>1, UpdateSnap
    <3>2. pc'[p] = "write" BY <1>1, <2>1 DEF Goto, TypeOK
    <3>3. FinalInv(p)' BY <1>1, <3>1, <3>2 DEF FinalInv
    <3> QED BY <1>4, <2>1, <3>1, <3>3, LocalStep
  <2>2. CASE UNCHANGED job /\ Goto(p, "write") BY <1>1, <1>4, <2>2, UsualTypes DEF Usual
  <2>3. CASE FailsAt(p, "preserve") BY <1>1, <2>3, UsualTypes, UsualErrors
  <2> QED BY <2>1, <2>2, <2>3 DEF Preserve
<1>6. prevCompose' \in MaybeArtifact BY <1>1, <1>2, <1>3 DEF Preserve, TypeOK
<1>7. WorldTyped' BY <1>1, <1>6, BudgetKept DEF Preserve, TypeOK, WorldTyped
<1> QED BY <1>5, <1>7 DEF TypeInv, TypeOK, WorldTyped, LocalTyped

\* Types, after the artifact was written.
LEMMA WriteComposeTypes ==
    ASSUME TypeInv, NEW p \in Procs, WriteCompose(p)
    PROVE  TypeInv'
<1>1. pc[p] = "write" /\ TypeOK /\ job[p] \in Jobs
      BY Busy DEF WriteCompose, At, TypeInv
<1>2. job[p].target \in Slots /\ job[p].art \in MaybeArtifact BY <1>1 DEF Jobs
<1>3. "config" \in Steps \ {"ports", "finalize"} BY DEF Steps
<1>4. Usual(p) BY <1>1, <1>3, UsualErrors DEF WriteCompose, Usual
<1>5. compose' \in [Slots -> MaybeArtifact] BY <1>1, <1>2 DEF WriteCompose, TypeOK
<1>6. WorldTyped' BY <1>1, <1>5, BudgetKept DEF WriteCompose, TypeOK, WorldTyped
<1>7. LocalTyped' BY <1>1, <1>4, UsualTypes
<1> QED BY <1>6, <1>7 DEF TypeInv, TypeOK, WorldTyped, LocalTyped

\* Types, after it was validated.
LEMMA ValidateComposeTypes ==
    ASSUME TypeInv, NEW p \in Procs, ValidateCompose(p)
    PROVE  TypeInv'
<1>1. pc[p] = "config" /\ TypeOK BY DEF ValidateCompose, At, TypeInv
<1>2. "up" \in Steps \ {"ports", "finalize"} BY DEF Steps
<1>3. Usual(p) BY <1>1, <1>2, UsualErrors DEF ValidateCompose, Usual
<1>4. WorldTyped'
      BY <1>1, BudgetKept DEF ValidateCompose, TypeOK, WorldTyped, worldVars, fileVars
<1>5. LocalTyped' BY <1>1, <1>3, UsualTypes
<1> QED BY <1>4, <1>5 DEF TypeInv, TypeOK, WorldTyped, LocalTyped

\* Types, after the containers were started.
LEMMA UpContainersTypes ==
    ASSUME TypeInv, NEW p \in Procs, UpContainers(p)
    PROVE  TypeInv'
<1>1. pc[p] = "up" /\ TypeOK /\ Typed(p) /\ FinalInv(p)
      BY Busy DEF UpContainers, At, TypeInv, Typed
<1>2. job[p].target \in Slots BY <1>1 DEF Typed, Jobs
<1>3. LocalTyped'
  <2>1. CASE job[p].kind = "bluegreen" /\ Goto(p, "ports") /\ UNCHANGED job
    <3>1. "ports" \in Steps /\ pc'[p] = "ports" BY <1>1, <2>1, Moves DEF Steps
    <3>2. Same(p) /\ job' = job BY <1>1, <2>1, Stays
    <3>3. FinalInv(p)' BY <1>1, <2>1, <3>1, <3>2 DEF FinalInv
    <3> QED BY <2>1, <3>1, <3>2, <3>3, LocalStep
  <2>2. CASE job[p].kind # "bluegreen" /\ Goto(p, AfterUp(p)) /\ UNCHANGED job
    <3>1. AfterUp(p) \in Steps \ {"ports", "finalize"} BY DEF AfterUp, Steps
    <3> QED BY <1>1, <2>2, <3>1, UsualTypes DEF Usual
  <2>3. CASE FailsAt(p, "up") BY <1>1, <2>3, UsualTypes, UsualErrors
  <2> QED BY <2>1, <2>2, <2>3 DEF UpContainers
<1>4. docker' \in [Slots -> Containers \cup {Nil}]
      BY <1>1, <1>2, DockerTypes DEF UpContainers, UpRefused
<1>5. WorldTyped' BY <1>1, <1>4, BudgetKept DEF UpContainers, TypeOK, WorldTyped, fileVars
<1> QED BY <1>3, <1>5 DEF TypeInv, TypeOK, WorldTyped, LocalTyped

\* Types, after the port was resolved: the route is one.
LEMMA ResolvePortsTypes ==
    ASSUME TypeInv, NEW p \in Procs, ResolvePorts(p)
    PROVE  TypeInv'
<1>1. pc[p] = "ports" /\ TypeOK /\ Typed(p) /\ FinalInv(p)
      BY Busy DEF ResolvePorts, At, TypeInv, Typed
<1>2. LocalTyped'
  <2>1. CASE /\ docker[job[p].target] # Nil /\ Goto(p, "finalize")
             /\ job' = [job EXCEPT ![p].route = RouteOf(job[p].art.m, docker[job[p].target].port)]
    <3>1. PICK route : route = RouteOf(job[p].art.m, docker[job[p].target].port) OBVIOUS
    <3>2. docker[job[p].target].port \in Ports
          BY <1>1, <2>1 DEF TypeOK, Typed, Jobs, Containers
    <3>3. job[p].art.m \in Routed /\ Routed \subseteq Manifests
          BY <1>1, ManifestsAssumption DEF FinalInv
    <3>4. route \in Artifacts BY <3>1, <3>2, <3>3 DEF RouteOf, Artifacts
    <3>5. route \in MaybeArtifact /\ route # Nil BY <3>4, NilAssumption DEF MaybeArtifact
    <3>6. Same(p) /\ job'[p].art = job[p].art /\ job'[p].route = route
          BY <1>1, <2>1, <3>1, <3>5, UpdateRoute
    <3>7. "finalize" \in Steps /\ pc'[p] = "finalize" BY <1>1, <2>1, Moves DEF Steps
    <3>8. FinalInv(p)' BY <1>1, <3>5, <3>6, <3>7 DEF FinalInv
    <3> QED BY <2>1, <3>6, <3>7, <3>8, LocalStep
  <2>2. CASE FailsAt(p, "ports") BY <1>1, <2>2, UsualTypes, UsualErrors
  <2> QED BY <2>1, <2>2 DEF ResolvePorts
<1>3. WorldTyped'
      BY <1>1, BudgetKept DEF ResolvePorts, TypeOK, WorldTyped, worldVars, fileVars
<1> QED BY <1>2, <1>3 DEF TypeInv, TypeOK, WorldTyped, LocalTyped

\* Types, after the artifact was completed.
LEMMA FinalizeTypes ==
    ASSUME TypeInv, NEW p \in Procs, Finalize(p)
    PROVE  TypeInv'
<1>1. pc[p] = "finalize" /\ TypeOK /\ Typed(p) /\ FinalInv(p)
      BY Busy DEF Finalize, At, TypeInv, Typed
<1>2. job[p].target \in Slots BY <1>1 DEF Typed, Jobs
<1>3. PICK final : final = ComposeOf(job[p].art.m, job[p].route.port) OBVIOUS
<1>4. job[p].art \in Artifacts /\ job[p].route \in Artifacts
      BY <1>1 DEF Typed, Jobs, MaybeArtifact, FinalInv
<1>5. final \in Artifacts /\ final.m = job[p].art.m
      BY <1>3, <1>4 DEF ComposeOf, Artifacts, Ports
<1>6. final \in MaybeArtifact /\ final # Nil BY <1>5, NilAssumption DEF MaybeArtifact
<1>7. caddy \in MaybeArtifact BY <1>1 DEF TypeOK
<1>8. LocalTyped'
  <2>1. CASE job' = [job EXCEPT ![p].art = final, ![p].oldCaddy = caddy] /\ Goto(p, "cy_preserve")
    <3>1. Same(p) /\ job'[p].art = final BY <1>1, <1>6, <1>7, <2>1, UpdateArt
    <3>2. "cy_preserve" \in Steps /\ pc'[p] = "cy_preserve" BY <1>1, <2>1, Moves DEF Steps
    <3>3. FinalInv(p)' BY <1>1, <1>5, <1>6, <3>1, <3>2 DEF FinalInv
    <3> QED BY <2>1, <3>1, <3>2, <3>3, LocalStep
  <2>2. CASE FailsAt(p, "finalize") BY <1>1, <2>2, UsualTypes, UsualErrors
  <2> QED BY <1>3, <2>1, <2>2 DEF Finalize
<1>9. compose' \in [Slots -> MaybeArtifact]
      BY <1>1, <1>2, <1>3, <1>6 DEF Finalize, TypeOK
<1>10. WorldTyped' BY <1>1, <1>9, BudgetKept DEF Finalize, TypeOK, WorldTyped
<1> QED BY <1>8, <1>10 DEF TypeInv, TypeOK, WorldTyped, LocalTyped

\* Types, after a step of applyCaddy.
LEMMA CaddyTypes ==
    ASSUME TypeInv, NEW p \in Procs, ApplyCaddy(p)
    PROVE  TypeInv'
<1>1. pc[p] \in Switch /\ TypeOK /\ Typed(p) /\ FinalInv(p) /\ pc[p] # "idle"
  <2>1. pc[p] \in Switch
        BY DEF ApplyCaddy, CaddyPreserve, CaddyWrite, CaddyImport, CaddyValidate, CaddyReload,
           At, Switch
  <2>2. pc[p] # "idle" BY <2>1 DEF Switch
  <2> QED BY <2>1, <2>2, Busy DEF TypeInv, Typed
<1>2. {"cy_write", "cy_import", "cy_validate", "cy_reload", "remove", "put"}
          \subseteq Steps \ {"ports", "finalize"}
      BY DEF Steps
<1>3. /\ caddy \in MaybeArtifact /\ imported \in BOOLEAN
      /\ job[p].route \in MaybeArtifact /\ Nil \in MaybeArtifact
      BY <1>1 DEF TypeOK, Typed, Jobs, MaybeArtifact
<1>4. LocalTyped'
  <2>1. CASE job' = [job EXCEPT ![p].cSnap = caddy, ![p].iSnap = imported] /\ Goto(p, "cy_write")
    <3>1. Same(p) /\ job'[p].art = job[p].art /\ job'[p].route = job[p].route
          BY <1>1, <1>3, <2>1, UpdateSnaps
    <3>2. pc'[p] = "cy_write" BY <1>1, <1>2, <2>1, Moves
    <3>3. FinalInv(p)' BY <1>1, <3>1, <3>2 DEF FinalInv
    <3> QED BY <1>2, <2>1, <3>1, <3>3, LocalStep
  <2>2. CASE \E l \in {"cy_import", "cy_validate", "cy_reload", "remove", "put"} :
                 Goto(p, l) /\ UNCHANGED job
        BY <1>1, <1>2, <2>2, UsualTypes DEF Usual
  <2>3. CASE \E restores \in SUBSET {"snippet", "import", "reload"} : CaddyFails(p, restores)
        BY <1>1, <2>3, UsualTypes, UsualErrors
  <2>4. ApplyCaddy(p) => \/ job' = [job EXCEPT ![p].cSnap = caddy, ![p].iSnap = imported]
                            /\ Goto(p, "cy_write")
                         \/ \E l \in {"cy_import", "cy_validate", "cy_reload", "remove", "put"} :
                                Goto(p, l) /\ UNCHANGED job
                         \/ \E restores \in SUBSET {"snippet", "import", "reload"} :
                                CaddyFails(p, restores)
        BY DEF ApplyCaddy, CaddyPreserve, CaddyWrite, CaddyImport, CaddyValidate, CaddyReload,
           Switched
  <2> QED BY <2>1, <2>2, <2>3, <2>4
<1>5. budget' \in Budgets
      BY <1>1, BudgetKept DEF ApplyCaddy, CaddyPreserve, CaddyWrite, CaddyImport, CaddyValidate,
         CaddyReload
<1>6. /\ caddy' \in MaybeArtifact /\ imported' \in BOOLEAN
      /\ prevCaddy' \in MaybeArtifact /\ live' \in MaybeArtifact
      BY <1>1, <1>3 DEF ApplyCaddy, CaddyPreserve, CaddyWrite, CaddyImport, CaddyValidate,
         CaddyReload, TypeOK, worldVars, fileVars, Reload, ReloadFails
<1>7. UNCHANGED <<compose, prevCompose, docker, db, cancelled>>
      BY DEF ApplyCaddy, CaddyPreserve, CaddyWrite, CaddyImport, CaddyValidate, CaddyReload,
         worldVars, fileVars
<1>8. WorldTyped' BY <1>1, <1>5, <1>6, <1>7 DEF TypeOK, WorldTyped
<1> QED BY <1>4, <1>8 DEF TypeInv, TypeOK, WorldTyped, LocalTyped

\* Types, after the row was written.
LEMMA PutDeploymentTypes ==
    ASSUME TypeInv, NEW p \in Procs, PutDeployment(p)
    PROVE  TypeInv'
<1>1. pc[p] = "put" /\ TypeOK /\ Typed(p) BY Busy DEF PutDeployment, At, TypeInv, Typed
<1>2. /\ "drain" \in Steps \ {"ports", "finalize"}
      /\ {"ok", "failed", "unrecorded"} \subseteq Results
      BY DEF Steps, Results
<1>3. Usual(p) BY <1>2, CompensationTyped DEF PutDeployment, Usual
<1>4. db' \in Deployments \cup {Nil}
  <2>1. [status |-> "running", slot |-> job[p].target,
         revision |-> <<job[p].art, job[p].route>>] \in Deployments
        BY <1>1 DEF Typed, Jobs, Deployments
  <2>2. db \in Deployments \cup {Nil} BY <1>1 DEF TypeOK
  <2> QED BY <2>1, <2>2 DEF PutDeployment
<1>5. WorldTyped' BY <1>1, <1>4, BudgetKept DEF PutDeployment, TypeOK, WorldTyped, fileVars
<1>6. LocalTyped' BY <1>1, <1>3, UsualTypes
<1> QED BY <1>5, <1>6 DEF TypeInv, TypeOK, WorldTyped, LocalTyped

\* Types, after the previous slot was drained.
LEMMA DrainTypes ==
    ASSUME TypeInv, NEW p \in Procs, Drain(p)
    PROVE  TypeInv'
<1>1. pc[p] = "drain" /\ TypeOK /\ Typed(p) BY Busy DEF Drain, At, TypeInv, Typed
<1>2. Usual(p) BY DEF Drain, Usual, Results
<1>3. docker' \in [Slots -> Containers \cup {Nil}]
      BY <1>1, DockerTypes DEF Drain, Typed, Jobs
<1>4. WorldTyped' BY <1>1, <1>3, BudgetKept DEF Drain, TypeOK, WorldTyped, fileVars
<1>5. LocalTyped' BY <1>1, <1>2, UsualTypes
<1> QED BY <1>4, <1>5 DEF TypeInv, TypeOK, WorldTyped, LocalTyped

\* Types, after a step of an error path.
LEMMA UndoTypes ==
    ASSUME TypeInv, NEW p \in Procs, Undo(p)
    PROVE  TypeInv'
<1> USE DEF Undo, UndoCompose, UndoPrevious, UndoCaddy, UndoWriteFails, UndoUp, UndoDown,
       UndoReload
<1>1. pc[p] = "undo" /\ TypeOK /\ Typed(p) BY Busy DEF Undoing, At, TypeInv, Typed
<1>2. Usual(p) BY <1>1, UsualErrors
<1>3. /\ job[p].target \in Slots /\ job[p].iSnap \in BOOLEAN
      /\ {job[p].snap, job[p].art, job[p].route, job[p].cSnap, job[p].oldCaddy, Nil}
             \subseteq MaybeArtifact
      BY <1>1 DEF Typed, Jobs, MaybeArtifact
<1>4. docker' \in [Slots -> Containers \cup {Nil}]
      BY <1>1, <1>3, DockerTypes DEF TypeOK, UpRefused, worldVars
<1>5. budget' \in Budgets
      BY <1>1, BudgetKept
<1>6. compose' \in [Slots -> MaybeArtifact]
      BY <1>1, <1>3 DEF TypeOK, fileVars, worldVars
<1>7. /\ {prevCompose', caddy', prevCaddy', live'} \subseteq MaybeArtifact
      /\ imported' \in BOOLEAN /\ UNCHANGED <<db, cancelled>>
      BY <1>1, <1>3 DEF TypeOK, fileVars, worldVars, Reload, ReloadFails
<1>8. WorldTyped' BY <1>1, <1>4, <1>5, <1>6, <1>7 DEF TypeOK, WorldTyped
<1>9. LocalTyped' BY <1>1, <1>2, UsualTypes
<1> QED BY <1>8, <1>9 DEF TypeInv, TypeOK, WorldTyped, LocalTyped

\* What may become of the containers of a slot by a restart or stop.
LEMMA ControlChanges ==
    ASSUME TypeOK, NEW p \in Procs, job[p].slot \in Slots, ControlContainers(p)
    PROVE  \E c \in Containers \cup {Nil} :
              /\ docker' = [docker EXCEPT ![job[p].slot] = c]
              /\ \/ budget' = [budget EXCEPT !.moved = budget.moved
                                    \/ (c # Nil /\ c.port # docker[job[p].slot].port)]
                 \/ UNCHANGED budget \/ WriteFails
<1> DEFINE s == job[p].slot
<1> DEFINE halted == [docker[s] EXCEPT !.st = "stopped"]
<1>1. docker[s] # Nil => Restarted(s) \cup {docker[s], halted} \subseteq Containers
  <2> SUFFICES ASSUME docker[s] # Nil
               PROVE  Restarted(s) \cup {docker[s], halted} \subseteq Containers
      OBVIOUS
  <2>1. PICK c \in Containers : c = docker[s] BY DEF TypeOK
  <2>2. halted \in Containers
    <3>1. [c EXCEPT !.st = "stopped"] \in Containers BY DEF Containers
    <3> QED BY <2>1, <3>1
  <2>3. ASSUME NEW d \in Restarted(s) PROVE d \in Containers
    <3>1. PICK port \in Publishable(s, c.pub) : d = [c EXCEPT !.st = "up", !.port = port]
          BY <2>1 DEF Restarted
    <3>2. IF c.pub = "dynamic" THEN port \in DynPorts ELSE port = c.pub
          BY <3>1 DEF Publishable
    <3>3. port \in Ports BY <3>2 DEF Ports, Containers
    <3> QED BY <3>1, <3>2, <3>3 DEF Containers
  <2> HIDE DEF halted
  <2> QED BY <2>1, <2>2, <2>3
<1> DEFINE after == IF docker[s] = Nil THEN {Nil}
                    ELSE IF job[p].kind = "stop" THEN {halted}
                    ELSE Restarted(s)
<1> DEFINE half == IF docker[s] = Nil THEN {Nil} ELSE {docker[s], halted} \cup after
<1>2. /\ after \subseteq Containers \cup {Nil} /\ half \subseteq Containers \cup {Nil}
  <2> HIDE DEF halted
  <2>1. CASE docker[s] = Nil BY <2>1
  <2>2. CASE docker[s] # Nil /\ job[p].kind = "stop" BY <1>1, <2>2
  <2>3. CASE docker[s] # Nil /\ job[p].kind # "stop" BY <1>1, <2>3, SMTT(30)
  <2> QED BY <2>1, <2>2, <2>3
<1>3. \/ \E c \in after :
            /\ docker' = [docker EXCEPT ![s] = c]
            /\ budget' = [budget EXCEPT !.moved =
                             budget.moved \/ (c # Nil /\ c.port # docker[s].port)]
      \/ /\ \E c \in half : docker' = [docker EXCEPT ![s] = c]
         /\ Breaks(p, compose[s] = Nil \/ after = {})
      BY DEF ControlContainers
<1>4. Breaks(p, compose[s] = Nil \/ after = {}) => UNCHANGED budget \/ WriteFails
      BY DEF Breaks
<1> HIDE DEF after, half
<1> QED BY <1>2, <1>3, <1>4

\* And of the budget.
LEMMA ControlBudget ==
    ASSUME TypeOK, NEW p \in Procs, job[p].slot \in Slots, ControlContainers(p)
    PROVE  /\ budget' \in Budgets
           /\ \/ /\ budget' = [budget EXCEPT !.moved = budget'.moved]
                 /\ budget.moved => budget'.moved
              \/ WriteFails
<1>1. PICK b \in Budgets : b = budget BY DEF TypeOK
<1>2. \/ \E moved \in BOOLEAN : budget' = [b EXCEPT !.moved = b.moved \/ moved]
      \/ UNCHANGED budget \/ WriteFails
      BY <1>1, ControlChanges
<1>3. CASE \E moved \in BOOLEAN : budget' = [b EXCEPT !.moved = b.moved \/ moved]
  <2>1. PICK moved \in BOOLEAN : budget' = [b EXCEPT !.moved = b.moved \/ moved] BY <1>3
  <2>2. (b.moved \/ moved) \in BOOLEAN /\ budget'.moved = (b.moved \/ moved) BY <2>1 DEF Budgets
  <2> QED BY <1>1, <2>1, <2>2 DEF Budgets
<1>4. CASE UNCHANGED budget BY <1>1, <1>4 DEF Budgets
<1>5. CASE WriteFails BY <1>5, BudgetKept
<1> QED BY <1>2, <1>3, <1>4, <1>5

\* Types, after a step of a restart or stop.
LEMMA ControlTypes ==
    ASSUME TypeInv, NEW p \in Procs, Controlling(p)
    PROVE  TypeInv'
<1>1. pc[p] \in {"command", "record"} /\ TypeOK /\ Typed(p)
      BY Busy DEF Controlling, ControlContainers, RecordStatus, At, TypeInv, Typed
<1>2. "record" \in Steps \ {"ports", "finalize"} BY DEF Steps
<1>3. Usual(p) BY <1>2 DEF Controlling, ControlContainers, RecordStatus, Usual, Results
<1>4. job[p].slot \in Slots BY <1>1 DEF Typed, Jobs
<1>5. docker' \in [Slots -> Containers \cup {Nil}] /\ budget' \in Budgets
  <2>1. CASE ControlContainers(p)
    <3>1. docker \in [Slots -> Containers \cup {Nil}] BY <1>1 DEF TypeOK
    <3>2. budget' \in Budgets BY <1>1, <1>4, <2>1, ControlBudget
    <3>3. PICK c \in Containers \cup {Nil} : docker' = [docker EXCEPT ![job[p].slot] = c]
          BY <1>1, <1>4, <2>1, ControlChanges
    <3> QED BY <3>1, <3>2, <3>3
  <2>2. CASE RecordStatus(p)
    <3>1. budget' \in Budgets BY <1>1, <2>2, BudgetKept DEF RecordStatus
    <3> QED BY <1>1, <2>2, <3>1 DEF TypeOK, RecordStatus
  <2> QED BY <2>1, <2>2 DEF Controlling
<1>6. db' \in Deployments \cup {Nil}
      BY <1>1 DEF Controlling, ControlContainers, RecordStatus, TypeOK, Deployments,
         StatusAfter
<1>7. WorldTyped'
      BY <1>1, <1>5, <1>6 DEF Controlling, ControlContainers, RecordStatus, TypeOK, WorldTyped,
         fileVars
<1>8. LocalTyped' BY <1>1, <1>3, UsualTypes
<1> QED BY <1>7, <1>8 DEF TypeInv, TypeOK, WorldTyped, LocalTyped

\* Types, after a file was removed.
LEMMA RemoveFileTypes ==
    ASSUME TypeInv, NEW p \in Procs, RemoveFile(p)
    PROVE  TypeInv'
<1>1. PICK what : Removing(p, what) BY DEF RemoveFile
<1>2. pc[p] = "remove" /\ TypeOK /\ Typed(p) /\ FinalInv(p)
      BY <1>1, Busy DEF Removing, At, TypeInv, Typed
<1>3. job[p].todo \ {what} \in TodoSets BY <1>2 DEF Typed, Jobs, TodoSets
<1>4. job' = [job EXCEPT ![p].todo = job[p].todo \ {what}]
      BY <1>1, <1>2 DEF Removing, Typed
<1>5. Same(p) /\ job'[p].art = job[p].art BY <1>2, <1>3, <1>4, UpdateTodo
<1>6. PICK l \in {"forget", "remove"} : Goto(p, l) BY <1>1 DEF Removing
<1>7. l \in Steps /\ pc'[p] = l BY <1>2, <1>6, Moves DEF Steps
<1>8. FinalInv(p)' BY <1>2, <1>5, <1>6, <1>7 DEF FinalInv
<1>9. LocalTyped' BY <1>5, <1>6, <1>7, <1>8, LocalStep
<1>10. Nil \in MaybeArtifact BY DEF MaybeArtifact
<1>11. /\ compose' \in [Slots -> MaybeArtifact]
       /\ {prevCompose', caddy', prevCaddy'} \subseteq MaybeArtifact
       BY <1>2, <1>10 DEF RemoveFile, TypeOK, Slots
<1>12. WorldTyped' BY <1>2, <1>11, BudgetKept DEF RemoveFile, TypeOK, WorldTyped
<1> QED BY <1>9, <1>12 DEF TypeInv, TypeOK, WorldTyped, LocalTyped

\* Types, after a step of a deletion.
LEMMA DeletingTypes ==
    ASSUME TypeInv, NEW p \in Procs, Deleting(p)
    PROVE  TypeInv'
<1>1. CASE RemoveFile(p) BY <1>1, RemoveFileTypes
<1>2. CASE DeleteContainers(p) \/ RemoveFails(p) \/ Forget(p)
  <2> USE <1>2 DEF DeleteContainers, RemoveFails, Forget
  <2>1. pc[p] \in {"down", "remove", "forget"} /\ TypeOK /\ Typed(p)
        BY Busy DEF At, TypeInv, Typed
  <2>2. {"cy_preserve", "remove"} \subseteq Steps \ {"ports", "finalize"} BY DEF Steps
  <2>3. Usual(p) BY <2>2 DEF Usual, Results
  <2>4. docker' \in [Slots -> Containers \cup {Nil}]
        BY <2>1, DockerTypes DEF TypeOK, Typed, Jobs, worldVars
  <2>5. budget' \in Budgets
        BY <2>1, BudgetKept
  <2>6. WorldTyped' BY <2>1, <2>4, <2>5 DEF TypeOK, WorldTyped, worldVars, fileVars
  <2>7. LocalTyped' BY <2>1, <2>3, UsualTypes
  <2> QED BY <2>6, <2>7 DEF TypeInv, TypeOK, WorldTyped, LocalTyped
<1> QED BY <1>1, <1>2 DEF Deleting

\* Types, after an operation has started.
LEMMA StartTypes ==
    ASSUME TypeInv, NEW p \in Procs, Start(p)
    PROVE  TypeInv'
<1>1. TypeOK BY DEF TypeInv
<1>2. JobTyped(p) /\ FinalInv(p)' /\ \E l \in Steps : Goto(p, l)
  <2>1. ASSUME NEW m \in Manifests, StartDeploy(p, m)
        PROVE  JobTyped(p) /\ FinalInv(p)' /\ \E l \in Steps : Goto(p, l)
    <3>1. JobTyped(p) /\ OperationInv(p)' BY <1>1, <2>1, StartDeployStep
    <3>2. Goto(p, "preserve") /\ "preserve" \in Steps BY <2>1 DEF StartDeploy, Steps
    <3>3. pc'[p] = "preserve" BY <1>1, <3>2 DEF Goto, TypeOK
    <3>4. FinalInv(p)'
          BY <3>1, <3>3 DEF OperationInv, ChangeInv, PlanInv, FinalInv, Changes, Replaces
    <3> QED BY <3>1, <3>2, <3>4
  <2>2. CASE StartRollback(p) \/ StartSwitchback(p)
    <3>1. JobTyped(p) /\ OperationInv(p)' BY <1>1, <2>2, StartRollbackStep, StartSwitchbackStep
    <3>2. PICK l \in {"preserve", "config"} : Goto(p, l)
          BY <2>2 DEF StartRollback, StartSwitchback
    <3>3. pc'[p] = l /\ l \in Steps BY <1>1, <3>2 DEF Goto, TypeOK, Steps
    <3>4. FinalInv(p)'
          BY <3>1, <3>2, <3>3 DEF OperationInv, ChangeInv, PlanInv, FinalInv, Changes, Replaces
    <3> QED BY <3>1, <3>2, <3>3, <3>4
  <2>3. ASSUME NEW action \in {"restart", "stop"}, StartControl(p, action)
        PROVE  JobTyped(p) /\ FinalInv(p)' /\ \E l \in Steps : Goto(p, l)
    <3>1. JobTyped(p) /\ OperationInv(p)' BY <1>1, <2>3, StartControlStep
    <3>2. Goto(p, "command") /\ "command" \in Steps BY <2>3 DEF StartControl, Steps
    <3>3. pc'[p] = "command" BY <1>1, <3>2 DEF Goto, TypeOK
    <3>4. FinalInv(p)'
          BY <3>1, <3>3 DEF OperationInv, ChangeInv, PlanInv, FinalInv, Changes, Replaces
    <3> QED BY <3>1, <3>2, <3>4
  <2>4. CASE StartDelete(p)
    <3>1. JobTyped(p) /\ OperationInv(p)' BY <1>1, <2>4, StartDeleteStep
    <3>2. PICK l \in {"down", "cy_preserve", "remove"} : Goto(p, l) BY <2>4 DEF StartDelete
    <3>3. pc'[p] = l /\ l \in Steps BY <1>1, <3>2 DEF Goto, TypeOK, Steps
    <3>4. FinalInv(p)'
          BY <3>1, <3>2, <3>3 DEF OperationInv, ChangeInv, PlanInv, FinalInv, Changes, Replaces
    <3> QED BY <3>1, <3>2, <3>3, <3>4
  <2> QED BY <2>1, <2>2, <2>3, <2>4 DEF Start
<1>3. LocalTyped' BY <1>2, LocalStep
<1>4. UNCHANGED <<worldVars, cancelled, budget>>
      BY DEF Start, StartDeploy, StartRollback, StartSwitchback, StartControl, StartDelete
<1>5. WorldTyped' BY <1>1, <1>4 DEF TypeOK, WorldTyped, worldVars, fileVars
<1> QED BY <1>3, <1>5 DEF TypeInv, TypeOK, WorldTyped, LocalTyped

\* Types, after an operation has returned, crashed or been cancelled.
LEMMA LeaveTypes ==
    ASSUME TypeInv, NEW p \in Procs, Return(p) \/ Crash(p) \/ Cancel(p)
    PROVE  TypeInv'
<1>1. TypeOK BY DEF TypeInv
<1>2. PICK b \in Budgets : b = budget
      BY <1>1 DEF TypeOK
<1>3. MaxFaults \in Nat /\ MaxCrashes \in Nat /\ MaxCancels \in Nat BY BoundsAssumption
<1>4. budget' \in Budgets
  <2>1. CASE UNCHANGED budget BY <1>2, <2>1
  <2>2. CASE b.crashes > 0 /\ budget' = [b EXCEPT !.crashes = @ - 1]
        BY <1>2, <1>3, <2>2 DEF Budgets
  <2>3. CASE b.cancels > 0 /\ budget' = [b EXCEPT !.cancels = @ - 1]
        BY <1>2, <1>3, <2>3 DEF Budgets
  <2> QED BY <1>2, <2>1, <2>2, <2>3 DEF Return, Crash, Cancel
<1>5. UNCHANGED worldVars /\ cancelled' \subseteq Procs
      BY <1>1 DEF Return, Crash, Cancel, Leave, TypeOK
<1>6. WorldTyped' BY <1>1, <1>4, <1>5 DEF TypeOK, WorldTyped, worldVars, fileVars
<1>7. LocalTyped'
  <2>1. CASE UNCHANGED <<pc, job>> BY <2>1 DEF TypeInv, TypeOK, LocalTyped, FinalInv
  <2>2. CASE Leave(p)
    <3>1. pc' = [pc EXCEPT ![p] = "idle"] /\ job' = [job EXCEPT ![p] = Nil]
          BY <2>2 DEF Leave, Goto
    <3>2. pc' \in [Procs -> Steps] /\ job' \in [Procs -> Jobs \cup {Nil}] /\ pc'[p] = "idle"
          BY <1>1, <3>1 DEF TypeOK, Steps
    <3>3. ASSUME NEW q \in Procs, pc'[q] # "idle" PROVE job'[q] # Nil /\ FinalInv(q)'
      <4>1. pc'[q] = pc[q] /\ job'[q] = job[q] BY <1>1, <3>1, <3>2, <3>3 DEF TypeOK
      <4> QED BY <3>3, <4>1 DEF TypeInv, TypeOK, FinalInv
    <3> QED BY <3>2, <3>3 DEF LocalTyped
  <2> QED BY <2>1, <2>2 DEF Return, Crash, Cancel
<1> QED BY <1>6, <1>7 DEF TypeInv, TypeOK, WorldTyped, LocalTyped

\* The types are an invariant, with any number of processes.
THEOREM TypeInvariance == Spec => []TypeInv
<1>1. Init => TypeInv
  <2> SUFFICES ASSUME Init PROVE TypeInv OBVIOUS
  <2>1. Nil \in MaybeArtifact BY DEF MaybeArtifact
  <2>2. MaxFaults \in Nat /\ MaxCrashes \in Nat /\ MaxCancels \in Nat BY BoundsAssumption
  <2>3. budget \in Budgets BY <2>2 DEF Init, Budgets, FullBudget
  <2>4. pc = [p \in Procs |-> "idle"] /\ job = [p \in Procs |-> Nil] /\ "idle" \in Steps
        BY DEF Init, Steps
  <2> QED BY <2>1, <2>3, <2>4 DEF Init, TypeInv, TypeOK
<1>2. TypeInv /\ [Next]_vars => TypeInv'
  <2> SUFFICES ASSUME TypeInv, [Next]_vars PROVE TypeInv' OBVIOUS
  <2>1. ASSUME NEW p \in Procs, Deploying(p) PROVE TypeInv'
        BY <2>1, PreserveTypes, WriteComposeTypes, ValidateComposeTypes, UpContainersTypes,
           ResolvePortsTypes, FinalizeTypes, PutDeploymentTypes, DrainTypes DEF Deploying
  <2>2. ASSUME NEW p \in Procs, Step(p) PROVE TypeInv'
    <3>1. CASE Start(p) \/ Deploying(p) \/ ApplyCaddy(p)
          BY <3>1, StartTypes, <2>1, CaddyTypes
    <3>2. CASE Undo(p) \/ Controlling(p) \/ Deleting(p) \/ Return(p)
          BY <3>2, UndoTypes, ControlTypes, DeletingTypes, LeaveTypes
    <3> QED BY <2>2, <3>1, <3>2 DEF Step
  <2>3. CASE Next BY <2>2, <2>3, LeaveTypes DEF Next
  <2>4. CASE UNCHANGED vars
        BY <2>4 DEF vars, TypeInv, TypeOK, FinalInv
  <2> QED BY <2>3, <2>4
<1> QED BY <1>1, <1>2, PTL DEF Spec

\* Every variable keeps its type, whatever fails, crashes and interleaves.
THEOREM Types == Spec => []TypeOK
<1>1. TypeInv => TypeOK BY DEF TypeInv
<1> QED BY <1>1, TypeInvariance, PTL

-----------------------------------------------------------------------------
(* The invariant of a project on which operations do not overlap.            *)

OneAtATime == \A p, q \in Procs : p = q

\* Every step of an operation keeps its invariant, and what it found.
LEMMA OperationStep ==
    ASSUME LifecycleInv, NEW p \in Procs, pc[p] # "idle",
           Deploying(p) \/ ApplyCaddy(p) \/ Undo(p) \/ Controlling(p) \/ Deleting(p)
    PROVE  OperationInv(p)' /\ Same(p)
<1>1. CASE Deploying(p)
      BY <1>1, PreserveStep, WriteComposeStep, ValidateComposeStep, UpContainersStep,
         ResolvePortsStep, FinalizeStep, PutDeploymentStep, DrainStep DEF Deploying
<1>2. CASE ApplyCaddy(p)
      BY <1>2, CaddyPreserveStep, CaddyWriteStep, CaddyImportStep, CaddyValidateStep,
         CaddyReloadStep DEF ApplyCaddy
<1>3. CASE Undo(p)
      BY <1>3, UndoComposeStep, UndoPreviousStep, UndoCaddyStep, UndoWriteFailsStep,
         UndoUpStep, UndoDownStep, UndoReloadStep DEF Undo
<1>4. CASE Controlling(p) BY <1>4, ControlContainersStep, RecordStatusStep DEF Controlling
<1>5. CASE Deleting(p)
      BY <1>5, DeleteContainersStep, RemoveFileStep, RemoveFailsStep, ForgetStep DEF Deleting
<1> QED BY <1>1, <1>2, <1>3, <1>4, <1>5

\* Such a step is none of an idle process.
LEMMA StepsBusy ==
    ASSUME NEW p \in Procs,
           Deploying(p) \/ ApplyCaddy(p) \/ Undo(p) \/ Controlling(p) \/ Deleting(p)
    PROVE  pc[p] # "idle"
<1>1. CASE Deploying(p)
      BY <1>1 DEF Deploying, Preserve, WriteCompose, ValidateCompose, UpContainers,
         ResolvePorts, Finalize, PutDeployment, Drain, At
<1>2. CASE ApplyCaddy(p)
      BY <1>2 DEF ApplyCaddy, CaddyPreserve, CaddyWrite, CaddyImport, CaddyValidate,
         CaddyReload, At
<1>3. CASE Undo(p)
      BY <1>3 DEF Undo, UndoCompose, UndoPrevious, UndoCaddy, UndoWriteFails, UndoUp,
         UndoDown, UndoReload, Undoing, At
<1>4. CASE Controlling(p) BY <1>4 DEF Controlling, ControlContainers, RecordStatus, At
<1>5. CASE Deleting(p)
      BY <1>5 DEF Deleting, DeleteContainers, RemoveFile, RemoveFails, Forget, Removing, At
<1> QED BY <1>1, <1>2, <1>3, <1>4, <1>5

\* The operations that change the deployment keep an artifact in the recorded layout:
\* they find one there, and write one.
LEMMA ChangeKeepsRecorded ==
    ASSUME TypeOK', NEW p \in Procs, pc'[p] # "idle", OperationInv(p)', job'[p].kind \in Changes,
           job'[p].before.db # Nil => job'[p].before.compose[job'[p].before.db.slot] # Nil
    PROVE  RecordedArtifactExists'
<1>1. job'[p] \in Jobs BY DEF TypeOK
<1>2. PlanInv(p)' /\ RowInv(p)' /\ ComposeInv(p)' BY DEF OperationInv, ChangeInv
<1>3. job'[p].art # Nil BY <1>1, <1>2 DEF PlanInv, Jobs, Kinds, Changes, Replaces
<1>4. CASE Recorded(p)'
  <2>1. db'.slot = job'[p].target BY <1>2, <1>4 DEF RowInv
  <2>2. compose'[job'[p].target] # Nil
        BY <1>2, <1>3, <1>4 DEF ComposeInv, PlanInv, Changes, Replaces
  <2> QED BY <2>1, <2>2 DEF RecordedArtifactExists
<1>5. CASE ~Recorded(p)'
  <2>1. db' = job'[p].before.db BY <1>2, <1>5 DEF RowInv
  <2>2. ASSUME db' # Nil PROVE compose'[db'.slot] # Nil
    <3>1. db'.slot \in Slots BY <2>2 DEF TypeOK, Deployments
    <3>2. job'[p].before.compose[db'.slot] # Nil BY <2>1, <2>2
    <3>3. CASE db'.slot = job'[p].target BY <1>2, <1>3, <3>2, <3>3 DEF ComposeInv
    <3>4. CASE db'.slot # job'[p].target BY <1>2, <3>1, <3>2, <3>4 DEF ComposeInv
    <3> QED BY <3>3, <3>4
  <2> QED BY <2>2 DEF RecordedArtifactExists
<1> QED BY <1>4, <1>5

\* A restart or a stop changes no more of the row than its status.
LEMMA ControlKeepsRecorded ==
    ASSUME TypeOK, NEW p \in Procs, Controlling(p), RecordedArtifactExists
    PROVE  RecordedArtifactExists'
<1>1. compose' = compose BY DEF Controlling, ControlContainers, RecordStatus, fileVars
<1>2. db' # Nil => db # Nil /\ db'.slot = db.slot
  <2>1. CASE db' = db /\ db # Nil BY <2>1
  <2>2. CASE db # Nil /\ db' = [db EXCEPT !.status = StatusAfter(job[p].kind)]
    <3>1. db \in Deployments BY <2>2 DEF TypeOK
    <3> QED BY <2>2, <3>1 DEF Deployments
  <2>3. CASE db' = db /\ db = Nil BY <2>3
  <2> QED BY <2>1, <2>2, <2>3 DEF Controlling, ControlContainers, RecordStatus
<1> QED BY <1>1, <1>2 DEF RecordedArtifactExists

\* Every step of an operation keeps the artifact of the recorded layout.
LEMMA RecordedStep ==
    ASSUME LifecycleInv, TypeOK', OneAtATime, NEW p \in Procs,
           Deploying(p) \/ ApplyCaddy(p) \/ Undo(p) \/ Controlling(p) \/ Deleting(p)
    PROVE  RecordedInv'
<1> SUFFICES ASSUME "delete" \notin Ops PROVE RecordedInv' BY DEF RecordedInv
<1>1. pc[p] # "idle" BY StepsBusy
<1>2. OperationInv(p)' /\ Same(p) BY <1>1, OperationStep
<1>3. /\ TypeOK /\ Typed(p) /\ ShapeInv(p) /\ RecordedArtifactExists
      /\ job[p].kind # "delete"
      /\ job[p].before.db # Nil => job[p].before.compose[job[p].before.db.slot] # Nil
      BY <1>1, Working DEF LifecycleInv, RecordedInv
<1>4. /\ job'[p].kind = job[p].kind /\ job'[p].before = job[p].before BY <1>2
<1>5. \A q \in Procs : q = p BY DEF OneAtATime
<1>6. RecordedArtifactExists'
  <2>1. CASE job[p].kind \in Changes /\ pc'[p] # "idle"
        BY <1>2, <1>3, <1>4, <2>1, ChangeKeepsRecorded
  <2>2. CASE job[p].kind \in {"restart", "stop"}
    <3>1. pc[p] \in {"command", "record", "done"} BY <1>3, <2>2 DEF ShapeInv, StepsOf
    <3>2. Controlling(p)
          BY <3>1 DEF Deploying, Preserve, WriteCompose, ValidateCompose, UpContainers,
             ResolvePorts, Finalize, PutDeployment, Drain, ApplyCaddy, CaddyPreserve,
             CaddyWrite, CaddyImport, CaddyValidate, CaddyReload, Undo, UndoCompose,
             UndoPrevious, UndoCaddy, UndoWriteFails, UndoUp, UndoDown, UndoReload, Undoing,
             Deleting, DeleteContainers, RemoveFile, RemoveFails, Forget, Removing, At
    <3> QED BY <1>3, <3>2, ControlKeepsRecorded
  <2>3. pc'[p] # "idle" BY <1>2, <1>4 DEF OperationInv, ShapeInv, StepsOf, Switch
  <2> QED BY <1>3, <2>1, <2>2, <2>3 DEF Typed, Jobs, Kinds, Changes, Replaces
<1> QED BY <1>3, <1>4, <1>5, <1>6 DEF RecordedInv

\* A cancelled context changes neither the world nor what an operation knows.
LEMMA Untouched ==
    ASSUME NEW p \in Procs, UNCHANGED <<worldVars, pc, job>>, OperationInv(p)
    PROVE  OperationInv(p)'
<1> USE DEF worldVars, fileVars
<1>1. ShapeInv(p)' /\ RemovedInv(p)' BY DEF OperationInv, ShapeInv, RemovedInv
<1>2. ASSUME ChangeInv(p) PROVE ChangeInv(p)'
  <2>1. PlanInv(p)' /\ RowInv(p)' BY <1>2 DEF ChangeInv, PlanInv, RowInv
  <2>2. ComposeInv(p)' BY <1>2 DEF ChangeInv, ComposeInv
  <2>3. PreviousInv(p)' /\ PreviousRouteInv(p)'
        BY <1>2 DEF ChangeInv, PreviousInv, PreviousRouteInv
  <2>4. SnippetInv(p)' /\ ImportInv(p)' BY <1>2 DEF ChangeInv, SnippetInv, ImportInv
  <2>5. LiveInv(p)' BY <1>2 DEF ChangeInv, LiveInv
  <2>6. DockerInv(p)' BY <1>2 DEF ChangeInv, DockerInv
  <2> QED BY <2>1, <2>2, <2>3, <2>4, <2>5, <2>6 DEF ChangeInv
<1> QED BY <1>1, <1>2 DEF OperationInv

\* A step that changes neither world nor operations keeps the invariant.
LEMMA Unmoved ==
    ASSUME LifecycleInv, TypeOK', UNCHANGED <<worldVars, pc, job>>
    PROVE  LifecycleInv'
<1>1. \A p \in Procs : pc'[p] # "idle" => OperationInv(p)'
      BY Untouched DEF LifecycleInv
<1>2. RecordedInv'
      BY DEF LifecycleInv, RecordedInv, RecordedArtifactExists, worldVars, fileVars
<1> QED BY <1>1, <1>2 DEF LifecycleInv

\* The end or the death of the only operation keeps the invariant.
LEMMA Left ==
    ASSUME LifecycleInv, TypeOK', OneAtATime, NEW p \in Procs, Leave(p)
    PROVE  LifecycleInv'
<1>1. \A q \in Procs : q = p BY DEF OneAtATime
<1>2. pc'[p] = "idle" BY DEF Leave, Goto, LifecycleInv, TypeOK
<1>3. UNCHANGED <<compose, db>> BY DEF Leave, worldVars, fileVars
<1>4. RecordedInv'
      BY <1>1, <1>2, <1>3 DEF LifecycleInv, RecordedInv, RecordedArtifactExists
<1> QED BY <1>1, <1>2, <1>4 DEF LifecycleInv

\* The start of the only operation establishes its invariant.
LEMMA OperationStarts ==
    ASSUME LifecycleInv, TypeOK', OneAtATime, NEW p \in Procs, Start(p)
    PROVE  LifecycleInv'
<1>1. TypeOK BY DEF LifecycleInv
<1>2. /\ OperationInv(p)' /\ job'[p].before = Now
      /\ job'[p].kind = "delete" => "delete" \in Ops
      BY <1>1, StartDeployStep, StartRollbackStep, StartSwitchbackStep, StartControlStep,
         StartDeleteStep DEF Start, StartDelete
<1>3. UNCHANGED worldVars
      BY DEF Start, StartDeploy, StartRollback, StartSwitchback, StartControl, StartDelete
<1>4. \A q \in Procs : q = p BY DEF OneAtATime
<1>5. RecordedInv'
  <2>1. Now.db = db /\ Now.compose = compose BY <1>1, FoundWorld
  <2> QED BY <1>2, <1>3, <1>4, <2>1 DEF LifecycleInv, RecordedInv, RecordedArtifactExists,
             worldVars, fileVars
<1> QED BY <1>2, <1>4, <1>5 DEF LifecycleInv

\* Every step keeps the invariant of operations that do not overlap.
LEMMA LifecycleStep ==
    ASSUME LifecycleInv, TypeOK', OneAtATime, [Next]_vars
    PROVE  LifecycleInv'
<1>1. ASSUME NEW p \in Procs,
             Deploying(p) \/ ApplyCaddy(p) \/ Undo(p) \/ Controlling(p) \/ Deleting(p)
      PROVE  LifecycleInv'
  <2>1. OperationInv(p)' BY <1>1, OperationStep, StepsBusy
  <2>2. RecordedInv' BY <1>1, RecordedStep
  <2>3. \A q \in Procs : q = p BY DEF OneAtATime
  <2> QED BY <2>1, <2>2, <2>3 DEF LifecycleInv
<1>2. ASSUME NEW p \in Procs, Start(p) PROVE LifecycleInv' BY <1>2, OperationStarts
<1>3. ASSUME NEW p \in Procs, Return(p) \/ Crash(p) PROVE LifecycleInv'
      BY <1>3, Left DEF Return, Crash
<1>4. ASSUME NEW p \in Procs, Cancel(p) PROVE LifecycleInv'
      BY <1>4, Unmoved DEF Cancel
<1>5. CASE UNCHANGED vars
      BY <1>5, Unmoved DEF vars, worldVars, fileVars
<1> QED BY <1>1, <1>2, <1>3, <1>4, <1>5 DEF Next, Step

\* When operations do not overlap, each has changed of the world it found what its step
\* says, and its error path has a step for all of that.
THEOREM LifecycleInvariance == ASSUME OneAtATime PROVE Spec => []LifecycleInv
<1>1. Init /\ TypeInv => LifecycleInv
      BY DEF Init, TypeInv, LifecycleInv, RecordedInv, RecordedArtifactExists
<1>2. LifecycleInv /\ TypeInv' /\ [Next]_vars => LifecycleInv'
      BY LifecycleStep DEF TypeInv
<1> QED BY <1>1, <1>2, TypeInvariance, PTL DEF Spec

-----------------------------------------------------------------------------
(* What the operations promise.                                              *)

\* The facts about an operation that is about to return.
LEMMA AtTheEnd ==
    ASSUME LifecycleInv, NEW p \in Procs, NEW kinds, NEW results, Ended(p, kinds, results)
    PROVE  /\ TypeOK /\ Typed(p) /\ pc[p] = "done" /\ job[p].kind \in kinds
           /\ job[p].result \in results /\ ShapeInv(p) /\ RemovedInv(p)
           /\ job[p].kind \in Changes => ChangeInv(p)
<1>1. pc[p] = "done" /\ job[p].kind \in kinds /\ job[p].result \in results BY DEF Ended, At
<1> QED BY <1>1, Working

\* Two worlds with the same artifacts, or containers, in each slot.
LEMMA SameFiles ==
    ASSUME TypeOK, NEW p \in Procs, Typed(p), \A s \in Slots : compose[s] = job[p].before.compose[s]
    PROVE  compose = job[p].before.compose
<1>1. job[p].before \in World BY DEF Typed, Jobs
<1>2. job[p].before.compose \in [Slots -> MaybeArtifact] BY <1>1 DEF World
<1> QED BY <1>2 DEF TypeOK

\* A deployment that reports success runs, serves and has recorded what it generated.
LEMMA SuccessServes == LifecycleInv => DeploySuccessServes
<1> SUFFICES ASSUME LifecycleInv, NEW p \in Procs, Ended(p, {"inplace", "bluegreen"}, {"ok"})
             PROVE  LET j == job[p] IN
                    /\ db # Nil /\ db.status = "running" /\ db.slot = j.target
                    /\ compose[j.target] = j.art /\ Serving(j.target, j.art)
                    /\ docker[j.target].port = j.art.port
                    /\ j.art.m \in Routed => caddy = RouteOf(j.art.m, j.art.port) /\ live = caddy
                    /\ j.kind = "bluegreen" => docker[j.slot] = Nil
    BY DEF DeploySuccessServes
<1>1. /\ pc[p] = "done" /\ job[p].kind \in {"inplace", "bluegreen"} /\ job[p].result = "ok"
      /\ ChangeInv(p)
      BY AtTheEnd DEF Changes, Replaces
<1>2. db # Nil /\ db.status = "running" /\ db.slot = job[p].target
      BY <1>1 DEF ChangeInv, RowInv
<1>3. compose[job[p].target] = job[p].art BY <1>1 DEF ChangeInv, ComposeInv, Replaces
<1>4. Shown(docker[job[p].target], job[p].art) BY <1>1 DEF ChangeInv, DockerInv
<1>5. docker[job[p].target].port = job[p].art.port
      BY <1>1, <1>4 DEF ChangeInv, DockerInv, PlanInv, Shown
<1>6. job[p].art.m \in Routed =>
          /\ job[p].needsCaddy = TRUE
          /\ job[p].route = [m |-> job[p].art.m, port |-> job[p].art.port]
      BY <1>1 DEF ChangeInv, DockerInv, PlanInv, RouteOf
<1>7. job[p].art.m \in Routed => caddy = job[p].route /\ live = job[p].route
      BY <1>1, <1>6 DEF ChangeInv, SnippetInv, LiveInv, BeforeSwitch, Switch
<1>8. job[p].kind = "bluegreen" => docker[job[p].slot] = Nil BY <1>1 DEF ChangeInv, DockerInv
<1> QED BY <1>2, <1>3, <1>4, <1>5, <1>6, <1>7, <1>8 DEF Serving, Running, Shown, RouteOf

\* When Caddy served what its files said, a completed error path leaves the route it found.
LEMMA RouteRestored ==
    ASSUME LifecycleInv, NEW p \in Procs, Ended(p, Changes, {"failed"})
    PROVE  LET b == job[p].before IN
           /\ Typed(p) /\ TypeOK /\ ChangeInv(p) /\ job[p].todo = {} /\ pc[p] = "done"
           /\ caddy = b.caddy /\ db = b.db /\ (Settled(b) => live = b.live)
<1>1. /\ pc[p] = "done" /\ job[p].kind \in Changes /\ job[p].result = "failed"
      /\ ShapeInv(p) /\ ChangeInv(p) /\ TypeOK /\ Typed(p)
      BY AtTheEnd
<1>2. job[p].todo = {} BY <1>1 DEF ShapeInv, Changes, Replaces
<1>3. caddy = job[p].before.caddy BY <1>1, <1>2 DEF ChangeInv, SnippetInv
<1>4. db = job[p].before.db BY <1>1 DEF ChangeInv, RowInv
<1>5. Settled(job[p].before) => live = job[p].before.live
      BY <1>1, <1>2 DEF ChangeInv, LiveInv
<1> QED BY <1>1, <1>2, <1>3, <1>4, <1>5

\* A blue-green deployment that failed has left the active slot alone.
LEMMA ReplacementRestored == LifecycleInv => FailedReplacementLeavesActive
<1> SUFFICES ASSUME LifecycleInv, NEW p \in Procs, Ended(p, {"bluegreen"}, {"failed"})
             PROVE  LET b == job[p].before IN
                    /\ docker \in {b.docker, [b.docker EXCEPT ![job[p].target] = Nil]}
                    /\ compose = b.compose /\ caddy = b.caddy /\ db = b.db
                    /\ Settled(b) => live = b.live
    BY DEF FailedReplacementLeavesActive
<1>1. Ended(p, Changes, {"failed"}) /\ job[p].kind = "bluegreen" /\ job[p].result = "failed"
      BY DEF Ended, Changes, Replaces
<1>2. LET b == job[p].before IN
      /\ Typed(p) /\ TypeOK /\ ChangeInv(p) /\ job[p].todo = {} /\ pc[p] = "done"
      /\ caddy = b.caddy /\ db = b.db /\ (Settled(b) => live = b.live)
      BY <1>1, RouteRestored
<1>3. job[p].target \in Slots /\ job[p].before \in World BY <1>2 DEF Typed, Jobs
<1>4. \A s \in Slots : compose[s] = job[p].before.compose[s]
      BY <1>1, <1>2, <1>3 DEF ChangeInv, ComposeInv
<1>5. compose = job[p].before.compose BY <1>2, <1>4, SameFiles
<1>6. /\ \A s \in Slots \ {job[p].target} : docker[s] = job[p].before.docker[s]
      /\ docker[job[p].target] \in {job[p].before.docker[job[p].target], Nil}
      BY <1>1, <1>2 DEF ChangeInv, DockerInv, Restarts
<1>7. /\ docker \in [Slots -> Containers \cup {Nil}]
      /\ job[p].before.docker \in [Slots -> Containers \cup {Nil}]
      BY <1>2, <1>3 DEF TypeOK, World
<1>8. docker \in {job[p].before.docker, [job[p].before.docker EXCEPT ![job[p].target] = Nil]}
      BY <1>3, <1>6, <1>7
<1> QED BY <1>2, <1>5, <1>8

\* A replacement in place that failed has restored the artifact and its containers.
LEMMA ArtifactRestored == LifecycleInv => FailedDeployRestoresArtifact
<1> SUFFICES ASSUME LifecycleInv, NEW p \in Procs, Ended(p, {"inplace"}, {"failed"})
             PROVE  LET b == job[p].before IN
                    /\ compose = b.compose /\ caddy = b.caddy /\ db = b.db
                    /\ Settled(b) => live = b.live
                    /\ b.compose["base"] = Nil => docker["base"] \in {b.docker["base"], Nil}
                    /\ docker # b.docker /\ docker["base"] # Nil =>
                           Serving("base", b.compose["base"])
    BY DEF FailedDeployRestoresArtifact
<1>1. Ended(p, Changes, {"failed"}) /\ job[p].kind = "inplace" /\ job[p].result = "failed"
      BY DEF Ended, Changes, Replaces
<1>2. LET b == job[p].before IN
      /\ Typed(p) /\ TypeOK /\ ChangeInv(p) /\ job[p].todo = {} /\ pc[p] = "done"
      /\ caddy = b.caddy /\ db = b.db /\ (Settled(b) => live = b.live)
      BY <1>1, RouteRestored
<1>3. job[p].target = "base" BY <1>1, <1>2 DEF ChangeInv, PlanInv
<1>4. job[p].before \in World BY <1>2 DEF Typed, Jobs
<1>5. \A s \in Slots : compose[s] = job[p].before.compose[s]
      BY <1>1, <1>2, <1>3 DEF ChangeInv, ComposeInv
<1>6. compose = job[p].before.compose BY <1>2, <1>5, SameFiles
<1>7. /\ \A s \in Slots \ {"base"} : docker[s] = job[p].before.docker[s]
      /\ IF job[p].before.compose["base"] # Nil
         THEN \/ docker["base"] = job[p].before.docker["base"]
              \/ Shown(docker["base"], job[p].before.compose["base"])
         ELSE docker["base"] \in {job[p].before.docker["base"], Nil}
      BY <1>1, <1>2, <1>3 DEF ChangeInv, DockerInv, Restarts
<1>8. /\ docker \in [Slots -> Containers \cup {Nil}]
      /\ job[p].before.docker \in [Slots -> Containers \cup {Nil}]
      BY <1>2, <1>4 DEF TypeOK, World
<1>9. docker["base"] = job[p].before.docker["base"] => docker = job[p].before.docker
      BY <1>7, <1>8
<1> QED BY <1>2, <1>6, <1>7, <1>9 DEF Serving, Running, Shown

\* A rollback in place that failed has restored both pairs and the containers.
LEMMA RollbackRestored == LifecycleInv => FailedRollbackRestores
<1> SUFFICES ASSUME LifecycleInv, NEW p \in Procs, Ended(p, {"rollback"}, {"failed"})
             PROVE  LET b == job[p].before
                        s == job[p].slot IN
                    /\ compose = b.compose /\ prevCompose = b.prevCompose
                    /\ caddy = b.caddy /\ prevCaddy = b.prevCaddy /\ db = b.db
                    /\ Settled(b) => live = b.live
                    /\ docker[s] # b.docker[s] => Serving(s, b.compose[s])
    BY DEF FailedRollbackRestores
<1>1. Ended(p, Changes, {"failed"}) /\ job[p].kind = "rollback" /\ job[p].result = "failed"
      BY DEF Ended, Changes, Replaces
<1>2. LET b == job[p].before IN
      /\ Typed(p) /\ TypeOK /\ ChangeInv(p) /\ job[p].todo = {} /\ pc[p] = "done"
      /\ caddy = b.caddy /\ db = b.db /\ (Settled(b) => live = b.live)
      BY <1>1, RouteRestored
<1>3. job[p].target = job[p].slot /\ job[p].target \in Slots
      BY <1>1, <1>2 DEF ChangeInv, PlanInv, Typed, Jobs
<1>4. \A s \in Slots : compose[s] = job[p].before.compose[s]
      BY <1>1, <1>2 DEF ChangeInv, ComposeInv
<1>5. compose = job[p].before.compose BY <1>2, <1>4, SameFiles
<1>6. prevCompose = job[p].before.prevCompose BY <1>1, <1>2 DEF ChangeInv, PreviousInv
<1>7. prevCaddy = job[p].before.prevCaddy BY <1>1, <1>2 DEF ChangeInv, PreviousRouteInv
<1>8. \/ docker[job[p].target] = job[p].before.docker[job[p].target]
      \/ Shown(docker[job[p].target], job[p].before.compose[job[p].target])
      BY <1>1, <1>2 DEF ChangeInv, DockerInv, Restarts
<1> QED BY <1>2, <1>3, <1>5, <1>6, <1>7, <1>8 DEF Serving, Running, Shown

\* A rollback that succeeded has exchanged the pairs.
LEMMA PairsExchanged == LifecycleInv => RollbackExchangesPairs
<1> SUFFICES ASSUME LifecycleInv, NEW p \in Procs, Ended(p, {"rollback", "switchback"}, {"ok"})
             PROVE  LET b == job[p].before IN
                    CurrentPair(Now) = PreviousPair(b) /\ PreviousPair(Now) = CurrentPair(b)
    BY DEF RollbackExchangesPairs
<1>1. /\ pc[p] = "done" /\ job[p].kind \in {"rollback", "switchback"} /\ job[p].result = "ok"
      /\ ChangeInv(p) /\ TypeOK /\ Typed(p)
      BY AtTheEnd DEF Changes, Replaces
<1>2. /\ Now.compose = compose /\ Now.prevCompose = prevCompose /\ Now.caddy = caddy
      /\ Now.prevCaddy = prevCaddy /\ Now.db = db
      BY <1>1, FoundWorld
<1>3. db.slot = job[p].target /\ job[p].target \in Slots /\ job[p].slot \in Slots
      BY <1>1 DEF ChangeInv, RowInv, Typed, Jobs
<1>4. PlanInv(p) BY <1>1 DEF ChangeInv
<1>5. CASE job[p].kind = "rollback"
  <2>1. compose[job[p].target] = job[p].art /\ prevCompose = job[p].before.compose[job[p].target]
        BY <1>1, <1>5 DEF ChangeInv, ComposeInv, PreviousInv, Replaces
  <2>2. job[p].target # "base" => compose[Other(job[p].target)] = Nil
    <3>1. job[p].target # "base" => /\ Other(job[p].target) \in Slots \ {job[p].target}
                                    /\ job[p].before.compose[Other(job[p].target)] = Nil
          BY <1>3, <1>4, <1>5 DEF PlanInv, Slots, Other
    <3> QED BY <1>1, <3>1 DEF ChangeInv, ComposeInv
  <2>3. caddy = job[p].before.prevCaddy /\ prevCaddy = job[p].before.caddy
    <3>1. /\ caddy = IF job[p].needsCaddy THEN job[p].route ELSE job[p].before.caddy
          /\ prevCaddy = IF job[p].needsCaddy THEN job[p].before.caddy ELSE job[p].before.prevCaddy
          BY <1>1, <1>5 DEF ChangeInv, SnippetInv, PreviousRouteInv, BeforeSwitch, Switch
    <3> QED BY <1>4, <1>5, <3>1 DEF PlanInv
  <2> QED BY <1>2, <1>3, <1>4, <1>5, <2>1, <2>2, <2>3 DEF CurrentPair, PreviousPair, PlanInv
<1>6. CASE job[p].kind = "switchback"
  <2>1. /\ job[p].slot \in {"a", "b"} /\ job[p].target = Other(job[p].slot)
        /\ job[p].target \in {"a", "b"} /\ Other(job[p].target) = job[p].slot
        BY <1>3, <1>4, <1>6 DEF PlanInv, Slots, Other
  <2>2. /\ compose[job[p].target] = job[p].before.compose[job[p].target]
        /\ compose[job[p].slot] = job[p].before.compose[job[p].slot]
        BY <1>1, <1>3, <1>6, <2>1 DEF ChangeInv, ComposeInv, Replaces, Other
  <2>3. caddy = job[p].before.prevCaddy /\ prevCaddy = job[p].before.caddy
        BY <1>1, <1>4, <1>6 DEF ChangeInv, SnippetInv, PreviousRouteInv, BeforeSwitch, Switch,
           PlanInv
  <2> QED BY <1>2, <1>3, <1>4, <1>6, <2>1, <2>2, <2>3 DEF CurrentPair, PreviousPair, PlanInv
<1> QED BY <1>1, <1>5, <1>6

\* A deletion that succeeded has removed everything.
LEMMA NothingLeft == LifecycleInv => DeleteLeavesNoState
<1> SUFFICES ASSUME LifecycleInv, NEW p \in Procs, Ended(p, {"delete"}, {"ok"})
             PROVE  /\ db = Nil /\ compose = [s \in Slots |-> Nil]
                    /\ {prevCompose, caddy, prevCaddy} = {Nil}
    BY DEF DeleteLeavesNoState
<1>1. /\ pc[p] = "done" /\ job[p].kind = "delete" /\ job[p].result = "ok" /\ RemovedInv(p)
      /\ TypeOK
      BY AtTheEnd
<1>2. job[p].todo = {} BY <1>1 DEF RemovedInv
<1>3. /\ compose["base"] = Nil /\ compose["a"] = Nil /\ compose["b"] = Nil
      /\ prevCompose = Nil /\ caddy = Nil /\ prevCaddy = Nil /\ db = Nil
      BY <1>1, <1>2 DEF RemovedInv
<1>4. compose = [s \in Slots |-> Nil] BY <1>1, <1>3 DEF TypeOK, Slots
<1> QED BY <1>3, <1>4

\* A deployment that reports success serves what it generated, whatever failed,
\* crashed or was cancelled before.
THEOREM DeploymentServes == ASSUME OneAtATime PROVE Spec => []DeploySuccessServes
    BY LifecycleInvariance, SuccessServes, PTL

\* A blue-green deployment that fails leaves the active slot, its route and its row.
THEOREM FailedReplacement == ASSUME OneAtATime PROVE Spec => []FailedReplacementLeavesActive
    BY LifecycleInvariance, ReplacementRestored, PTL

\* A replacement in place that fails brings the previous artifact and containers back.
THEOREM FailedDeployment == ASSUME OneAtATime PROVE Spec => []FailedDeployRestoresArtifact
    BY LifecycleInvariance, ArtifactRestored, PTL

\* A rollback in place that fails puts both pairs of artifacts back.
THEOREM FailedRollback == ASSUME OneAtATime PROVE Spec => []FailedRollbackRestores
    BY LifecycleInvariance, RollbackRestored, PTL

\* A rollback that succeeds exchanges the current and the previous pair.
THEOREM RollbackExchanges == ASSUME OneAtATime PROVE Spec => []RollbackExchangesPairs
    BY LifecycleInvariance, PairsExchanged, PTL

\* A deletion that succeeds leaves nothing behind, however many attempts died before.
THEOREM DeletionIsComplete == ASSUME OneAtATime PROVE Spec => []DeleteLeavesNoState
    BY LifecycleInvariance, NothingLeft, PTL

\* Without deletions, the layout the row names always has its artifact.
THEOREM RecordedArtifact ==
    ASSUME OneAtATime, "delete" \notin Ops
    PROVE  Spec => []RecordedArtifactExists
<1>1. LifecycleInv => RecordedArtifactExists BY DEF LifecycleInv, RecordedInv
<1> QED BY <1>1, LifecycleInvariance, PTL

-----------------------------------------------------------------------------
(* Zero downtime.  It is a promise about one failure: a second one, or a     *)
(* context that is cancelled, may hit the error path itself.                 *)

OneFault == MaxFaults + MaxCrashes <= 1 /\ MaxCancels = 0

\* Nothing has failed yet, and Caddy serves what its files say.
Fresh == budget.faults = MaxFaults /\ budget.crashes = MaxCrashes
SettledNow == live = caddy /\ (caddy # Nil => imported)

\* A snippet has been written that Caddy does not serve yet.
Written == {"cy_import", "cy_validate", "cy_reload"}

\* As long as nothing has failed, the files are served whenever no switch is under way: an
\* error path, of a refused `up`, does not touch them, and a deletion finds none to remove.
FreshInv(p) ==
    LET j == job[p] IN
    /\ Settled(j.before)
    /\ pc[p] = "undo" => j.todo \subseteq {"down", "compose", "up", "previous"}
    /\ pc[p] \notin Written => SettledNow
    /\ j.kind = "delete" =>
          /\ j.route = Nil
          /\ pc[p] = "down" /\ ~j.needsCaddy => caddy = Nil
          /\ pc[p] \in Written \cup {"remove"} => caddy = Nil

\* The error path of a blue-green deployment: the live route is the one found, or still
\* leads to the replacement, whose containers are removed after the route is restored.
FailingInv(p) ==
    LET j == job[p] IN
    j.kind = "bluegreen" /\ pc[p] \in {"undo", "done"} /\ j.result \notin {"ok", "undrained"} =>
    /\ \/ live = j.before.live
       \/ /\ "reload" \in j.todo /\ live = j.route /\ live # Nil
          /\ docker[j.target] # Nil /\ docker[j.target].st = "up"
          /\ docker[j.target].port = j.route.port
    /\ "reload" \in j.todo => /\ ~Fresh /\ Settled(j.before)
                              /\ j.result = "failed" /\ pc[p] = "undo"

Serves(p) == (Fresh => FreshInv(p)) /\ FailingInv(p)

ServedInv ==
    /\ cancelled = {}
    /\ \A p \in Procs : job[p] # Nil => pc[p] # "idle"
    /\ Fresh /\ (\A p \in Procs : pc[p] = "idle") => SettledNow
    /\ \A p \in Procs : pc[p] # "idle" => Serves(p)

\* A step spends no more than the one failure.
LEMMA Spends ==
    ASSUME TypeOK, OneFault, cancelled = {}, NEW p \in Procs, NEW refused \in BOOLEAN
    PROVE  /\ WriteFails => Fresh /\ ~Fresh'
           /\ WriteDone \/ Runs(p) => (Fresh' <=> Fresh)
           /\ Breaks(p, refused) => \/ refused /\ (Fresh' <=> Fresh)
                                    \/ WriteFails /\ Fresh /\ ~Fresh'
<1>1. /\ budget \in Budgets
      /\ MaxFaults \in Nat /\ MaxCrashes \in Nat
      BY BoundsAssumption DEF TypeOK
<1>2. PICK b \in Budgets : b = budget
      BY <1>1
<1>3. b.faults \in 0..MaxFaults /\ b.crashes \in 0..MaxCrashes BY DEF Budgets
<1>4. ASSUME WriteFails PROVE Fresh /\ ~Fresh'
  <2>1. b.faults > 0 /\ budget' = [b EXCEPT !.faults = b.faults - 1] BY <1>2, <1>4 DEF WriteFails
  <2>2. budget'.faults = b.faults - 1 BY <2>1 DEF Budgets
  <2>3. MaxFaults = 1 /\ MaxCrashes = 0 /\ b.faults = 1 /\ b.crashes = 0
        BY <1>1, <1>3, <2>1 DEF OneFault
  <2> QED BY <1>2, <2>2, <2>3 DEF Fresh
<1>5. UNCHANGED budget => (Fresh' <=> Fresh) BY DEF Fresh
<1>6. Breaks(p, refused) => (refused /\ UNCHANGED budget) \/ WriteFails BY DEF Breaks
<1> QED BY <1>4, <1>5, <1>6 DEF WriteDone, Runs

\* A step that leaves the route alone, of an operation that is not a deletion.
LEMMA QuietStep ==
    ASSUME NEW p \in Procs, Serves(p), Same(p), job[p].kind # "delete",
           Fresh' => Fresh, UNCHANGED <<caddy, imported, live>>,
           pc[p] \notin Written, pc'[p] \notin Written,
           pc'[p] = "undo" /\ Fresh' =>
               job'[p].todo \subseteq {"down", "compose", "up", "previous"}
    PROVE  Fresh' => FreshInv(p)'
    BY DEF Serves, FreshInv, SettledNow

\* An operation that has not failed serves nothing else than the invariant says.
LEMMA Unfailing ==
    ASSUME NEW p \in Procs,
           \/ pc'[p] \notin {"undo", "done"} \/ job'[p].result \in {"ok", "undrained"}
           \/ job'[p].kind # "bluegreen"
    PROVE  FailingInv(p)'
    BY DEF FailingInv

\* A deployment that fails before it is recorded has the route that it found.
LEMMA EarlyFailure ==
    ASSUME LifecycleInv, NEW p \in Procs, pc[p] \in BeforeSwitch \cup Switch, live' = live,
           NEW todo \in TodoSets, Errs(p, todo, "failed"), "reload" \notin todo
    PROVE  FailingInv(p)'
<1> SUFFICES ASSUME job[p].kind = "bluegreen" PROVE FailingInv(p)' BY Unfailing
<1>1. LiveInv(p) BY Working DEF ChangeInv, Changes, Replaces, BeforeSwitch, Switch
<1>2. live = job[p].before.live BY <1>1 DEF LiveInv
<1> QED BY <1>2 DEF FailingInv

\* A deployment or a rollback that goes on, and has not come to the route.
LEMMA GoesOn ==
    ASSUME LifecycleInv, ServedInv, NEW p \in Procs, pc[p] # "idle", job[p].kind # "delete",
           Same(p), Fresh' => Fresh, UNCHANGED <<caddy, imported, live>>,
           pc[p] \notin Written, pc'[p] \notin Written \cup {"undo"},
           pc'[p] = "done" =>
               job'[p].result \in {"ok", "undrained"} \/ job'[p].kind # "bluegreen"
    PROVE  Serves(p)'
<1>1. Serves(p) BY DEF ServedInv
<1>2. Fresh' => FreshInv(p)' BY <1>1, QuietStep
<1>3. FailingInv(p)' BY Unfailing
<1> QED BY <1>2, <1>3 DEF Serves

\* One that fails before the route has nothing of the route to put back.
LEMMA FailsEarly ==
    ASSUME LifecycleInv, ServedInv, NEW p \in Procs, pc[p] \in BeforeSwitch \ {"down"},
           pc[p] \in {"preserve", "write", "config", "up", "ports", "finalize"},
           FailsAt(p, pc[p]), Fresh' => Fresh, UNCHANGED <<caddy, imported, live>>
    PROVE  Serves(p)'
<1>1. TypeOK /\ Typed(p) /\ job[p].kind # "delete"
      BY Working, KindOfStep DEF Changes, Replaces
<1>2. Errs(p, Compensation(job[p], pc[p]), "failed") BY <1>1, CompensationErrs
<1>3. Compensation(job[p], pc[p]) \subseteq {"down", "compose", "up", "previous"}
      BY DEF Compensation
<1>4. FailingInv(p)' BY <1>2, <1>3, EarlyFailure, CompensationTyped, ZenonT(40)
<1>5. Serves(p) /\ pc[p] \notin Written BY DEF ServedInv, Written
<1>6. pc'[p] \notin Written BY <1>2 DEF Written
<1>7. Fresh' => FreshInv(p)' BY <1>1, <1>2, <1>3, <1>5, <1>6, QuietStep
<1> QED BY <1>4, <1>7 DEF Serves

\* The steps up to the route leave Caddy and its files alone: Preserve.
LEMMA PreserveServes ==
    ASSUME LifecycleInv, OneFault, ServedInv, NEW p \in Procs, Preserve(p)
    PROVE  Serves(p)'
<1>1. /\ pc[p] = "preserve" /\ TypeOK /\ Typed(p) /\ job[p].kind # "delete"
      BY Working, KindOfStep DEF Preserve, At, Replaces
<1>2. Same(p) /\ UNCHANGED <<caddy, imported, live>> BY PreserveStep DEF Preserve
<1>3. (WriteDone \/ WriteFails) /\ (Fresh' => Fresh) BY Spends, <1>1 DEF Preserve, ServedInv
<1>4. CASE Goto(p, "write")
      BY <1>1, <1>2, <1>3, <1>4, Moves, GoesOn DEF Steps, Written
<1>5. CASE FailsAt(p, "preserve") BY <1>1, <1>2, <1>3, <1>5, FailsEarly DEF BeforeSwitch
<1> QED BY <1>4, <1>5 DEF Preserve

\* The artifact is written.
LEMMA WriteComposeServes ==
    ASSUME LifecycleInv, OneFault, ServedInv, NEW p \in Procs, WriteCompose(p)
    PROVE  Serves(p)'
<1>1. /\ pc[p] = "write" /\ TypeOK /\ Typed(p) /\ job[p].kind # "delete"
      BY Working, KindOfStep DEF WriteCompose, At, Replaces
<1>2. Same(p) /\ UNCHANGED <<caddy, imported, live>> BY WriteComposeStep DEF WriteCompose
<1>3. Fresh' => Fresh BY Spends, <1>1 DEF WriteCompose, ServedInv
<1>4. CASE Goto(p, "config")
      BY <1>1, <1>2, <1>3, <1>4, Moves, GoesOn DEF Steps, Written
<1>5. CASE FailsAt(p, "write") BY <1>1, <1>2, <1>3, <1>5, FailsEarly DEF BeforeSwitch
<1> QED BY <1>4, <1>5 DEF WriteCompose

\* The artifact is checked.
LEMMA ValidateComposeServes ==
    ASSUME LifecycleInv, OneFault, ServedInv, NEW p \in Procs, ValidateCompose(p)
    PROVE  Serves(p)'
<1>1. /\ pc[p] = "config" /\ TypeOK /\ Typed(p) /\ job[p].kind # "delete"
      BY Working, KindOfStep DEF ValidateCompose, At, Changes, Replaces
<1>2. Same(p) /\ UNCHANGED <<caddy, imported, live>>
      BY ValidateComposeStep DEF ValidateCompose, worldVars, fileVars
<1>3. Fresh' => Fresh BY Spends, <1>1 DEF ValidateCompose, ServedInv
<1>4. CASE Goto(p, "up") BY <1>1, <1>2, <1>3, <1>4, Moves, GoesOn DEF Steps, Written
<1>5. CASE FailsAt(p, "config") BY <1>1, <1>2, <1>3, <1>5, FailsEarly DEF BeforeSwitch
<1> QED BY <1>4, <1>5 DEF ValidateCompose

\* The containers come up; a refused `up` is no failure of the budget's.
LEMMA UpContainersServes ==
    ASSUME LifecycleInv, OneFault, ServedInv, NEW p \in Procs, UpContainers(p)
    PROVE  Serves(p)'
<1>1. /\ pc[p] = "up" /\ TypeOK /\ Typed(p) /\ job[p].kind # "delete"
      BY Working, KindOfStep DEF UpContainers, At, Changes, Replaces
<1>2. Same(p) /\ UNCHANGED <<caddy, imported, live>>
      BY UpContainersStep DEF UpContainers, fileVars
<1>3. UpRefused(job[p].target) \in BOOLEAN BY DEF UpRefused
<1>4. Fresh' => Fresh BY Spends, <1>1, <1>3 DEF UpContainers, ServedInv
<1>5. CASE Goto(p, IF job[p].kind = "bluegreen" THEN "ports" ELSE AfterUp(p))
      BY <1>1, <1>2, <1>4, <1>5, Moves, GoesOn DEF Steps, Written, AfterUp
<1>6. CASE FailsAt(p, "up") BY <1>1, <1>2, <1>4, <1>6, FailsEarly DEF BeforeSwitch
<1> QED BY <1>5, <1>6 DEF UpContainers

\* The port of the replacement is read.
LEMMA ResolvePortsServes ==
    ASSUME LifecycleInv, OneFault, ServedInv, NEW p \in Procs, ResolvePorts(p)
    PROVE  Serves(p)'
<1>1. /\ pc[p] = "ports" /\ TypeOK /\ Typed(p) /\ job[p].kind # "delete"
      BY Working, KindOfStep DEF ResolvePorts, At
<1>2. Same(p) /\ UNCHANGED <<caddy, imported, live>>
      BY ResolvePortsStep DEF ResolvePorts, worldVars, fileVars
<1>3. Fresh' => Fresh BY Spends, <1>1 DEF ResolvePorts, ServedInv
<1>4. CASE Goto(p, "finalize") BY <1>1, <1>2, <1>3, <1>4, Moves, GoesOn DEF Steps, Written
<1>5. CASE FailsAt(p, "ports") BY <1>1, <1>2, <1>3, <1>5, FailsEarly DEF BeforeSwitch
<1> QED BY <1>4, <1>5 DEF ResolvePorts

\* The artifact is completed with that port.
LEMMA FinalizeServes ==
    ASSUME LifecycleInv, OneFault, ServedInv, NEW p \in Procs, Finalize(p)
    PROVE  Serves(p)'
<1>1. /\ pc[p] = "finalize" /\ TypeOK /\ Typed(p) /\ job[p].kind # "delete"
      BY Working, KindOfStep DEF Finalize, At
<1>2. Same(p) /\ UNCHANGED <<caddy, imported, live>> BY FinalizeStep DEF Finalize
<1>3. Fresh' => Fresh BY Spends, <1>1 DEF Finalize, ServedInv
<1>4. CASE Goto(p, "cy_preserve")
      BY <1>1, <1>2, <1>3, <1>4, Moves, GoesOn DEF Steps, Written
<1>5. CASE FailsAt(p, "finalize") BY <1>1, <1>2, <1>3, <1>5, FailsEarly DEF BeforeSwitch
<1> QED BY <1>4, <1>5 DEF Finalize

\* A deployment that could not be recorded still serves the replacement.
LEMMA PutDeploymentServes ==
    ASSUME LifecycleInv, OneFault, ServedInv, NEW p \in Procs, PutDeployment(p)
    PROVE  Serves(p)'
<1>1. /\ pc[p] = "put" /\ TypeOK /\ Typed(p) /\ job[p].kind \in Changes
      /\ ChangeInv(p) /\ Serves(p) /\ cancelled = {}
      BY Working, KindOfStep DEF PutDeployment, At, Changes, Replaces, ServedInv
<1>2. /\ Same(p) /\ UNCHANGED <<caddy, imported, live, docker>> /\ job[p].kind # "delete"
      BY <1>1, PutDeploymentStep DEF PutDeployment, fileVars, Changes, Replaces
<1>3. CASE Runs(p)
           /\ IF job[p].kind \in {"bluegreen", "switchback"}
              THEN Goto(p, "drain") /\ UNCHANGED job ELSE Finish(p, "ok")
  <2>1. Fresh' => Fresh BY <1>1, <1>3, Spends
  <2>2. pc'[p] = "drain" \/ (pc'[p] = "done" /\ job'[p].result = "ok")
        BY <1>1, <1>3, Moves, Ends DEF Steps, Results
  <2> QED BY <1>1, <1>2, <2>1, <2>2, GoesOn DEF Written
<1>4. CASE Breaks(p, FALSE)
           /\ FailsAfter(p, Compensation(job[p], "put"),
                         IF job[p].kind \in {"bluegreen", "switchback"}
                         THEN "failed" ELSE "unrecorded")
  <2>1. Fresh /\ ~Fresh' BY <1>1, <1>4, Spends
  <2>2. ASSUME job[p].kind = "bluegreen" PROVE FailingInv(p)'
    <3>1. Errs(p, Compensation(job[p], "put"), "failed")
          BY <1>1, <1>4, <2>2, CompensationTyped, FailureErrs DEF Results
    <3>2. Compensation(job[p], "put") = {"route", "reload", "down", "compose"}
          BY <2>2 DEF Compensation
    <3>3. live = job[p].route
          BY <1>1, <2>2 DEF ChangeInv, LiveInv, PlanInv, BeforeSwitch, Switch
    <3>4. Shown(docker[job[p].target], job[p].art)
          /\ docker[job[p].target].port = job[p].route.port
          BY <1>1, <2>2 DEF ChangeInv, DockerInv
    <3>5. Settled(job[p].before) BY <1>1, <2>1 DEF Serves, FreshInv
    <3>6. job[p].route \in Artifacts
      <4>1. /\ job[p].art \in Artifacts
            /\ job[p].route = [m |-> job[p].art.m, port |-> job[p].art.port]
            BY <1>1, <2>2 DEF ChangeInv, PlanInv, DockerInv, Typed, Jobs, MaybeArtifact
      <4> QED BY <4>1 DEF Artifacts
    <3>7. live # Nil BY <3>3, <3>6, NilAssumption
    <3> QED BY <1>2, <2>1, <3>1, <3>2, <3>3, <3>4, <3>5, <3>7 DEF FailingInv, Shown
  <2>3. job[p].kind # "bluegreen" => FailingInv(p)' BY <1>2, Unfailing
  <2> QED BY <2>1, <2>2, <2>3 DEF Serves
<1> QED BY <1>3, <1>4 DEF PutDeployment

\* The old containers are removed after the switch.
LEMMA DrainServes ==
    ASSUME LifecycleInv, OneFault, ServedInv, NEW p \in Procs, Drain(p)
    PROVE  Serves(p)'
<1>1. /\ pc[p] = "drain" /\ TypeOK /\ Typed(p) /\ job[p].kind # "delete"
      BY Working, KindOfStep DEF Drain, At
<1>2. Same(p) /\ UNCHANGED <<caddy, imported, live>> BY DrainStep DEF Drain, fileVars
<1>3. Fresh' => Fresh BY Spends, <1>1 DEF Drain, ServedInv
<1>4. pc'[p] = "done" /\ job'[p].result \in {"ok", "undrained"}
      BY <1>1, Ends DEF Drain, Results
<1> QED BY <1>1, <1>2, <1>3, <1>4, GoesOn DEF Written

\* A switch that fails before the reload has left the route alone.
LEMMA SwitchFails ==
    ASSUME LifecycleInv, ServedInv, NEW p \in Procs,
           pc[p] \in {"cy_preserve", "cy_write", "cy_import", "cy_validate"},
           NEW restores \in SUBSET {"snippet", "import"}, CaddyFails(p, restores),
           live' = live, ~Fresh'
    PROVE  Serves(p)'
<1>1. TypeOK /\ Typed(p) BY Working
<1>2. Errs(p, restores \cup Compensation(job[p], "caddy"), "failed")
      BY <1>1, CaddyFailureErrs
<1>3. "reload" \notin restores \cup Compensation(job[p], "caddy") BY DEF Compensation
<1>4. restores \cup Compensation(job[p], "caddy") \in TodoSets
      BY CompensationTyped, Orders DEF TodoSets
<1>5. FailingInv(p)' BY <1>2, <1>3, <1>4, EarlyFailure DEF Switch
<1> QED BY <1>5 DEF Serves

\* A switch that goes on.
LEMMA Switches ==
    ASSUME LifecycleInv, ServedInv, NEW p \in Procs, pc[p] \in Switch,
           Same(p), job'[p].route = job[p].route, Fresh' => Fresh,
           pc'[p] \in {"cy_write", "cy_import", "cy_validate", "cy_reload", "put", "remove"},
           pc'[p] \notin Written => SettledNow',
           pc'[p] \in Written \cup {"remove"} /\ Fresh /\ job[p].kind = "delete" => caddy' = Nil
    PROVE  Serves(p)'
<1>1. Serves(p) BY DEF ServedInv, Switch
<1>2. FailingInv(p)' BY Unfailing
<1>3. Fresh' => FreshInv(p)' BY <1>1 DEF Serves, FreshInv, Written
<1> QED BY <1>2, <1>3 DEF Serves

\* applyCaddy takes its snapshots.
LEMMA CaddyPreserveServes ==
    ASSUME LifecycleInv, OneFault, ServedInv, NEW p \in Procs, CaddyPreserve(p)
    PROVE  Serves(p)'
<1>1. pc[p] = "cy_preserve" /\ TypeOK /\ Typed(p) /\ Serves(p) /\ cancelled = {}
      BY Working DEF CaddyPreserve, At, ServedInv
<1>2. UNCHANGED <<caddy, imported, live>> BY DEF CaddyPreserve
<1>3. CASE /\ WriteDone /\ Goto(p, "cy_write")
           /\ job' = [job EXCEPT ![p].cSnap = caddy, ![p].iSnap = imported]
  <2>1. Same(p) /\ job'[p].route = job[p].route BY <1>1, <1>3, UpdateSnaps DEF TypeOK
  <2>2. pc'[p] = "cy_write" /\ (Fresh' => Fresh) BY <1>1, <1>3, Moves, Spends DEF Steps
  <2>3. FailingInv(p)' BY <2>2, Unfailing
  <2>4. Fresh' => FreshInv(p)'
        BY <1>1, <1>2, <2>1, <2>2 DEF Serves, FreshInv, SettledNow, Written
  <2> QED BY <2>3, <2>4 DEF Serves
<1>4. CASE WriteFails /\ CaddyFails(p, {})
  <2>1. ~Fresh' BY <1>1, <1>4, Spends
  <2> QED BY <1>1, <1>2, <1>4, <2>1, SwitchFails
<1> QED BY <1>3, <1>4 DEF CaddyPreserve

\* It writes the snippet; a deletion finds no content for it.
LEMMA CaddyWriteServes ==
    ASSUME LifecycleInv, OneFault, ServedInv, NEW p \in Procs, CaddyWrite(p)
    PROVE  Serves(p)'
<1>1. pc[p] = "cy_write" /\ TypeOK /\ Typed(p) /\ Serves(p) /\ cancelled = {}
      BY Working DEF CaddyWrite, At, ServedInv
<1>2. CASE WriteDone /\ caddy' = job[p].route /\ Goto(p, "cy_import") /\ UNCHANGED job
  <2>1. Carries(p) BY <1>1, <1>2, Stays
  <2>2. pc'[p] = "cy_import" /\ (Fresh' => Fresh) BY <1>1, <1>2, Moves, Spends DEF Steps
  <2>3. Fresh /\ job[p].kind = "delete" => caddy' = Nil BY <1>1, <1>2 DEF Serves, FreshInv
  <2> QED BY <1>1, <2>1, <2>2, <2>3, Switches DEF Switch, Written
<1>3. CASE WriteFails /\ CaddyFails(p, {})
  <2>1. ~Fresh' BY <1>1, <1>3, Spends
  <2> QED BY <1>1, <1>3, <2>1, SwitchFails DEF CaddyWrite
<1> QED BY <1>2, <1>3 DEF CaddyWrite

\* It imports the snippets.
LEMMA CaddyImportServes ==
    ASSUME LifecycleInv, OneFault, ServedInv, NEW p \in Procs, CaddyImport(p)
    PROVE  Serves(p)'
<1>1. pc[p] = "cy_import" /\ TypeOK /\ Typed(p) /\ Serves(p) /\ cancelled = {}
      BY Working DEF CaddyImport, At, ServedInv
<1>2. UNCHANGED <<caddy, live>> BY DEF CaddyImport
<1>3. CASE WriteDone /\ Goto(p, "cy_validate") /\ UNCHANGED job
  <2>1. Carries(p) BY <1>1, <1>3, Stays
  <2>2. pc'[p] = "cy_validate" /\ (Fresh' => Fresh) BY <1>1, <1>3, Moves, Spends DEF Steps
  <2>3. Fresh /\ job[p].kind = "delete" => caddy' = Nil
        BY <1>1, <1>2 DEF Serves, FreshInv, Written
  <2> QED BY <1>1, <2>1, <2>2, <2>3, Switches DEF Switch, Written
<1>4. CASE WriteFails /\ CaddyFails(p, {"snippet"})
  <2>1. ~Fresh' BY <1>1, <1>4, Spends
  <2> QED BY <1>1, <1>2, <1>4, <2>1, SwitchFails
<1> QED BY <1>3, <1>4 DEF CaddyImport

\* It validates the configuration.
LEMMA CaddyValidateServes ==
    ASSUME LifecycleInv, OneFault, ServedInv, NEW p \in Procs, CaddyValidate(p)
    PROVE  Serves(p)'
<1>1. pc[p] = "cy_validate" /\ TypeOK /\ Typed(p) /\ Serves(p) /\ cancelled = {}
      BY Working DEF CaddyValidate, At, ServedInv
<1>2. UNCHANGED <<caddy, live>> BY DEF CaddyValidate, worldVars, fileVars
<1>3. CASE Runs(p) /\ Goto(p, "cy_reload") /\ UNCHANGED job
  <2>1. Carries(p) BY <1>1, <1>3, Stays
  <2>2. pc'[p] = "cy_reload" /\ (Fresh' => Fresh) BY <1>1, <1>3, Moves, Spends DEF Steps
  <2>3. Fresh /\ job[p].kind = "delete" => caddy' = Nil
        BY <1>1, <1>2 DEF Serves, FreshInv, Written
  <2> QED BY <1>1, <2>1, <2>2, <2>3, Switches DEF Switch, Written
<1>4. CASE Breaks(p, FALSE) /\ CaddyFails(p, {"snippet", "import"})
  <2>1. ~Fresh' BY <1>1, <1>4, Spends
  <2> QED BY <1>1, <1>2, <1>4, <2>1, SwitchFails
<1> QED BY <1>3, <1>4 DEF CaddyValidate

\* A reload serves the snippet; one that fails leaves the route found.
LEMMA CaddyReloadServes ==
    ASSUME LifecycleInv, OneFault, ServedInv, NEW p \in Procs, CaddyReload(p)
    PROVE  Serves(p)'
<1>1. /\ pc[p] = "cy_reload" /\ TypeOK /\ Typed(p) /\ Serves(p) /\ cancelled = {}
      /\ job[p].kind \in Changes \cup {"delete"} /\ (job[p].kind \in Changes => ChangeInv(p))
      BY Working, KindOfStep DEF CaddyReload, At, ServedInv, Switch
<1>2. UNCHANGED <<caddy, imported>> BY DEF CaddyReload, fileVars
<1>3. CASE Runs(p) /\ Reload /\ Goto(p, Switched(p)) /\ UNCHANGED job
  <2>1. Carries(p) BY <1>1, <1>3, Stays
  <2>2. pc'[p] \in {"put", "remove"} /\ (Fresh' => Fresh)
        BY <1>1, <1>3, Moves, Spends DEF Steps, Switched
  <2>3. Fresh /\ job[p].kind = "delete" => caddy' = Nil
        BY <1>1, <1>2 DEF Serves, FreshInv, Written
  <2>4. job[p].kind # "delete" => imported = TRUE
        BY <1>1 DEF ChangeInv, ImportInv
  <2>5. live' = IF imported THEN caddy ELSE Nil BY <1>3 DEF Reload
  <2>6. Fresh => SettledNow' BY <1>2, <2>3, <2>4, <2>5 DEF SettledNow
  <2>7. FailingInv(p)' BY <2>2, Unfailing
  <2>8. Fresh' => FreshInv(p)'
        BY <1>1, <2>1, <2>2, <2>3, <2>6 DEF Serves, FreshInv, Written
  <2> QED BY <2>7, <2>8 DEF Serves
<1>4. CASE /\ Breaks(p, FALSE) /\ ReloadFails(p)
           /\ CaddyFails(p, {"snippet", "import", "reload"})
  <2>1. Fresh /\ ~Fresh' BY <1>1, <1>4, Spends
  <2>2. live' = live BY <1>1, <1>4 DEF ReloadFails
  <2>3. Errs(p, {"snippet", "import", "reload"} \cup Compensation(job[p], "caddy"), "failed")
        BY <1>1, <1>4, CaddyFailureErrs
  <2>4. job[p].kind = "bluegreen" => live = job[p].before.live
        BY <1>1 DEF Changes, Replaces, ChangeInv, LiveInv, Switch
  <2>5. Settled(job[p].before) BY <1>1, <2>1 DEF Serves, FreshInv
  <2>6. FailingInv(p)' BY <2>1, <2>2, <2>3, <2>4, <2>5 DEF FailingInv
  <2> QED BY <2>1, <2>6 DEF Serves
<1> QED BY <1>3, <1>4 DEF CaddyReload

\* A step of an error path other than the reload keeps the route and, while the route is
\* still to be restored, the containers.
LEMMA UndoneServes ==
    ASSUME LifecycleInv, ServedInv, NEW p \in Procs, pc[p] = "undo",
           NEW todo \in SUBSET job[p].todo, NEW r, Errs(p, todo, r), r \notin {"ok", "undrained"},
           Fresh' => Fresh, live' = live, Fresh => UNCHANGED <<caddy, imported>>,
           "reload" \in job[p].todo =>
               "reload" \in todo /\ r = job[p].result /\ docker' = docker
    PROVE  Serves(p)'
<1>1. Serves(p) BY DEF ServedInv
<1>2. ShapeInv(p) BY Working
<1>3. job[p].result \notin {"ok", "undrained"} BY <1>2 DEF ShapeInv
<1>4. FailingInv(p)'
  <2> SUFFICES ASSUME job[p].kind = "bluegreen" PROVE FailingInv(p)' BY Unfailing
  <2>1. CASE "reload" \in job[p].todo
    <3>1. /\ ~Fresh /\ Settled(job[p].before) /\ job[p].result = "failed"
          /\ \/ live = job[p].before.live
             \/ /\ live = job[p].route /\ live # Nil
                /\ docker[job[p].target] # Nil /\ docker[job[p].target].st = "up"
                /\ docker[job[p].target].port = job[p].route.port
          BY <1>1, <1>3, <2>1 DEF Serves, FailingInv
    <3> QED BY <2>1, <3>1 DEF FailingInv
  <2>2. CASE "reload" \notin job[p].todo
    <3>1. live = job[p].before.live BY <1>1, <1>3, <2>2 DEF Serves, FailingInv
    <3> QED BY <2>2, <3>1 DEF FailingInv
  <2> QED BY <2>1, <2>2
<1>5. Fresh' => FreshInv(p)' BY <1>1 DEF Serves, FreshInv, SettledNow, Written
<1> QED BY <1>4, <1>5 DEF Serves

\* While nothing has failed, an error path has no route to restore.
LEMMA FreshUndo ==
    ASSUME LifecycleInv, ServedInv, NEW p \in Procs, pc[p] = "undo", Fresh
    PROVE  {"reload", "snippet", "import", "route"} \cap job[p].todo = {}
    BY DEF ServedInv, Serves, FreshInv

\* The containers come after the route.
LEMMA RouteFirst ==
    ASSUME NEW todo, NEW step \in {"up", "down"}, Comes(step, todo, UndoOrder)
    PROVE  "reload" \notin todo
<1>1. PICK i \in 1..9 : /\ UndoOrder[i] = step
                        /\ \A k \in 1..(i - 1) : UndoOrder[k] \notin todo
      BY DEF Comes, UndoOrder
<1>2. i \in {5, 7} BY <1>1 DEF UndoOrder
<1>3. UndoOrder[4] \notin todo BY <1>1, <1>2
<1> QED BY <1>3 DEF UndoOrder

\* The files of an error path.
LEMMA UndoFilesServes ==
    ASSUME LifecycleInv, OneFault, ServedInv, NEW p \in Procs,
           UndoCompose(p) \/ UndoPrevious(p) \/ UndoCaddy(p)
    PROVE  Serves(p)'
<1>1. PICK step \in {"compose", "previous", "previousRoute", "snippet", "route", "import"} :
          /\ Undoing(p, step) /\ Proceed(p, step)
          /\ step \in {"snippet", "route", "import"} \/ UNCHANGED <<caddy, imported>>
      BY DEF UndoCompose, UndoPrevious, UndoCaddy
<1>2. WriteDone /\ UNCHANGED <<live, docker>> BY DEF UndoCompose, UndoPrevious, UndoCaddy
<1>3. /\ pc[p] = "undo" /\ TypeOK /\ Typed(p) /\ step \in job[p].todo
      /\ job[p].result \notin {"ok", "undrained"}
      BY <1>1, Undoes, Working DEF ShapeInv
<1>4. Errs(p, job[p].todo \ {step}, job[p].result) BY <1>1, <1>3, ProceedErrs
<1>5. Fresh' => Fresh BY <1>2, <1>3, Spends DEF ServedInv
<1>6. Fresh => UNCHANGED <<caddy, imported>> BY <1>1, <1>3, FreshUndo
<1> QED BY <1>2, <1>3, <1>4, <1>5, <1>6, UndoneServes

\* A file that an error path cannot write is the one failure, so nothing has failed before
\* and the route is not to be restored.
LEMMA UndoWriteFailsServes ==
    ASSUME LifecycleInv, OneFault, ServedInv, NEW p \in Procs, UndoWriteFails(p)
    PROVE  Serves(p)'
<1>1. PICK step : Undoing(p, step) /\ ProceedBroken(p, step) BY DEF UndoWriteFails
<1>2. UNCHANGED <<caddy, imported, live, docker>> BY DEF UndoWriteFails, worldVars, fileVars
<1>3. pc[p] = "undo" /\ TypeOK /\ Typed(p) BY <1>1, Undoes
<1>4. Errs(p, job[p].todo \ ({step} \cup NeedsFile(step)), "broken")
      BY <1>1, <1>3, ProceedBrokenErrs
<1>5. Fresh /\ ~Fresh' BY <1>3, Spends DEF ServedInv, UndoWriteFails
<1>6. "reload" \notin job[p].todo BY <1>3, <1>5, FreshUndo
<1> QED BY <1>2, <1>3, <1>4, <1>5, <1>6, UndoneServes

\* The containers of an error path, which come after the route.
LEMMA UndoContainersServes ==
    ASSUME LifecycleInv, OneFault, ServedInv, NEW p \in Procs, UndoUp(p) \/ UndoDown(p)
    PROVE  Serves(p)'
<1>1. PICK step \in {"up", "down"} :
          Undoing(p, step) /\ (Proceed(p, step) \/ ProceedBroken(p, step))
      BY DEF UndoUp, UndoDown
<1>2. UNCHANGED <<caddy, imported, live>> BY DEF UndoUp, UndoDown, fileVars
<1>3. /\ pc[p] = "undo" /\ TypeOK /\ Typed(p) /\ "reload" \notin job[p].todo
      /\ job[p].result \notin {"ok", "undrained"}
      BY <1>1, Undoes, Working, RouteFirst DEF ShapeInv, Undoing
<1>4. PICK refused \in BOOLEAN : Runs(p) \/ Breaks(p, refused)
  <2>1. UpRefused(job[p].target) \in BOOLEAN BY DEF UpRefused
  <2>2. (compose[job[p].target] = Nil) \in BOOLEAN OBVIOUS
  <2> QED BY <2>1, <2>2 DEF UndoUp, UndoDown
<1>5. Fresh' => Fresh BY <1>3, <1>4, Spends DEF ServedInv
<1>6. CASE Proceed(p, step)
  <2>1. Errs(p, job[p].todo \ {step}, job[p].result) BY <1>3, <1>6, ProceedErrs
  <2> QED BY <1>2, <1>3, <1>5, <2>1, UndoneServes
<1>7. CASE ProceedBroken(p, step)
  <2>1. Errs(p, job[p].todo \ ({step} \cup NeedsFile(step)), "broken")
        BY <1>3, <1>7, ProceedBrokenErrs
  <2> QED BY <1>2, <1>3, <1>5, <2>1, UndoneServes
<1> QED BY <1>1, <1>6, <1>7

\* The reload of an error path restores the live route: what is reloaded is what was found.
LEMMA UndoReloadServes ==
    ASSUME LifecycleInv, OneFault, ServedInv, NEW p \in Procs, UndoReload(p)
    PROVE  Serves(p)'
<1>1. /\ pc[p] = "undo" /\ TypeOK /\ Typed(p) /\ "reload" \in job[p].todo
      /\ Serves(p) /\ cancelled = {} /\ job[p].result \notin {"ok", "undrained"}
      BY Undoes, Working DEF UndoReload, ServedInv, ShapeInv
<1>2. ~Fresh BY <1>1, FreshUndo
<1>3. ~Breaks(p, FALSE) BY <1>1, <1>2, Spends
<1>4. Runs(p) /\ Proceed(p, "reload") BY <1>3 DEF UndoReload
<1>5. ~Fresh' BY <1>1, <1>2, <1>4, Spends
<1>6. Errs(p, job[p].todo \ {"reload"}, job[p].result) BY <1>1, <1>4, ProceedErrs
<1>7. ASSUME job[p].kind = "bluegreen" PROVE FailingInv(p)'
  <2>1. job[p].result = "failed" /\ Settled(job[p].before)
        BY <1>1, <1>7 DEF Serves, FailingInv
  <2>2. LiveInv(p)'
        BY <1>6, <1>7, UndoReloadStep DEF OperationInv, ChangeInv, Changes, Replaces
  <2>3. live' = job[p].before.live BY <1>6, <2>1, <2>2 DEF LiveInv
  <2> QED BY <1>6, <2>3 DEF FailingInv
<1>8. FailingInv(p)' BY <1>6, <1>7, Unfailing
<1> QED BY <1>5, <1>8 DEF Serves

\* Restart and stop leave the route alone.
LEMMA ControlServes ==
    ASSUME LifecycleInv, OneFault, ServedInv, NEW p \in Procs, Controlling(p)
    PROVE  Serves(p)'
<1>1. /\ pc[p] \in {"command", "record"} /\ TypeOK /\ Typed(p)
      /\ job[p].kind \in {"restart", "stop"} /\ cancelled = {}
  <2>1. pc[p] \in {"command", "record"}
        BY DEF Controlling, ControlContainers, RecordStatus, At
  <2> QED BY <2>1, Working, KindOfStep DEF ServedInv
<1>2. Same(p) /\ UNCHANGED <<caddy, imported, live>>
  <2>1. Same(p) BY ControlContainersStep, RecordStatusStep DEF Controlling
  <2>2. UNCHANGED <<caddy, imported, live>>
        BY DEF Controlling, ControlContainers, RecordStatus, fileVars
  <2> QED BY <2>1, <2>2
<1>3. Fresh' => Fresh
  <2>1. CASE ControlContainers(p)
    <3>1. \/ budget' = [budget EXCEPT !.moved = budget'.moved] \/ WriteFails
          BY <1>1, <2>1, ControlBudget DEF Typed, Jobs
    <3>2. PICK b \in Budgets : b = budget BY <1>1 DEF TypeOK
    <3>3. CASE budget' = [b EXCEPT !.moved = budget'.moved]
          BY <3>2, <3>3 DEF Fresh, Budgets
    <3> QED BY <1>1, <3>1, <3>2, <3>3, Spends
  <2>2. CASE RecordStatus(p)
    <3>1. PICK refused \in BOOLEAN : Runs(p) \/ Breaks(p, refused) BY <2>2 DEF RecordStatus
    <3> QED BY <1>1, <3>1, Spends
  <2> QED BY <2>1, <2>2 DEF Controlling
<1>4. pc'[p] \in {"record", "done"}
      BY <1>1, Moves, Ends DEF Controlling, ControlContainers, RecordStatus, Steps, Results
<1> QED BY <1>1, <1>2, <1>3, <1>4, GoesOn DEF Written

\* A deletion outside of a switch changes the route only when something has failed before.
LEMMA DeletionServes ==
    ASSUME LifecycleInv, ServedInv, NEW p \in Procs, pc[p] \in {"down", "remove", "forget"},
           job[p].kind = "delete", Keeps(p), Fresh' => Fresh,
           Fresh => UNCHANGED <<caddy, imported, live>>,
           pc'[p] \in {"cy_preserve", "remove", "forget", "done"},
           pc'[p] = "remove" => pc[p] = "remove" \/ (pc[p] = "down" /\ ~job[p].needsCaddy)
    PROVE  Serves(p)'
<1>1. Serves(p) BY DEF ServedInv
<1>2. FailingInv(p)' BY Unfailing
<1>3. Fresh' => FreshInv(p)' BY <1>1 DEF Serves, FreshInv, SettledNow, Written
<1> QED BY <1>2, <1>3 DEF Serves

\* Every step of a deletion that is not one of applyCaddy's.
LEMMA DeletingServes ==
    ASSUME LifecycleInv, OneFault, ServedInv, NEW p \in Procs, Deleting(p)
    PROVE  Serves(p)'
<1>1. /\ pc[p] \in {"down", "remove", "forget"} /\ TypeOK /\ Typed(p)
      /\ job[p].kind = "delete" /\ cancelled = {} /\ Serves(p)
      BY StepsBusy, Working, KindOfStep
      DEF Deleting, DeleteContainers, RemoveFile, Removing, RemoveFails, Forget, At, ServedInv
<1>2. ASSUME NEW r \in Results, Finish(p, r) PROVE Keeps(p) /\ pc'[p] = "done"
      BY <1>1, <1>2, Ends
<1>3. CASE DeleteContainers(p)
  <2>1. UNCHANGED <<caddy, imported, live>> /\ pc[p] = "down"
        BY <1>3 DEF DeleteContainers, fileVars, At
  <2>2. PICK refused \in BOOLEAN : Runs(p) \/ Breaks(p, refused) BY <1>3 DEF DeleteContainers
  <2>3. Fresh' => Fresh BY <1>1, <2>2, Spends
  <2>4. CASE Goto(p, IF job[p].needsCaddy THEN "cy_preserve" ELSE "remove") /\ UNCHANGED job
    <3>1. Carries(p) BY <1>1, <2>4, Stays
    <3>2. pc'[p] = IF job[p].needsCaddy THEN "cy_preserve" ELSE "remove"
          BY <1>1, <2>4, Moves DEF Steps
    <3> QED BY <1>1, <2>1, <2>3, <3>1, <3>2, DeletionServes
  <2>5. CASE Finish(p, "failed")
        BY <1>1, <1>2, <2>1, <2>3, <2>5, DeletionServes DEF Results
  <2> QED BY <1>3, <2>4, <2>5 DEF DeleteContainers
<1>4. CASE RemoveFile(p)
  <2>1. PICK what : Removing(p, what) BY <1>4 DEF RemoveFile
  <2>2. WriteDone /\ UNCHANGED <<imported, live>> BY <1>4 DEF RemoveFile
  <2>3. caddy' = caddy \/ caddy' = Nil BY <1>4 DEF RemoveFile
  <2>4. /\ Keeps(p) /\ pc[p] = "remove" /\ pc'[p] \in {"forget", "remove"}
        BY <2>1, Strikes
  <2>5. Fresh => caddy = Nil BY <1>1, <2>4 DEF Serves, FreshInv
  <2>6. Fresh' => Fresh BY <1>1, <2>2, Spends
  <2> QED BY <1>1, <2>2, <2>3, <2>4, <2>5, <2>6, DeletionServes
<1>5. CASE RemoveFails(p)
  <2>1. ~Fresh' BY <1>1, <1>5, Spends DEF RemoveFails
  <2>2. UNCHANGED <<caddy, imported, live>> BY <1>5 DEF RemoveFails, worldVars, fileVars
  <2> QED BY <1>1, <1>2, <1>5, <2>1, <2>2, DeletionServes DEF RemoveFails, Results
<1>6. CASE Forget(p)
  <2>1. UNCHANGED <<caddy, imported, live>> BY <1>6 DEF Forget, fileVars
  <2>2. Fresh' => Fresh BY <1>1, <1>6, Spends DEF Forget
  <2>3. Keeps(p) /\ pc'[p] = "done" BY <1>2, <1>6 DEF Forget, Results
  <2> QED BY <1>1, <2>1, <2>2, <2>3, DeletionServes
<1> QED BY <1>3, <1>4, <1>5, <1>6 DEF Deleting

\* Every step of an operation.
LEMMA OperationServes ==
    ASSUME LifecycleInv, OneFault, ServedInv, NEW p \in Procs,
           Deploying(p) \/ ApplyCaddy(p) \/ Undo(p) \/ Controlling(p) \/ Deleting(p)
    PROVE  Serves(p)'
<1>1. CASE Deploying(p)
      BY <1>1, PreserveServes, WriteComposeServes, ValidateComposeServes, UpContainersServes,
         ResolvePortsServes, FinalizeServes, PutDeploymentServes, DrainServes DEF Deploying
<1>2. CASE ApplyCaddy(p)
      BY <1>2, CaddyPreserveServes, CaddyWriteServes, CaddyImportServes, CaddyValidateServes,
         CaddyReloadServes DEF ApplyCaddy
<1>3. CASE Undo(p)
      BY <1>3, UndoFilesServes, UndoWriteFailsServes, UndoContainersServes, UndoReloadServes
      DEF Undo
<1> QED BY <1>1, <1>2, <1>3, ControlServes, DeletingServes

\* An operation that starts finds the files served, if nothing has failed.
LEMMA StartServes ==
    ASSUME LifecycleInv, ServedInv, OneAtATime, NEW p \in Procs, Start(p)
    PROVE  Serves(p)' /\ pc'[p] # "idle"
<1>1. TypeOK /\ pc[p] = "idle"
      BY DEF LifecycleInv, Start, StartDeploy, StartRollback, StartSwitchback, StartControl,
         StartDelete, At
<1>2. UNCHANGED <<caddy, imported, live, budget>>
      BY DEF Start, StartDeploy, StartRollback, StartSwitchback, StartControl, StartDelete,
         worldVars, fileVars
<1>3. Fresh' => SettledNow' /\ Settled(Now)
  <2>1. \A q \in Procs : pc[q] = "idle" BY <1>1 DEF OneAtATime
  <2>2. Fresh => SettledNow BY <2>1 DEF ServedInv
  <2> QED BY <1>1, <1>2, <2>2, FoundWorld DEF Fresh, SettledNow, Settled
<1>4. OperationInv(p)' /\ job'[p].before = Now
      BY <1>1, StartDeployStep, StartRollbackStep, StartSwitchbackStep, StartControlStep,
         StartDeleteStep DEF Start
<1>5. pc \in [Procs -> Steps] BY <1>1 DEF TypeOK
<1>6. CASE StartDelete(p)
  <2>1. /\ job'[p].kind = "delete" /\ job'[p].route = Nil
        /\ pc'[p] \in {"down", "cy_preserve", "remove"}
        /\ pc'[p] = "remove" \/ (pc'[p] = "down" /\ ~job'[p].needsCaddy) => caddy = Nil
        BY <1>1, <1>6, StartDeleteStep
  <2>2. Fresh' => FreshInv(p)' BY <1>2, <1>3, <1>4, <2>1 DEF FreshInv, Written
  <2> QED BY <2>1, <2>2, Unfailing DEF Serves
<1>7. CASE ~StartDelete(p)
  <2>1. job'[p].kind # "delete"
        BY <1>1, <1>7, StartDeployStep, StartRollbackStep, StartSwitchbackStep,
           StartControlStep DEF Start
  <2>2. pc'[p] \in {"preserve", "config", "command"}
        BY <1>5, <1>7 DEF Start, StartDeploy, StartRollback, StartSwitchback, StartControl,
           Goto
  <2>3. Fresh' => FreshInv(p)' BY <1>3, <1>4, <2>1, <2>2 DEF FreshInv
  <2> QED BY <2>2, <2>3, Unfailing DEF Serves
<1> QED BY <1>6, <1>7

\* Every step keeps the invariant.
LEMMA ServedStep ==
    ASSUME LifecycleInv, TypeOK', ServedInv, OneAtATime, OneFault, [Next]_vars
    PROVE  ServedInv'
<1>1. TypeOK BY DEF LifecycleInv
<1>2. ASSUME NEW p \in Procs,
             Deploying(p) \/ ApplyCaddy(p) \/ Undo(p) \/ Controlling(p) \/ Deleting(p)
      PROVE  ServedInv'
  <2>1. Serves(p)' BY <1>2, OperationServes
  <2>2. pc'[p] # "idle"
        BY <1>2, OperationStep, StepsBusy DEF OperationInv, ShapeInv, StepsOf, Switch
  <2>3. cancelled' = cancelled
        BY <1>2 DEF Deploying, Preserve, WriteCompose, ValidateCompose, UpContainers,
           ResolvePorts, Finalize, PutDeployment, Drain, ApplyCaddy, CaddyPreserve,
           CaddyWrite, CaddyImport, CaddyValidate, CaddyReload, Undo, UndoCompose,
           UndoPrevious, UndoCaddy, UndoWriteFails, UndoUp, UndoDown, UndoReload,
           Controlling, ControlContainers, RecordStatus, Deleting, DeleteContainers,
           RemoveFile, RemoveFails, Forget
  <2>4. \A q \in Procs : q = p BY DEF OneAtATime
  <2> QED BY <2>1, <2>2, <2>3, <2>4 DEF ServedInv
<1>3. ASSUME NEW p \in Procs, Start(p) PROVE ServedInv'
  <2>1. Serves(p)' /\ pc'[p] # "idle" BY <1>3, StartServes
  <2>2. cancelled' = cancelled
        BY <1>3 DEF Start, StartDeploy, StartRollback, StartSwitchback, StartControl,
           StartDelete
  <2>3. \A q \in Procs : q = p BY DEF OneAtATime
  <2> QED BY <2>1, <2>2, <2>3 DEF ServedInv
<1>4. ASSUME NEW p \in Procs, Leave(p), (pc[p] = "done" /\ UNCHANGED budget) \/ ~Fresh'
      PROVE  ServedInv'
  <2>1. /\ pc' = [pc EXCEPT ![p] = "idle"] /\ job' = [job EXCEPT ![p] = Nil]
        /\ cancelled' = cancelled \ {p} /\ UNCHANGED <<caddy, imported, live>>
        BY <1>4 DEF Leave, Goto, worldVars, fileVars
  <2>2. pc'[p] = "idle" /\ job'[p] = Nil BY <1>1, <2>1 DEF TypeOK
  <2>3. Fresh' => SettledNow'
    <3>1. CASE pc[p] = "done" /\ UNCHANGED budget
          BY <2>1, <3>1 DEF ServedInv, Serves, FreshInv, Fresh, SettledNow, Written
    <3> QED BY <1>4, <3>1
  <2>4. \A q \in Procs : q = p BY DEF OneAtATime
  <2> QED BY <2>1, <2>2, <2>3, <2>4 DEF ServedInv
<1>5. ASSUME NEW p \in Procs, Crash(p) PROVE ServedInv'
  <2>1. PICK b \in Budgets : b = budget
        BY <1>1 DEF TypeOK
  <2>2. budget' = [b EXCEPT !.crashes = b.crashes - 1] /\ b.crashes \in 0..MaxCrashes
        BY <1>5, <2>1 DEF Crash, Budgets
  <2>3. budget'.crashes = b.crashes - 1 /\ MaxCrashes \in Nat
        BY <2>2, BoundsAssumption DEF Budgets
  <2>4. ~Fresh' BY <2>2, <2>3 DEF Fresh
  <2> QED BY <1>4, <1>5, <2>4 DEF Crash
<1>6. ASSUME NEW p \in Procs, Cancel(p) PROVE FALSE
      BY <1>1, <1>6 DEF Cancel, TypeOK, OneFault, Budgets
<1>7. CASE UNCHANGED vars
  <2>1. UNCHANGED <<caddy, imported, live, docker, pc, job, cancelled, budget>>
        BY <1>7 DEF vars
  <2>2. \A p \in Procs : Serves(p) => Serves(p)'
        BY <2>1 DEF Serves, FreshInv, FailingInv, Fresh, SettledNow
  <2> QED BY <2>1, <2>2 DEF ServedInv, Fresh, SettledNow
<1>8. ASSUME NEW p \in Procs, Return(p) PROVE ServedInv'
      BY <1>4, <1>8 DEF Return, At
<1> QED BY <1>2, <1>3, <1>5, <1>6, <1>7, <1>8 DEF Next, Step

\* While a blue-green deployment is under way, the live route is the one found, and the
\* active containers are as found, or the live route leads to the replacement.
LEMMA RouteLeads ==
    ASSUME LifecycleInv', ServedInv', NEW p \in Procs, pc'[p] # "idle",
           job'[p].kind = "bluegreen", LeadsTo(job'[p].before, job'[p].slot)
    PROVE  RouteAlive'
<1>1. /\ OperationInv(p)' /\ Serves(p)' /\ job'[p] \in Jobs
      BY DEF LifecycleInv, ServedInv, TypeOK
<1>2. ShapeInv(p)' /\ ChangeInv(p)' BY <1>1 DEF OperationInv, Changes, Replaces
<1>3. /\ job'[p].slot \in Slots /\ job'[p].target \in Slots
      /\ job'[p].slot # job'[p].target
      /\ job'[p].needsCaddy = TRUE
      BY <1>1, <1>2 DEF ChangeInv, PlanInv, Jobs, Other
<1>4. /\ Now'.live = live' /\ Now'.docker = docker' BY DEF Now
<1>5. CASE live' = job'[p].before.live
           /\ docker'[job'[p].slot] = job'[p].before.docker[job'[p].slot]
  <2>1. LeadsTo(Now', job'[p].slot) BY <1>4, <1>5 DEF LeadsTo
  <2> QED BY <1>3, <2>1 DEF RouteAlive
<1>6. CASE /\ live' # Nil /\ docker'[job'[p].target] # Nil
           /\ docker'[job'[p].target].st = "up"
           /\ docker'[job'[p].target].port = live'.port
  <2>1. LeadsTo(Now', job'[p].target) BY <1>4, <1>6 DEF LeadsTo
  <2> QED BY <1>3, <2>1 DEF RouteAlive
<1>7. CASE pc'[p] \in BeforeSwitch \cup Switch
  <2>1. live' = job'[p].before.live BY <1>2, <1>7 DEF ChangeInv, LiveInv
  <2>2. docker'[job'[p].slot] = job'[p].before.docker[job'[p].slot]
        BY <1>2, <1>3, <1>7 DEF ChangeInv, DockerInv, BeforeSwitch, Switch
  <2> QED BY <1>5, <2>1, <2>2
<1>8. CASE pc'[p] \in {"put", "drain"}
           \/ (pc'[p] = "done" /\ job'[p].result \in {"ok", "undrained"})
  <2>1. live' = job'[p].route
        BY <1>2, <1>3, <1>8 DEF ChangeInv, LiveInv, BeforeSwitch, Switch
  <2>2. /\ Shown(docker'[job'[p].target], job'[p].art)
        /\ docker'[job'[p].target].port = job'[p].route.port
        BY <1>2, <1>8 DEF ChangeInv, DockerInv
  <2>3. job'[p].art \in Artifacts /\ job'[p].route = [m |-> job'[p].art.m, port |-> job'[p].art.port]
        BY <1>1, <1>2, <1>8 DEF ChangeInv, PlanInv, DockerInv, Jobs, MaybeArtifact
  <2>4. job'[p].route # Nil BY <2>3, NilAssumption DEF Artifacts
  <2> QED BY <1>6, <2>1, <2>2, <2>4 DEF Shown
<1>9. CASE pc'[p] \in {"undo", "done"} /\ job'[p].result \notin {"ok", "undrained"}
  <2>1. docker'[job'[p].slot] = job'[p].before.docker[job'[p].slot]
        BY <1>2, <1>3, <1>9 DEF ChangeInv, DockerInv
  <2>2. \/ live' = job'[p].before.live
        \/ /\ live' = job'[p].route /\ live' # Nil
           /\ docker'[job'[p].target] # Nil /\ docker'[job'[p].target].st = "up"
           /\ docker'[job'[p].target].port = job'[p].route.port
        BY <1>1, <1>9 DEF Serves, FailingInv
  <2> QED BY <1>5, <1>6, <2>1, <2>2
<1>10. pc'[p] \in StepsOf("bluegreen") BY <1>2 DEF ShapeInv
<1> QED BY <1>2, <1>7, <1>8, <1>9, <1>10 DEF ShapeInv, StepsOf, BeforeSwitch, Switch

\* With one failure at most, ServedInv is an invariant.
THEOREM ServedInvariance ==
    ASSUME OneAtATime, OneFault
    PROVE  Spec => [](LifecycleInv /\ ServedInv)
<1>1. Init => ServedInv BY DEF Init, ServedInv, SettledNow
<1>2. ServedInv /\ LifecycleInv /\ LifecycleInv' /\ [Next]_vars => ServedInv'
      BY ServedStep DEF LifecycleInv
<1> QED BY <1>1, <1>2, LifecycleInvariance, PTL DEF Spec

\* No downtime (applyBlueGreen and its error paths): as long as commands of a project do not
\* overlap, no context is cancelled and one step at most fails or one process dies, no step
\* of a blue-green deployment takes the live route away, or the containers it leads to.
THEOREM NoDowntimeWithOneFault ==
    ASSUME OneAtATime, OneFault
    PROVE  Spec => NoDowntime
<1> DEFINE Kept == \A p \in Procs :
                      (/\ job[p] # Nil /\ job[p].kind = "bluegreen"
                       /\ LeadsTo(job[p].before, job[p].slot) /\ RouteAlive) => RouteAlive'
<1>1. LifecycleInv /\ ServedInv /\ LifecycleInv' /\ ServedInv' /\ [Next]_vars => [Kept]_vars
  <2> SUFFICES ASSUME LifecycleInv, ServedInv, LifecycleInv', ServedInv', [Next]_vars,
                      NEW p \in Procs, job[p] # Nil, job[p].kind = "bluegreen",
                      LeadsTo(job[p].before, job[p].slot), RouteAlive
               PROVE  RouteAlive'
      OBVIOUS
  <2>1. pc[p] # "idle" BY DEF ServedInv
  <2>2. \A q \in Procs : q = p BY DEF OneAtATime
  <2>3. CASE UNCHANGED vars BY <2>3 DEF vars, RouteAlive, LeadsTo, Now
  <2>4. CASE Return(p) \/ Crash(p)
        BY <2>4 DEF Return, Crash, Leave, worldVars, fileVars, RouteAlive, LeadsTo, Now
  <2>5. CASE Cancel(p)
        BY <2>5 DEF Cancel, worldVars, fileVars, RouteAlive, LeadsTo, Now
  <2>6. CASE Deploying(p) \/ ApplyCaddy(p) \/ Undo(p) \/ Controlling(p) \/ Deleting(p)
    <3>1. OperationInv(p)' /\ Same(p) BY <2>1, <2>6, OperationStep
    <3>2. pc'[p] # "idle" BY <3>1 DEF OperationInv, ShapeInv, StepsOf, Switch
    <3> QED BY <3>1, <3>2, RouteLeads
  <2>7. ~Start(p)
        BY <2>1 DEF Start, StartDeploy, StartRollback, StartSwitchback, StartControl,
           StartDelete, At
  <2> QED BY <2>2, <2>3, <2>4, <2>5, <2>6, <2>7 DEF Next, Step
<1> QED BY <1>1, ServedInvariance, PTL DEF NoDowntime, Spec

-----------------------------------------------------------------------------
(* Coherence.  A project that no failure has troubled is whole whenever no   *)
(* command runs, if all its manifests are of one sort.  With manifests of    *)
(* two sorts it need not be: a replacement in place leaves the containers of *)
(* a slot, and one that needs no route leaves an old previous route, which a *)
(* rollback brings back.                                                     *)

\* All manifests are replaced blue-green, nothing is stopped in between, and Docker has a
\* port for the replacement besides that of the active slot.
InSlots ==
    /\ Manifests \subseteq Routed \cap Stateless
    /\ "stop" \notin Ops
    /\ \E c, d \in DynPorts : c # d

OneSort ==
    \/ InSlots
    \/ Manifests \subseteq Routed \ Stateless
    \/ Routed = {}

\* The files, the row and the containers of a world describe one deployment, whose
\* predecessor, if there is one, can be brought back.
Matched(w) ==
    LET s == w.db.slot
        previous == PreviousPair(w) IN
    /\ s = "base" \/ InSlots
    /\ w.compose[s] # Nil /\ w.compose[s].port # "dynamic"
    /\ w.docker[s] # Nil
    /\ w.docker[s].m = w.compose[s].m /\ w.docker[s].port = w.compose[s].port
    /\ w.db.revision[1].m = w.compose[s].m /\ w.db.revision[2] = w.caddy
    /\ w.live = w.caddy /\ (w.caddy # Nil => w.caddy.port = w.compose[s].port)
    /\ Routed = {} => w.caddy = Nil /\ w.prevCaddy = Nil
    /\ \A t \in Slots \ {s} : w.docker[t] = Nil
    /\ previous[1] # Nil => /\ previous[1].port # "dynamic"
                            /\ previous[2] # Nil => previous[2].port = previous[1].port
    /\ s = "base" => w.compose["a"] = Nil /\ w.compose["b"] = Nil
    /\ s # "base" /\ w.compose[Other(s)] # Nil => w.compose[Other(s)].port # w.compose[s].port

Whole(w) ==
    IF w.db = Nil
    THEN /\ \A t \in Slots : w.compose[t] = Nil /\ w.docker[t] = Nil
         /\ w.prevCompose = Nil /\ w.caddy = Nil /\ w.prevCaddy = Nil /\ w.live = Nil
    ELSE /\ Matched(w)
         /\ w.db.status = "running" => w.docker[w.db.slot].st = "up"
         /\ InSlots => w.db.status = "running"

\* The active slot of such a world.
LEMMA MatchedActive ==
    ASSUME NEW w, Matched(w)
    PROVE  /\ w.db.slot = "base" \/ InSlots
           /\ w.compose[w.db.slot] # Nil /\ w.compose[w.db.slot].port # "dynamic"
           /\ w.docker[w.db.slot] # Nil
           /\ w.docker[w.db.slot].port = w.compose[w.db.slot].port
           /\ w.live = w.caddy
           /\ w.caddy # Nil => w.caddy.port = w.compose[w.db.slot].port
BY DEF Matched

\* Its predecessor.
LEMMA MatchedPrevious ==
    ASSUME NEW w, Matched(w), PreviousPair(w)[1] # Nil
    PROVE  /\ PreviousPair(w)[1].port # "dynamic"
           /\ PreviousPair(w)[2] # Nil => PreviousPair(w)[2].port = PreviousPair(w)[1].port
BY DEF Matched

\* Its other slots.
LEMMA MatchedOthers ==
    ASSUME NEW w, Matched(w)
    PROVE  /\ \A t \in Slots \ {w.db.slot} : w.docker[t] = Nil
           /\ w.db.slot = "base" => w.compose["a"] = Nil /\ w.compose["b"] = Nil
           /\ w.db.slot # "base" /\ w.compose[Other(w.db.slot)] # Nil =>
                  w.compose[Other(w.db.slot)].port # w.compose[w.db.slot].port
BY DEF Matched

\* What an operation of such a history knows besides OperationInv: it has found a whole
\* project, none of its steps is refused, so none of its error paths runs.
CalmShape(p) ==
    LET j == job[p]
        b == j.before IN
    /\ Whole(b)
    /\ pc[p] # "undo" /\ (pc[p] = "done" => j.result = "ok")
    /\ j.kind = "inplace" => b.db = Nil \/ b.db.slot = "base"
    /\ j.kind = "bluegreen" => InSlots

\* A deployment keeps the pair it replaces, and its containers have a port of their own.
EarlySteps == {"preserve", "write", "config", "up", "ports", "finalize", "cy_preserve"}
CalmChange(p) ==
    LET j == job[p]
        b == j.before IN
    /\ j.kind \in {"inplace", "bluegreen"} =>
          /\ pc[p] # "preserve" => prevCompose = b.compose[j.slot]
          /\ prevCaddy = IF pc[p] \notin EarlySteps /\ j.needsCaddy
                         THEN b.caddy ELSE b.prevCaddy
    /\ j.kind = "bluegreen" /\ pc[p] \notin {"preserve", "write", "config", "up"} =>
          docker[j.target].port # b.docker[j.slot].port
    /\ Recorded(p) => db.revision = <<j.art, j.route>>

CalmControl(p) ==
    LET j == job[p]
        b == j.before IN
    /\ b.db # Nil /\ db # Nil /\ Matched(Now) /\ db.slot = j.slot
    /\ j.kind = "stop" => ~InSlots
    /\ InSlots => db.status = "running"
    /\ pc[p] = "command" => docker = b.docker
    /\ pc[p] = "record" => docker[j.slot].st = IF j.kind = "restart" THEN "up" ELSE "stopped"
    /\ pc[p] = "done" => Whole(Now)

CalmDelete(p) ==
    LET j == job[p]
        b == j.before IN
    /\ b.db # Nil /\ j.slot = b.db.slot /\ j.route = Nil
    /\ pc[p] = "down" =>
          /\ docker = b.docker /\ compose = b.compose /\ live = caddy
          /\ ~j.needsCaddy => caddy = Nil
    /\ pc[p] # "down" => \A s \in Slots : docker[s] = Nil
    /\ pc[p] \in Written => caddy = Nil
    /\ pc[p] \in {"remove", "forget", "done"} => live = Nil

CalmInv(p) ==
    /\ CalmShape(p)
    /\ job[p].kind \in Changes => CalmChange(p)
    /\ job[p].kind \in {"restart", "stop"} => CalmControl(p)
    /\ job[p].kind = "delete" => CalmDelete(p)

CoherentInv ==
    Untroubled =>
    /\ cancelled = {}
    /\ (\A p \in Procs : pc[p] = "idle") => Whole(Now)
    /\ \A p \in Procs : pc[p] # "idle" => CalmInv(p)

\* A failure is never forgotten: the budget does not grow again.
LEMMA Untouchable ==
    ASSUME TypeOK, Untroubled', NEW p \in Procs, NEW refused \in BOOLEAN
    PROVE  /\ ~WriteFails
           /\ WriteDone \/ Runs(p) => Untroubled
           /\ Breaks(p, refused) => (p \in cancelled \/ refused) /\ Untroubled
<1>1. PICK b \in Budgets : b = budget
      BY DEF TypeOK
<1>2. ~WriteFails
  <2> SUFFICES ASSUME WriteFails PROVE FALSE OBVIOUS
  <2>1. b.faults \in 0..MaxFaults /\ budget' = [b EXCEPT !.faults = b.faults - 1]
        BY <1>1 DEF WriteFails, Budgets
  <2>2. budget'.faults = b.faults - 1 /\ budget'.faults = MaxFaults /\ MaxFaults \in Nat
        BY <2>1, BoundsAssumption DEF Untroubled, FullBudget, Budgets
  <2> QED BY <2>1, <2>2
<1>3. UNCHANGED budget => Untroubled BY DEF Untroubled
<1> QED BY <1>2, <1>3 DEF WriteDone, Runs, Breaks

\* What the invariants say of an operation of an untroubled history.
LEMMA InCalm ==
    ASSUME LifecycleInv, CoherentInv, Untroubled, NEW p \in Procs, pc[p] # "idle"
    PROVE  /\ cancelled = {} /\ CalmInv(p) /\ TypeOK /\ Typed(p) /\ ShapeInv(p)
           /\ job[p].kind \in Changes => ChangeInv(p) /\ CalmChange(p)
           /\ CalmShape(p) /\ Whole(job[p].before)
           /\ job[p].before \in World /\ job[p].slot \in Slots /\ job[p].target \in Slots
    BY Working DEF CoherentInv, CalmInv, CalmShape, Typed, Jobs

\* A step of a deployment or a rollback that is not refused.
LEMMA GoesOnCalm ==
    ASSUME NEW p \in Procs, CalmShape(p), job[p].kind \in Changes, Same(p),
           pc'[p] # "undo", pc'[p] = "done" => job'[p].result = "ok", CalmChange(p)'
    PROVE  CalmInv(p)'
<1>1. CalmShape(p)' BY DEF CalmShape
<1> QED BY <1>1 DEF CalmInv, Changes, Replaces

\* Its steps before the route that start no containers and change no previous artifact.
LEMMA QuietCalm ==
    ASSUME NEW p \in Procs, CalmShape(p), CalmChange(p), job[p].kind \in Changes, Same(p),
           pc'[p] \in {"config", "up", "ports", "finalize", "cy_preserve"},
           pc[p] \in EarlySteps \ {"preserve"},
           job[p].kind = "bluegreen" /\ pc'[p] \notin {"config", "up"} =>
               docker'[job[p].target].port # job[p].before.docker[job[p].slot].port,
           UNCHANGED <<prevCompose, prevCaddy>>
    PROVE  CalmInv(p)'
<1>1. CalmChange(p)' BY DEF CalmChange, EarlySteps
<1> QED BY <1>1, GoesOnCalm

\* persistPrevious.
LEMMA PreserveCalm ==
    ASSUME LifecycleInv, CoherentInv, Untroubled', NEW p \in Procs, Preserve(p)
    PROVE  CalmInv(p)'
<1>1. TypeOK /\ pc[p] = "preserve" BY DEF LifecycleInv, Preserve, At
<1>2. WriteDone /\ Untroubled /\ Goto(p, "write") /\ UNCHANGED prevCaddy
      BY <1>1, Untouchable DEF Preserve
<1>3. /\ CalmShape(p) /\ CalmChange(p) /\ job[p].kind \in Changes /\ Typed(p)
      /\ ComposeInv(p)
      BY <1>1, <1>2, InCalm, KindOfStep DEF ChangeInv, Changes, Replaces
<1>4. Same(p) BY PreserveStep
<1>5. pc'[p] = "write" BY <1>2, <1>3, Moves DEF Steps
<1>6. job[p].kind \in {"inplace", "bluegreen"} => prevCompose' = job[p].before.compose[job[p].slot]
  <2> SUFFICES ASSUME job[p].kind \in {"inplace", "bluegreen"}
               PROVE  prevCompose' = job[p].before.compose[job[p].slot]
      OBVIOUS
  <2>1. prevCompose' = compose[job[p].slot] BY <1>1, <1>2, Untouchable DEF Preserve
  <2>2. job[p].slot \in Slots BY <1>3 DEF Typed, Jobs
  <2> QED BY <1>1, <1>3, <2>1, <2>2 DEF ComposeInv
<1>7. CalmChange(p)' BY <1>1, <1>2, <1>3, <1>4, <1>5, <1>6 DEF CalmChange, EarlySteps
<1> QED BY <1>3, <1>4, <1>5, <1>7, GoesOnCalm

\* The artifact is written.
LEMMA WriteComposeCalm ==
    ASSUME LifecycleInv, CoherentInv, Untroubled', NEW p \in Procs, WriteCompose(p)
    PROVE  CalmInv(p)'
<1>1. TypeOK /\ pc[p] = "write" BY DEF LifecycleInv, WriteCompose, At
<1>2. Untroubled /\ Goto(p, "config") /\ UNCHANGED <<prevCompose, prevCaddy>>
      BY <1>1, Untouchable DEF WriteCompose
<1>3. CalmShape(p) /\ CalmChange(p) /\ job[p].kind \in Changes /\ Typed(p)
      BY <1>1, <1>2, InCalm, KindOfStep DEF Changes, Replaces
<1>4. Same(p) BY WriteComposeStep
<1>5. pc'[p] = "config" BY <1>2, <1>3, Moves DEF Steps
<1> QED BY <1>1, <1>2, <1>3, <1>4, <1>5, QuietCalm DEF EarlySteps

\* The artifact is there to be validated.
LEMMA HasArtifact ==
    ASSUME NEW p \in Procs, ChangeInv(p), job[p].kind \in Changes, pc[p] \in {"config", "up"}
    PROVE  compose[job[p].target] = job[p].art /\ job[p].art # Nil
    BY DEF ChangeInv, ComposeInv, PlanInv, Changes, Replaces

\* It is valid.
LEMMA ValidateComposeCalm ==
    ASSUME LifecycleInv, CoherentInv, Untroubled', NEW p \in Procs, ValidateCompose(p)
    PROVE  CalmInv(p)'
<1>1. TypeOK /\ pc[p] = "config" BY DEF LifecycleInv, ValidateCompose, At
<1>2. (compose[job[p].target] = Nil) \in BOOLEAN OBVIOUS
<1>3. Untroubled BY <1>1, <1>2, Untouchable DEF ValidateCompose
<1>4. /\ CalmShape(p) /\ CalmChange(p) /\ job[p].kind \in Changes /\ Typed(p)
      /\ ChangeInv(p) /\ cancelled = {}
      BY <1>1, <1>3, InCalm, KindOfStep DEF Changes, Replaces
<1>5. compose[job[p].target] # Nil BY <1>1, <1>4, HasArtifact
<1>6. Goto(p, "up") /\ UNCHANGED <<prevCompose, prevCaddy>>
      BY <1>1, <1>2, <1>4, <1>5, Untouchable DEF ValidateCompose, worldVars, fileVars
<1>7. Same(p) /\ pc'[p] = "up" BY <1>4, <1>6, ValidateComposeStep, Moves DEF Steps
<1> QED BY <1>1, <1>4, <1>6, <1>7, QuietCalm DEF EarlySteps

\* In a matched project no other containers than those of the active slot hold a port.
LEMMA OnlyActiveHolds ==
    ASSUME NEW p \in Procs, CalmShape(p), ChangeInv(p), Typed(p),
           job[p].kind \in Changes, pc[p] = "up"
    PROVE  \A t \in Slots \ {job[p].target} :
               docker[t] # Nil => /\ job[p].kind \in {"bluegreen", "switchback"}
                                  /\ t = job[p].slot /\ docker[t] = job[p].before.docker[t]
<1> SUFFICES ASSUME NEW t \in Slots \ {job[p].target}, docker[t] # Nil
             PROVE  /\ job[p].kind \in {"bluegreen", "switchback"}
                    /\ t = job[p].slot /\ docker[t] = job[p].before.docker[t]
    OBVIOUS
<1>1. docker[t] = job[p].before.docker[t] BY DEF ChangeInv, DockerInv
<1>2. Whole(job[p].before) /\ PlanInv(p) BY SMTT(30) DEF CalmShape, ChangeInv
<1>3. job[p].before.db # Nil /\ t = job[p].before.db.slot BY <1>1, <1>2 DEF Whole, Matched
<1>4. job[p].kind \notin {"inplace", "rollback"} BY <1>2, <1>3 DEF PlanInv, CalmShape
<1> QED BY <1>1, <1>2, <1>3, <1>4 DEF PlanInv, Changes, Replaces

\* The containers of the target can be started: its artifact is there, and its port free.
LEMMA CanStart ==
    ASSUME LifecycleInv, CoherentInv, Untroubled, NEW p \in Procs, pc[p] = "up",
           job[p].kind \in Changes
    PROVE  ~UpRefused(job[p].target)
<1> DEFINE s == job[p].target
<1> DEFINE b == job[p].before
<1>1. /\ CalmShape(p) /\ ChangeInv(p) /\ Typed(p) /\ compose[s] = job[p].art
      /\ job[p].art # Nil /\ Whole(b) /\ PlanInv(p) /\ b \in World
      BY InCalm, HasArtifact DEF ChangeInv
<1>2. \A t \in Slots \ {s} :
          docker[t] # Nil => /\ job[p].kind \in {"bluegreen", "switchback"}
                             /\ t = job[p].slot /\ docker[t] = b.docker[t]
      BY <1>1, OnlyActiveHolds
<1>3. SUFFICES Publishable(s, job[p].art.port) # {} BY <1>1 DEF UpRefused, Started
<1>4. CASE job[p].kind \in {"inplace", "rollback"}
  <2>1. HeldByOthers(s) = {} BY <1>2, <1>4 DEF HeldByOthers
  <2>2. job[p].art.port # "dynamic"
    <3>1. CASE job[p].kind = "inplace" BY <1>1, <3>1 DEF PlanInv
    <3>2. CASE job[p].kind = "rollback"
      <4>1. b.db # Nil /\ job[p].art = PreviousPair(b)[1]
            BY <1>1, <3>2, SMTT(30) DEF PlanInv, PreviousPair
      <4>2. Matched(b) BY <1>1, <4>1 DEF Whole
      <4> QED BY <1>1, <4>1, <4>2, MatchedPrevious
    <3> QED BY <1>4, <3>1, <3>2
  <2> QED BY <2>1, <2>2 DEF Publishable
<1>5. CASE job[p].kind = "bluegreen"
  <2>1. job[p].art.port = "dynamic" BY <1>1, <1>5 DEF ChangeInv, DockerInv
  <2>2. HeldByOthers(s) \subseteq {docker[job[p].slot].port} BY <1>2 DEF HeldByOthers
  <2>3. PICK c \in DynPorts, d \in DynPorts : c # d BY <1>1, <1>5 DEF CalmShape, InSlots
  <2> QED BY <2>1, <2>2, <2>3 DEF Publishable
<1>6. CASE job[p].kind = "switchback"
  <2>1. /\ b.db # Nil /\ job[p].slot = b.db.slot /\ s = Other(b.db.slot)
        /\ b.db.slot # "base" /\ job[p].art = b.compose[s] /\ Matched(b)
        BY <1>1, <1>6 DEF PlanInv, Whole
  <2>2. job[p].art = PreviousPair(b)[1] BY <1>1, <2>1 DEF PreviousPair
  <2>3. job[p].art.port # "dynamic" BY <1>1, <2>1, <2>2, MatchedPrevious, SMTT(30)
  <2>4. job[p].art.port # b.docker[job[p].slot].port
    <3>1. b.compose[s].port # b.compose[b.db.slot].port BY <1>1, <2>1, MatchedOthers, SMTT(30)
    <3>2. b.docker[b.db.slot].port = b.compose[b.db.slot].port BY <2>1, MatchedActive, SMTT(30)
    <3> QED BY <2>1, <3>1, <3>2, SMTT(30)
  <2>5. job[p].art.port \notin HeldByOthers(s)
        BY <1>2, <2>1, <2>4 DEF HeldByOthers
  <2> QED BY <2>3, <2>5 DEF Publishable
<1> QED BY <1>4, <1>5, <1>6 DEF Changes, Replaces

\* A replacement gets a port that the active containers do not have.
LEMMA OwnPort ==
    ASSUME LifecycleInv, CoherentInv, Untroubled, NEW p \in Procs, pc[p] = "up",
           job[p].kind = "bluegreen", DockerUp(job[p].target)
    PROVE  docker'[job[p].target].port # job[p].before.docker[job[p].slot].port
<1> DEFINE s == job[p].target
<1> DEFINE b == job[p].before
<1>1. /\ CalmShape(p) /\ ChangeInv(p) /\ Typed(p) /\ compose[s] = job[p].art
      /\ job[p].art # Nil /\ Whole(b) /\ PlanInv(p) /\ TypeOK
      /\ job[p].slot \in Slots /\ s \in Slots
      BY InCalm, HasArtifact DEF ChangeInv, Changes, Replaces
<1>2. job[p].art.port = "dynamic" BY <1>1 DEF ChangeInv, DockerInv
<1>3. PICK c \in Started(s, "up") : docker' = [docker EXCEPT ![s] = c] BY DEF DockerUp
<1>4. docker'[s] = c BY <1>1, <1>3 DEF TypeOK
<1>5. PICK port \in Publishable(s, job[p].art.port) :
          c = [st |-> "up", m |-> compose[s].m, port |-> port, pub |-> compose[s].port]
      BY <1>1, <1>3 DEF Started
<1>6. port \notin HeldByOthers(s) BY <1>2, <1>5 DEF Publishable
<1>7. /\ job[p].slot = b.db.slot /\ b.db # Nil /\ job[p].slot # s
      BY <1>1 DEF PlanInv, Other, Slots
<1>8. docker[job[p].slot] = b.docker[job[p].slot] BY <1>1, <1>7 DEF ChangeInv, DockerInv
<1>9. b.docker[job[p].slot] # Nil /\ b.docker[job[p].slot].st = "up"
  <2>1. Matched(b) /\ b.db.status = "running" BY <1>1, <1>7 DEF Whole, CalmShape
  <2>2. b.docker[b.db.slot].st = "up" BY <1>1, <1>7, <2>1, SMTT(30) DEF Whole
  <2> QED BY <1>7, <2>1, <2>2, MatchedActive
<1>10. b.docker[job[p].slot].port \in HeldByOthers(s)
       BY <1>1, <1>7, <1>8, <1>9 DEF HeldByOthers
<1>11. c.port = port BY <1>5
<1> QED BY <1>4, <1>6, <1>10, <1>11

\* The containers start.
LEMMA UpContainersCalm ==
    ASSUME LifecycleInv, CoherentInv, Untroubled', NEW p \in Procs, UpContainers(p)
    PROVE  CalmInv(p)'
<1>1. TypeOK /\ pc[p] = "up" BY DEF LifecycleInv, UpContainers, At
<1>2. UpRefused(job[p].target) \in BOOLEAN BY DEF UpRefused
<1>3. Untroubled BY <1>1, <1>2, Untouchable DEF UpContainers
<1>4. /\ CalmShape(p) /\ CalmChange(p) /\ job[p].kind \in Changes /\ Typed(p)
      /\ ChangeInv(p) /\ cancelled = {}
      BY <1>1, <1>3, InCalm, KindOfStep
<1>5. ~UpRefused(job[p].target) BY <1>1, <1>3, <1>4, CanStart
<1>6. /\ DockerUp(job[p].target) /\ UNCHANGED <<prevCompose, prevCaddy>>
      /\ Goto(p, IF job[p].kind = "bluegreen" THEN "ports" ELSE AfterUp(p))
      BY <1>1, <1>2, <1>4, <1>5, Untouchable DEF UpContainers, fileVars
<1>7. Same(p) BY UpContainersStep
<1>8. CASE job[p].kind = "bluegreen"
  <2>1. pc'[p] = "ports" BY <1>4, <1>6, <1>8, Moves DEF Steps
  <2>2. docker'[job[p].target].port # job[p].before.docker[job[p].slot].port
        BY <1>1, <1>3, <1>6, <1>8, OwnPort
  <2> QED BY <1>1, <1>4, <1>6, <1>7, <2>1, <2>2, QuietCalm DEF EarlySteps
<1>9. CASE job[p].kind # "bluegreen"
  <2>1. pc'[p] \in {"cy_preserve", "put"} BY <1>4, <1>6, <1>9, Moves DEF Steps, AfterUp
  <2>2. pc'[p] = "put" => job[p].needsCaddy # TRUE BY <1>4, <1>6, <1>9, Moves DEF Steps, AfterUp
  <2>3. job[p].needsCaddy \in BOOLEAN BY <1>4 DEF Typed, Jobs
  <2>4. CalmChange(p)'
        BY <1>1, <1>4, <1>6, <1>7, <1>9, <2>1, <2>2, <2>3 DEF CalmChange, EarlySteps
  <2> QED BY <1>4, <1>7, <2>1, <2>4, GoesOnCalm
<1> QED BY <1>8, <1>9

\* Their port is read.
LEMMA ResolvePortsCalm ==
    ASSUME LifecycleInv, CoherentInv, Untroubled', NEW p \in Procs, ResolvePorts(p)
    PROVE  CalmInv(p)'
<1>1. TypeOK /\ pc[p] = "ports" BY DEF LifecycleInv, ResolvePorts, At
<1>2. (docker[job[p].target] = Nil) \in BOOLEAN OBVIOUS
<1>3. Untroubled BY <1>1, <1>2, Untouchable DEF ResolvePorts
<1>4. /\ CalmShape(p) /\ CalmChange(p) /\ job[p].kind = "bluegreen" /\ Typed(p)
      /\ ChangeInv(p) /\ cancelled = {}
      BY <1>1, <1>3, InCalm, KindOfStep DEF Changes, Replaces
<1>5. docker[job[p].target] # Nil BY <1>1, <1>4 DEF ChangeInv, DockerInv, Shown
<1>6. Goto(p, "finalize") /\ UNCHANGED <<prevCompose, prevCaddy, docker>>
      BY <1>1, <1>2, <1>4, <1>5, Untouchable DEF ResolvePorts, worldVars, fileVars
<1>7. Same(p) /\ pc'[p] = "finalize" BY <1>4, <1>6, ResolvePortsStep, Moves DEF Steps
<1>8. docker'[job[p].target].port # job[p].before.docker[job[p].slot].port
      BY <1>1, <1>4, <1>6 DEF CalmChange
<1> QED BY <1>1, <1>4, <1>6, <1>7, <1>8, QuietCalm DEF EarlySteps, Changes, Replaces

\* The artifact is completed.
LEMMA FinalizeCalm ==
    ASSUME LifecycleInv, CoherentInv, Untroubled', NEW p \in Procs, Finalize(p)
    PROVE  CalmInv(p)'
<1>1. TypeOK /\ pc[p] = "finalize" BY DEF LifecycleInv, Finalize, At
<1>2. Untroubled /\ Goto(p, "cy_preserve") /\ UNCHANGED <<prevCompose, prevCaddy, docker>>
      BY <1>1, Untouchable DEF Finalize
<1>3. CalmShape(p) /\ CalmChange(p) /\ job[p].kind = "bluegreen" /\ Typed(p)
      BY <1>1, <1>2, InCalm, KindOfStep DEF Changes, Replaces
<1>4. Same(p) /\ pc'[p] = "cy_preserve" BY <1>2, <1>3, FinalizeStep, Moves DEF Steps
<1>5. docker'[job[p].target].port # job[p].before.docker[job[p].slot].port
      BY <1>1, <1>2, <1>3 DEF CalmChange
<1> QED BY <1>1, <1>2, <1>3, <1>4, <1>5, QuietCalm DEF EarlySteps, Changes, Replaces

\* A step of applyCaddy that is not refused.
LEMMA SwitchesCalm ==
    ASSUME NEW p \in Procs, CalmInv(p), pc[p] \in Switch, job[p].kind \in Changes \cup {"delete"},
           Same(p), job'[p].route = job[p].route,
           pc'[p] \in {"cy_write", "cy_import", "cy_validate", "cy_reload", "put", "remove"},
           UNCHANGED <<docker, prevCompose>>,
           job[p].kind \in {"inplace", "bluegreen"} =>
               prevCaddy' = IF job[p].needsCaddy THEN job[p].before.caddy
                            ELSE job[p].before.prevCaddy,
           job[p].kind = "delete" => /\ pc'[p] \in Written => caddy' = Nil
                                     /\ pc'[p] = "remove" => live' = Nil
    PROVE  CalmInv(p)'
<1>1. CalmShape(p) BY DEF CalmInv
<1>2. CASE job[p].kind \in Changes
  <2>1. CalmChange(p) BY <1>2 DEF CalmInv
  <2>2. CalmChange(p)' BY <2>1 DEF CalmChange, EarlySteps, Switch
  <2> QED BY <1>1, <1>2, <2>2, GoesOnCalm
<1>3. CASE job[p].kind = "delete"
  <2>1. CalmDelete(p) BY <1>3 DEF CalmInv
  <2>2. CalmDelete(p)' BY <1>3, <2>1 DEF CalmDelete, Switch
  <2>3. CalmShape(p)' BY <1>1 DEF CalmShape
  <2> QED BY <1>3, <2>2, <2>3 DEF CalmInv, Changes, Replaces
<1> QED BY <1>2, <1>3

\* What a step of applyCaddy knows.
LEMMA InSwitch ==
    ASSUME LifecycleInv, CoherentInv, Untroubled, NEW p \in Procs, pc[p] \in Switch
    PROVE  /\ cancelled = {} /\ CalmInv(p) /\ Typed(p) /\ TypeOK
           /\ job[p].kind \in Changes \cup {"delete"} /\ job[p].needsCaddy = TRUE
           /\ job[p].kind \in Changes => ChangeInv(p)
           /\ job[p].kind = "delete" => CalmDelete(p)
           /\ job[p].kind \in {"inplace", "bluegreen"} =>
                  prevCaddy = IF pc[p] # "cy_preserve" THEN job[p].before.caddy
                              ELSE job[p].before.prevCaddy
<1>1. /\ cancelled = {} /\ CalmInv(p) /\ Typed(p) /\ TypeOK /\ ShapeInv(p)
      /\ job[p].kind \in Changes => ChangeInv(p)
      BY InCalm DEF Switch
<1>2. job[p].kind \in Changes \cup {"delete"} BY <1>1, KindOfStep
<1>3. job[p].needsCaddy = TRUE BY <1>1 DEF ShapeInv
<1>4. job[p].kind \in {"inplace", "bluegreen"} =>
          prevCaddy = IF pc[p] # "cy_preserve" THEN job[p].before.caddy
                      ELSE job[p].before.prevCaddy
      BY <1>1, <1>3 DEF CalmInv, CalmChange, EarlySteps, Switch, Changes, Replaces
<1> QED BY <1>1, <1>2, <1>3, <1>4 DEF CalmInv

\* applyCaddy keeps the previous snippet.
LEMMA CaddyPreserveCalm ==
    ASSUME LifecycleInv, CoherentInv, Untroubled', NEW p \in Procs, CaddyPreserve(p)
    PROVE  CalmInv(p)'
<1>1. TypeOK /\ pc[p] = "cy_preserve" /\ UNCHANGED <<docker, prevCompose>>
      BY DEF LifecycleInv, CaddyPreserve, At
<1>2. /\ Untroubled /\ Goto(p, "cy_write") /\ prevCaddy' = caddy
      /\ job' = [job EXCEPT ![p].cSnap = caddy, ![p].iSnap = imported]
      BY <1>1, Untouchable DEF CaddyPreserve
<1>3. /\ CalmInv(p) /\ Typed(p) /\ job[p].kind \in Changes \cup {"delete"}
      /\ job[p].needsCaddy = TRUE /\ (job[p].kind \in Changes => ChangeInv(p))
      BY <1>1, <1>2, InSwitch DEF Switch
<1>4. Same(p) /\ job'[p].route = job[p].route BY <1>1, <1>2, UpdateSnaps DEF TypeOK
<1>5. pc'[p] = "cy_write" BY <1>2, <1>3, Moves DEF Steps
<1>6. job[p].kind \in Changes => prevCaddy' = job[p].before.caddy
      BY <1>1, <1>2, <1>3 DEF ChangeInv, SnippetInv, BeforeSwitch
<1> QED BY <1>1, <1>3, <1>4, <1>5, <1>6, SwitchesCalm DEF Switch, Changes, Replaces, Written

\* It writes the snippet.
LEMMA CaddyWriteCalm ==
    ASSUME LifecycleInv, CoherentInv, Untroubled', NEW p \in Procs, CaddyWrite(p)
    PROVE  CalmInv(p)'
<1>1. TypeOK /\ pc[p] = "cy_write" /\ UNCHANGED <<docker, prevCompose, prevCaddy>>
      BY DEF LifecycleInv, CaddyWrite, At
<1>2. Untroubled /\ Goto(p, "cy_import") /\ caddy' = job[p].route /\ UNCHANGED job
      BY <1>1, Untouchable DEF CaddyWrite
<1>3. /\ CalmInv(p) /\ Typed(p) /\ job[p].kind \in Changes \cup {"delete"}
      /\ job[p].needsCaddy = TRUE /\ (job[p].kind = "delete" => CalmDelete(p))
      /\ job[p].kind \in {"inplace", "bluegreen"} => prevCaddy = job[p].before.caddy
      BY <1>1, <1>2, InSwitch DEF Switch
<1>4. Carries(p) BY <1>2, <1>3, Stays
<1>5. pc'[p] = "cy_import" BY <1>2, <1>3, Moves DEF Steps
<1>6. job[p].kind = "delete" => caddy' = Nil BY <1>2, <1>3 DEF CalmDelete
<1> QED BY <1>1, <1>3, <1>4, <1>5, <1>6, SwitchesCalm DEF Switch

\* It imports and validates it.
LEMMA CaddyChecksCalm ==
    ASSUME LifecycleInv, CoherentInv, Untroubled', NEW p \in Procs,
           CaddyImport(p) \/ CaddyValidate(p)
    PROVE  CalmInv(p)'
<1>1. /\ TypeOK /\ pc[p] \in {"cy_import", "cy_validate"}
      /\ UNCHANGED <<docker, prevCompose, prevCaddy, caddy>>
      BY DEF LifecycleInv, CaddyImport, CaddyValidate, At, worldVars, fileVars
<1>2. Untroubled BY <1>1, Untouchable DEF CaddyImport, CaddyValidate
<1>3. /\ CalmInv(p) /\ Typed(p) /\ job[p].kind \in Changes \cup {"delete"}
      /\ job[p].needsCaddy = TRUE /\ (job[p].kind = "delete" => CalmDelete(p))
      /\ job[p].kind \in {"inplace", "bluegreen"} => prevCaddy = job[p].before.caddy
      /\ cancelled = {}
      BY <1>1, <1>2, InSwitch DEF Switch
<1>4. (Goto(p, "cy_validate") \/ Goto(p, "cy_reload")) /\ UNCHANGED job
      BY <1>1, <1>3, Untouchable DEF CaddyImport, CaddyValidate
<1>5. Carries(p) BY <1>3, <1>4, Stays
<1>6. pc'[p] \in {"cy_validate", "cy_reload"} BY <1>3, <1>4, Moves DEF Steps
<1>7. job[p].kind = "delete" => caddy' = Nil BY <1>1, <1>3 DEF CalmDelete, Written
<1> QED BY <1>1, <1>3, <1>5, <1>6, <1>7, SwitchesCalm DEF Switch

\* It reloads Caddy.
LEMMA CaddyReloadCalm ==
    ASSUME LifecycleInv, CoherentInv, Untroubled', NEW p \in Procs, CaddyReload(p)
    PROVE  CalmInv(p)'
<1>1. /\ TypeOK /\ pc[p] = "cy_reload"
      /\ UNCHANGED <<docker, prevCompose, prevCaddy, caddy>>
      BY DEF LifecycleInv, CaddyReload, At, fileVars
<1>2. Untroubled BY <1>1, Untouchable DEF CaddyReload
<1>3. /\ CalmInv(p) /\ Typed(p) /\ job[p].kind \in Changes \cup {"delete"}
      /\ job[p].needsCaddy = TRUE /\ (job[p].kind = "delete" => CalmDelete(p))
      /\ job[p].kind \in {"inplace", "bluegreen"} => prevCaddy = job[p].before.caddy
      /\ cancelled = {}
      BY <1>1, <1>2, InSwitch DEF Switch
<1>4. Reload /\ Goto(p, Switched(p)) /\ UNCHANGED job
      BY <1>1, <1>3, Untouchable DEF CaddyReload
<1>5. Carries(p) BY <1>3, <1>4, Stays
<1>6. pc'[p] \in {"put", "remove"} BY <1>3, <1>4, Moves DEF Steps, Switched
<1>7. job[p].kind = "delete" => live' = Nil
      BY <1>1, <1>3, <1>4 DEF CalmDelete, Written, Reload
<1> QED BY <1>1, <1>3, <1>5, <1>6, <1>7, SwitchesCalm DEF Switch, Written

\* The deployment is recorded.
LEMMA PutDeploymentCalm ==
    ASSUME LifecycleInv, CoherentInv, Untroubled', NEW p \in Procs, PutDeployment(p)
    PROVE  CalmInv(p)'
<1>1. /\ TypeOK /\ pc[p] = "put" /\ UNCHANGED <<docker, prevCompose, prevCaddy>>
      BY DEF LifecycleInv, PutDeployment, At, fileVars
<1>2. Untroubled BY <1>1, Untouchable DEF PutDeployment
<1>3. /\ CalmShape(p) /\ CalmChange(p) /\ job[p].kind \in Changes /\ Typed(p)
      /\ cancelled = {}
      BY <1>1, <1>2, InCalm, KindOfStep
<1>4. /\ db' = [status |-> "running", slot |-> job[p].target,
                revision |-> <<job[p].art, job[p].route>>]
      /\ \/ Goto(p, "drain") /\ UNCHANGED job
         \/ Finish(p, "ok")
      BY <1>1, <1>3, Untouchable DEF PutDeployment
<1>5. /\ Keeps(p)
      /\ pc'[p] = "drain" \/ (pc'[p] = "done" /\ job'[p].result = "ok")
      BY <1>1, <1>3, <1>4, Moves, Ends, Stays DEF Steps, Results
<1>6. db'.revision = <<job'[p].art, job'[p].route>> BY <1>4, <1>5
<1>7. CalmChange(p)' BY <1>1, <1>3, <1>5, <1>6 DEF CalmChange, EarlySteps
<1> QED BY <1>3, <1>5, <1>7, GoesOnCalm

\* The containers of the other slot are removed.
LEMMA DrainCalm ==
    ASSUME LifecycleInv, CoherentInv, Untroubled', NEW p \in Procs, Drain(p)
    PROVE  CalmInv(p)'
<1>1. /\ TypeOK /\ pc[p] = "drain" /\ UNCHANGED <<db, prevCompose, prevCaddy>>
      BY DEF LifecycleInv, Drain, At, fileVars
<1>2. (compose[job[p].slot] = Nil) \in BOOLEAN OBVIOUS
<1>3. Untroubled BY <1>1, <1>2, Untouchable DEF Drain
<1>4. /\ CalmShape(p) /\ CalmChange(p) /\ job[p].kind \in {"bluegreen", "switchback"}
      /\ Typed(p) /\ cancelled = {} /\ ChangeInv(p)
      BY <1>1, <1>3, InCalm, KindOfStep DEF Changes, Replaces
<1>5. /\ job[p].before.db # Nil /\ job[p].slot = job[p].before.db.slot
      /\ job[p].slot \in Slots \ {job[p].target}
      BY <1>4 DEF ChangeInv, PlanInv, Typed, Jobs, Other, Slots
<1>6. compose[job[p].slot] # Nil
  <2>1. job[p].before.compose[job[p].slot] # Nil BY <1>4, <1>5 DEF CalmShape, Whole, Matched
  <2> QED BY <1>4, <1>5, <2>1, SMTT(30) DEF ChangeInv, ComposeInv
<1>7. DockerDown(job[p].slot) /\ Finish(p, "ok")
      BY <1>1, <1>2, <1>4, <1>6, Untouchable DEF Drain
<1>8. Keeps(p) /\ pc'[p] = "done" /\ job'[p].result = "ok"
      BY <1>1, <1>4, <1>7, Ends DEF Results
<1>9. docker'[job[p].target] = docker[job[p].target]
      BY <1>1, <1>5, <1>7 DEF DockerDown, TypeOK
<1>10. CalmChange(p)' BY <1>1, <1>4, <1>8, <1>9 DEF CalmChange, EarlySteps
<1> QED BY <1>4, <1>8, <1>10, GoesOnCalm DEF Changes, Replaces

\* What has landed when a deployment or a rollback is about to return.
Landed(p) ==
    LET j == job[p]
        b == j.before IN
    /\ TypeOK /\ Typed(p) /\ PlanInv(p) /\ CalmShape(p) /\ CalmChange(p) /\ b \in World
    /\ j.kind \in Changes /\ j.slot \in Slots /\ j.target \in Slots
    /\ db # Nil /\ db.status = "running" /\ db.slot = j.target
    /\ db.revision = <<j.art, j.route>>
    /\ compose[j.target] = j.art /\ j.art # Nil /\ Shown(docker[j.target], j.art)
    /\ caddy = j.route /\ live = j.route
    /\ \A t \in Slots \ {j.target} : compose[t] = b.compose[t] /\ docker[t] = Nil

\* It has landed then.
LEMMA AtLanding ==
    ASSUME LifecycleInv, CoherentInv, Untroubled, NEW p \in Procs, pc[p] = "done",
           job[p].kind \in Changes
    PROVE  Landed(p)
<1> DEFINE j == job[p]
<1> DEFINE b == job[p].before
<1>1. /\ TypeOK /\ Typed(p) /\ ChangeInv(p) /\ CalmShape(p) /\ CalmChange(p)
      /\ j.slot \in Slots /\ j.target \in Slots /\ j.result = "ok" /\ Whole(b) /\ b \in World
      BY InCalm DEF CalmShape
<1>2. PlanInv(p) BY <1>1 DEF ChangeInv
<1>3. /\ db # Nil /\ db.status = "running" /\ db.slot = j.target
      /\ db.revision = <<j.art, j.route>>
      BY <1>1, SMTT(30) DEF ChangeInv, RowInv, CalmChange
<1>4. compose[j.target] = j.art /\ j.art # Nil
      BY <1>1, <1>2 DEF ChangeInv, ComposeInv, PlanInv, Changes, Replaces
<1>5. Shown(docker[j.target], j.art) BY <1>1 DEF ChangeInv, DockerInv
<1>6. /\ caddy = IF j.needsCaddy THEN j.route ELSE b.caddy
      /\ live = IF j.needsCaddy THEN j.route ELSE b.live
      BY <1>1, SMTT(30) DEF ChangeInv, SnippetInv, LiveInv, BeforeSwitch, Switch
<1>7. b.live = b.caddy BY <1>1 DEF Whole, Matched
<1>8. ~j.needsCaddy => b.caddy = Nil /\ j.route = Nil
      BY <1>1, <1>2 DEF PlanInv, RouteOf, Changes, Replaces
<1>9. \A t \in Slots \ {j.target} : compose[t] = b.compose[t] BY <1>1 DEF ChangeInv, ComposeInv
<1>10. ASSUME NEW t \in Slots \ {j.target} PROVE docker[t] = Nil
  <2>1. CASE j.kind \in {"inplace", "rollback"}
    <3>1. j.slot = j.target BY <1>2, <2>1 DEF PlanInv
    <3>2. docker[t] = b.docker[t] BY <1>1, <3>1 DEF ChangeInv, DockerInv
    <3>3. b.db # Nil => b.db.slot = j.target BY <1>1, <1>2, <2>1, SMTT(30) DEF PlanInv, CalmShape
    <3> QED BY <1>1, <3>2, <3>3 DEF Whole, Matched
  <2>2. CASE j.kind \in {"bluegreen", "switchback"}
    <3>1. docker[j.slot] = Nil BY <1>1, <2>2 DEF ChangeInv, DockerInv
    <3>2. t # j.slot => docker[t] = b.docker[t] BY <1>1 DEF ChangeInv, DockerInv
    <3>3. b.db # Nil /\ b.db.slot = j.slot BY <1>2, <2>2 DEF PlanInv
    <3> QED BY <1>1, <3>1, <3>2, <3>3 DEF Whole, Matched
  <2> QED BY <2>1, <2>2, SMTT(30) DEF Changes, Replaces
<1>11. caddy = j.route /\ live = j.route
  <2>1. CASE j.needsCaddy = TRUE BY <1>6, <2>1
  <2>2. CASE j.needsCaddy = FALSE BY <1>6, <1>7, <1>8, <2>2
  <2> QED BY <1>1, <2>1, <2>2 DEF Typed, Jobs
<1> QED BY <1>1, <1>2, <1>3, <1>4, <1>5, <1>9, <1>10, <1>11 DEF Landed

\* What the artifact, the route and the rest of the files must be for the project to be
\* whole again.
Fits(art, route, target) ==
    LET previous == PreviousPair(Now) IN
    /\ target = "base" \/ InSlots
    /\ art.port # "dynamic"
    /\ route # Nil => route.port = art.port
    /\ Routed = {} => route = Nil /\ prevCaddy = Nil
    /\ previous[1] # Nil => /\ previous[1].port # "dynamic"
                            /\ previous[2] # Nil => previous[2].port = previous[1].port
    /\ target = "base" => compose["a"] = Nil /\ compose["b"] = Nil
    /\ target # "base" /\ compose[Other(target)] # Nil =>
           compose[Other(target)].port # art.port

\* What is left to show that the project is whole again.
LEMMA WholeAgain ==
    ASSUME NEW p \in Procs, Landed(p), Fits(job[p].art, job[p].route, job[p].target)
    PROVE  Whole(Now)
<1>1. /\ Now.compose = compose /\ Now.prevCompose = prevCompose /\ Now.caddy = caddy
      /\ Now.prevCaddy = prevCaddy /\ Now.live = live /\ Now.docker = docker /\ Now.db = db
      BY FoundWorld DEF Landed
<1>2. /\ docker[db.slot] # Nil /\ docker[db.slot].st = "up"
      /\ docker[db.slot].m = compose[db.slot].m /\ docker[db.slot].port = compose[db.slot].port
  <2>1. /\ db.slot = job[p].target /\ compose[job[p].target] = job[p].art
        /\ Shown(docker[job[p].target], job[p].art)
        BY DEF Landed
  <2>2. Shown(docker[db.slot], compose[db.slot]) /\ compose[db.slot].port # "dynamic"
        BY <2>1 DEF Fits
  <2> QED BY <2>2 DEF Shown
<1>3. db.revision[1].m = compose[db.slot].m /\ db.revision[2] = caddy BY DEF Landed
<1>4. Matched(Now) BY <1>1, <1>2, <1>3 DEF Landed, Matched, Fits
<1> QED BY <1>1, <1>2, <1>4 DEF Landed, Whole

\* A deployment in place.
LEMMA LandsInPlace ==
    ASSUME NEW p \in Procs, Landed(p), OneSort, job[p].kind = "inplace", pc[p] = "done"
    PROVE  Whole(Now)
<1> DEFINE j == job[p]
<1> DEFINE b == job[p].before
<1>1. /\ j.slot = "base" /\ j.target = "base" /\ j.route = RouteOf(j.art.m, "stable")
      /\ j.art.port = "stable" \/ (j.art.port = "none" /\ j.art.m \notin Routed)
      /\ j.needsCaddy = (j.art.m \in Routed \/ b.caddy # Nil)
      BY DEF Landed, PlanInv
<1>2. Whole(b) /\ (b.db = Nil \/ b.db.slot = "base") BY DEF Landed, CalmShape
<1>3. /\ prevCompose = b.compose["base"]
      /\ prevCaddy = IF j.needsCaddy THEN b.caddy ELSE b.prevCaddy
      BY <1>1 DEF Landed, CalmChange, EarlySteps
<1>4. j.route # Nil => j.route.port = j.art.port BY <1>1, SMTT(30) DEF RouteOf
<1>5. Routed = {} => b.caddy = Nil /\ b.prevCaddy = Nil BY <1>2 DEF Whole, Matched
<1>6. Routed = {} => j.route = Nil /\ prevCaddy = Nil BY <1>1, <1>3, <1>5 DEF RouteOf
<1>7. j.art.m \in Manifests BY DEF Landed, Typed, Jobs, MaybeArtifact, Artifacts
<1>8. j.art.m \in Routed \/ Routed = {} BY <1>7 DEF OneSort, InSlots
<1>9. prevCaddy = Nil \/ prevCaddy = b.caddy BY <1>1, <1>3, <1>5, <1>8
<1>10. PreviousPair(Now) = <<prevCompose, prevCaddy>>
  <2>1. Now.db.slot = "base" /\ Now.prevCompose = prevCompose /\ Now.prevCaddy = prevCaddy
        BY <1>1, FoundWorld DEF Landed
  <2> QED BY <2>1 DEF PreviousPair
<1>11. prevCompose # Nil => /\ prevCompose.port # "dynamic"
                            /\ prevCaddy # Nil => prevCaddy.port = prevCompose.port
  <2>1. CASE b.db = Nil BY <1>2, <1>3, <2>1 DEF Whole, Slots
  <2>2. CASE b.db # Nil
    <3>1. Matched(b) /\ b.db.slot = "base" BY <1>2, <2>2 DEF Whole
    <3> QED BY <1>3, <1>9, <3>1, MatchedActive
  <2> QED BY <2>1, <2>2
<1>12. compose["a"] = Nil /\ compose["b"] = Nil
  <2>1. b.compose["a"] = Nil /\ b.compose["b"] = Nil BY <1>2 DEF Whole, Matched, Slots
  <2> QED BY <1>1, <2>1, SMTT(30) DEF Landed, Slots
<1>13. j.art.port # "dynamic" BY <1>1
<1>14. PreviousPair(Now)[1] # Nil =>
           /\ PreviousPair(Now)[1].port # "dynamic"
           /\ PreviousPair(Now)[2] # Nil =>
                  PreviousPair(Now)[2].port = PreviousPair(Now)[1].port
       BY <1>10, <1>11
<1>15. Fits(j.art, j.route, j.target)
       BY <1>1, <1>4, <1>6, <1>12, <1>13, <1>14 DEF Fits
<1> QED BY <1>15, WholeAgain

\* A deployment to the other slot.
LEMMA LandsInSlot ==
    ASSUME NEW p \in Procs, Landed(p), ChangeInv(p), job[p].kind = "bluegreen", pc[p] = "done",
           job[p].result = "ok"
    PROVE  Whole(Now)
<1> DEFINE j == job[p]
<1> DEFINE b == job[p].before
<1>1. /\ b.db # Nil /\ j.slot = b.db.slot /\ j.target = Other(j.slot) /\ j.slot \in Slots
      /\ j.art.m \in Routed /\ j.needsCaddy = TRUE
      BY SMTT(30) DEF Landed, PlanInv
<1>2. InSlots /\ Matched(b) BY <1>1 DEF Landed, CalmShape, Whole
<1>3. /\ j.art.port = docker[j.target].port
      /\ j.route = [m |-> j.art.m, port |-> j.art.port]
      BY DEF ChangeInv, DockerInv
<1>4. j.art.port # "dynamic" BY <1>3, PortsAssumption DEF Landed, Shown
<1>5. j.target \in {"a", "b"} /\ j.target # j.slot BY <1>1, SMTT(30) DEF Other, Slots
<1>6. prevCompose = b.compose[j.slot] /\ prevCaddy = b.caddy
      BY <1>1 DEF Landed, CalmChange, EarlySteps
<1>7. Other(j.target) = j.slot \/ (j.slot = "base" /\ compose[Other(j.target)] = Nil)
  <2>1. CASE j.slot = "base"
    <3>1. j.target = "a" /\ Other(j.target) = "b" BY <1>1, <2>1 DEF Other
    <3> QED BY <1>1, <1>2, <2>1, <3>1 DEF Landed, Matched, Slots
  <2>2. CASE j.slot # "base" BY <1>1, <2>2 DEF Other, Slots
  <2> QED BY <2>1, <2>2
<1>8. compose[j.slot] = b.compose[j.slot] /\ b.compose[j.slot] # Nil
  <2>1. compose[j.slot] = b.compose[j.slot] BY <1>1, <1>5 DEF Landed
  <2>2. b.compose[j.slot] # Nil BY <1>1, <1>2, MatchedActive
  <2> QED BY <2>1, <2>2
<1>9. PreviousPair(Now) = <<b.compose[j.slot], b.caddy>>
  <2>1. /\ Now.db.slot = j.target /\ Now.compose = compose
        /\ Now.prevCompose = prevCompose /\ Now.prevCaddy = prevCaddy
        BY FoundWorld, SMTT(30) DEF Landed
  <2> QED BY <1>5, <1>6, <1>7, <1>8, <2>1 DEF PreviousPair
<1>10. /\ b.compose[j.slot].port # "dynamic"
       /\ b.caddy # Nil => b.caddy.port = b.compose[j.slot].port
       /\ b.compose[j.slot].port = b.docker[j.slot].port
       BY <1>1, <1>2, MatchedActive, SMTT(30)
<1>11. j.art.port # b.compose[j.slot].port BY <1>3, <1>10 DEF Landed, CalmChange
<1>12. Routed # {} BY <1>1
<1>13. j.route # Nil => j.route.port = j.art.port BY <1>3
<1>14. compose[Other(j.target)] # Nil => compose[Other(j.target)].port # j.art.port
       BY <1>7, <1>8, <1>11
<1>15. PreviousPair(Now)[1] # Nil =>
           /\ PreviousPair(Now)[1].port # "dynamic"
           /\ PreviousPair(Now)[2] # Nil =>
                  PreviousPair(Now)[2].port = PreviousPair(Now)[1].port
       BY <1>9, <1>10
<1>16. Routed = {} => j.route = Nil /\ prevCaddy = Nil BY <1>12
<1>17. j.target = "base" => compose["a"] = Nil /\ compose["b"] = Nil BY <1>5
<1>18. Fits(j.art, j.route, j.target)
       BY <1>2, <1>4, <1>13, <1>14, <1>15, <1>16, <1>17 DEF Fits
<1> QED BY <1>18, WholeAgain

\* A rollback exchanges the pairs, each of which is one deployment.
LEMMA LandsBack ==
    ASSUME LifecycleInv, NEW p \in Procs, Landed(p), ChangeInv(p),
           job[p].kind \in {"rollback", "switchback"}, pc[p] = "done", job[p].result = "ok"
    PROVE  Whole(Now)
<1> DEFINE j == job[p]
<1> DEFINE b == job[p].before
<1>1. /\ b.db # Nil /\ j.slot = b.db.slot /\ j.art # Nil /\ Matched(b)
      /\ j.target \in Slots /\ j.slot \in Slots
      BY DEF Landed, PlanInv, CalmShape, Whole
<1>2. PreviousPair(Now) = CurrentPair(b)
      BY PairsExchanged DEF RollbackExchangesPairs, Ended, At
<1>3. CurrentPair(b) = <<b.compose[j.slot], b.caddy>> BY <1>1, SMTT(30) DEF CurrentPair
<1>4. PreviousPair(b) = <<j.art, j.route>> BY <1>1 DEF Landed, PlanInv, PreviousPair
<1>5. j.art.port # "dynamic" /\ (j.route # Nil => j.route.port = j.art.port)
      BY <1>1, <1>4, MatchedPrevious
<1>6. /\ b.compose[j.slot].port # "dynamic"
      /\ b.caddy # Nil => b.caddy.port = b.compose[j.slot].port
      BY <1>1, MatchedActive, SMTT(30)
<1>7. Routed = {} => j.route = Nil /\ prevCaddy = Nil
  <2>1. prevCaddy \in {b.caddy, b.prevCaddy} /\ j.route = b.prevCaddy
        BY DEF ChangeInv, PreviousRouteInv, PlanInv
  <2> QED BY <1>1, <2>1 DEF Matched
<1>8. PreviousPair(Now)[1] # Nil =>
           /\ PreviousPair(Now)[1].port # "dynamic"
           /\ PreviousPair(Now)[2] # Nil =>
                  PreviousPair(Now)[2].port = PreviousPair(Now)[1].port
       BY <1>2, <1>3, <1>6
<1>9. CASE j.kind = "rollback"
  <2>1. j.target = j.slot BY <1>9 DEF Landed, PlanInv
  <2>2. j.target = "base" \/ InSlots BY <1>1, <2>1, MatchedActive
  <2>3. j.target = "base" => compose["a"] = Nil /\ compose["b"] = Nil
        BY <1>1, <2>1 DEF Landed, Matched, Slots
  <2>4. j.target # "base" => compose[Other(j.target)] = Nil
    <3>1. j.target # "base" => b.compose[Other(j.target)] = Nil
          BY <1>1, <1>9, <2>1 DEF Landed, PlanInv
    <3>2. j.target # "base" => Other(j.target) \in Slots \ {j.target}
          BY <1>1 DEF Other, Slots
    <3> QED BY <3>1, <3>2, SMTT(30) DEF Landed
  <2>5. Fits(j.art, j.route, j.target)
        BY <1>5, <1>7, <1>8, <2>2, <2>3, <2>4 DEF Fits
  <2> QED BY <2>5, WholeAgain
<1>10. CASE j.kind = "switchback"
  <2>1. /\ j.slot \in {"a", "b"} /\ j.target = Other(j.slot) /\ j.target \in {"a", "b"}
        /\ Other(j.target) = j.slot /\ j.slot # j.target
        BY <1>1, <1>10, SMTT(30) DEF Landed, PlanInv, Other, Slots
  <2>2. InSlots BY <1>1, <2>1, MatchedActive, SMTT(30)
  <2>3. compose[j.slot] = b.compose[j.slot] BY <1>1, <2>1 DEF Landed
  <2>4. j.art = b.compose[j.target] BY <1>10 DEF Landed, PlanInv
  <2>5. b.compose[j.target].port # b.compose[j.slot].port
    <3>1. b.db.slot # "base" /\ Other(b.db.slot) = j.target BY <1>1, <2>1
    <3>2. b.compose[Other(b.db.slot)] # Nil BY <1>1, <2>4, <3>1
    <3>3. b.compose[Other(b.db.slot)].port # b.compose[b.db.slot].port
          BY <1>1, <3>1, <3>2, MatchedOthers
    <3> QED BY <1>1, <3>1, <3>3
  <2>6. compose[Other(j.target)].port # j.art.port BY <2>1, <2>3, <2>4, <2>5
  <2>7. Fits(j.art, j.route, j.target)
        BY <1>5, <1>7, <1>8, <2>1, <2>2, <2>6 DEF Fits
  <2> QED BY <2>7, WholeAgain
<1> QED BY <1>9, <1>10, SMTT(30)

\* A deployment or a rollback leaves a whole project.
LEMMA ChangeLands ==
    ASSUME LifecycleInv, CoherentInv, Untroubled, OneSort, NEW p \in Procs, pc[p] = "done",
           job[p].kind \in Changes
    PROVE  Whole(Now)
<1>1. Landed(p) BY AtLanding
<1>2. ChangeInv(p) /\ job[p].result = "ok" BY InCalm DEF CalmShape
<1> QED BY <1>1, <1>2, LandsInPlace, LandsInSlot, LandsBack DEF Changes, Replaces

\* A step spends a failure of the budget, or nothing, unless it is a restart.
LEMMA StepSpends ==
    ASSUME NEW p \in Procs,
           Deploying(p) \/ ApplyCaddy(p) \/ Undo(p) \/ Controlling(p) \/ Deleting(p)
    PROVE  UNCHANGED budget \/ WriteFails \/ ControlContainers(p)
<1> USE DEF WriteDone, Runs, Breaks
<1>1. CASE Deploying(p)
      BY <1>1 DEF Deploying, Preserve, WriteCompose, ValidateCompose, UpContainers,
         ResolvePorts, Finalize, PutDeployment, Drain
<1>2. CASE ApplyCaddy(p)
      BY <1>2 DEF ApplyCaddy, CaddyPreserve, CaddyWrite, CaddyImport, CaddyValidate,
         CaddyReload
<1>3. CASE Undo(p)
      BY <1>3 DEF Undo, UndoCompose, UndoPrevious, UndoCaddy, UndoWriteFails, UndoUp,
         UndoDown, UndoReload
<1>4. CASE Controlling(p) BY <1>4 DEF Controlling, RecordStatus
<1>5. CASE Deleting(p)
      BY <1>5 DEF Deleting, DeleteContainers, RemoveFile, RemoveFails, Forget
<1> QED BY <1>1, <1>2, <1>3, <1>4, <1>5

\* A restart that has moved containers is never forgotten either.
LEMMA ControlBefore ==
    ASSUME LifecycleInv, Untroubled', NEW p \in Procs, ControlContainers(p)
    PROVE  Untroubled
<1>1. TypeOK /\ pc[p] = "command" /\ FALSE \in BOOLEAN
      BY DEF LifecycleInv, ControlContainers, At
<1>2. PICK b \in Budgets : b = budget BY <1>1 DEF TypeOK
<1>3. ~WriteFails /\ job[p].slot \in Slots BY <1>1, Untouchable, Working DEF Typed, Jobs
<1>4. budget' = [b EXCEPT !.moved = budget'.moved] /\ (b.moved => budget'.moved)
      BY <1>1, <1>2, <1>3, ControlBudget
<1> QED BY <1>2, <1>4 DEF Untroubled, FullBudget, Budgets

\* So an untroubled step has an untroubled past, and no error path runs.
LEMMA CalmBefore ==
    ASSUME LifecycleInv, CoherentInv, Untroubled', NEW p \in Procs,
           Deploying(p) \/ ApplyCaddy(p) \/ Undo(p) \/ Controlling(p) \/ Deleting(p)
    PROVE  Untroubled /\ ~Undo(p)
<1>1. TypeOK /\ FALSE \in BOOLEAN BY DEF LifecycleInv
<1>2. ~WriteFails BY <1>1, Untouchable
<1>3. Untroubled
  <2>1. CASE ControlContainers(p) BY <1>1, <2>1, ControlBefore
  <2> QED BY <1>2, <2>1, StepSpends DEF Untroubled
<1>4. ASSUME Undo(p) PROVE FALSE
  <2>1. pc[p] = "undo"
        BY <1>4 DEF Undo, UndoCompose, UndoPrevious, UndoCaddy, UndoWriteFails, UndoUp,
           UndoDown, UndoReload, Undoing, At
  <2> QED BY <1>3, <2>1, InCalm DEF CalmShape
<1> QED BY <1>3, <1>4

\* A project stays matched when only the state of its containers and its status change.
LEMMA MatchedStays ==
    ASSUME Matched(Now), UNCHANGED <<compose, prevCompose, caddy, prevCaddy, live>>,
           db'.slot = db.slot, db'.revision = db.revision,
           docker'[db.slot] # Nil, docker'[db.slot].m = docker[db.slot].m,
           docker'[db.slot].port = docker[db.slot].port,
           \A t \in Slots \ {db.slot} : docker'[t] = docker[t]
    PROVE  Matched(Now)'
<1>1. /\ Now.compose = compose /\ Now.prevCompose = prevCompose /\ Now.caddy = caddy
      /\ Now.prevCaddy = prevCaddy /\ Now.live = live /\ Now.docker = docker /\ Now.db = db
      BY DEF Now
<1>2. /\ Now'.compose = compose' /\ Now'.prevCompose = prevCompose' /\ Now'.caddy = caddy'
      /\ Now'.prevCaddy = prevCaddy' /\ Now'.live = live' /\ Now'.docker = docker'
      /\ Now'.db = db'
      BY DEF Now
<1>3. PreviousPair(Now') = PreviousPair(Now) BY <1>1, <1>2 DEF PreviousPair
<1> QED BY <1>1, <1>2, <1>3 DEF Matched

\* The containers are restarted or stopped.
LEMMA ControlContainersCalm ==
    ASSUME LifecycleInv, CoherentInv, Untroubled', NEW p \in Procs, ControlContainers(p)
    PROVE  CalmInv(p)'
<1> DEFINE s == job[p].slot
<1> DEFINE st == IF job[p].kind = "stop" THEN "stopped" ELSE "up"
<1>1. /\ TypeOK /\ pc[p] = "command"
      /\ UNCHANGED <<compose, prevCompose, caddy, prevCaddy, live, db>>
      BY DEF LifecycleInv, ControlContainers, At, fileVars
<1>2. Untroubled BY CalmBefore DEF Controlling
<1>3. /\ CalmShape(p) /\ Typed(p) /\ cancelled = {} /\ s \in Slots
      /\ job[p].kind \in {"restart", "stop"} /\ CalmControl(p)
      BY <1>1, <1>2, InCalm, KindOfStep DEF CalmInv
<1>4. Matched(Now) /\ db # Nil /\ db.slot = s BY <1>3 DEF CalmControl
<1>5. Now.compose = compose /\ Now.docker = docker /\ Now.db = db BY <1>1, FoundWorld
<1>6. compose[s] # Nil /\ docker[s] # Nil /\ \A t \in Slots \ {s} : docker[t] = Nil
      BY <1>4, <1>5 DEF Matched
<1>7. HeldByOthers(s) = {} BY <1>6 DEF HeldByOthers
<1>8. PICK c \in Containers : c = docker[s] BY <1>1, <1>3, <1>6 DEF TypeOK
<1>9. Restarted(s) # {}
  <2>1. c.port \in Publishable(s, c.pub)
        BY <1>7, <1>8 DEF Publishable, Containers
  <2> QED BY <1>8, <2>1 DEF Restarted
<1>10. \/ /\ \E d \in IF job[p].kind = "stop" THEN {[c EXCEPT !.st = "stopped"]} ELSE Restarted(s) :
                /\ docker' = [docker EXCEPT ![s] = d]
                /\ budget' = [budget EXCEPT !.moved =
                                 budget.moved \/ (d # Nil /\ d.port # c.port)]
           /\ Goto(p, "record") /\ UNCHANGED job
       \/ Breaks(p, FALSE)
       BY <1>3, <1>6, <1>8, <1>9 DEF ControlContainers
<1>11. ~Breaks(p, FALSE) BY <1>1, <1>3, Untouchable
<1>12. PICK d \in IF job[p].kind = "stop" THEN {[c EXCEPT !.st = "stopped"]} ELSE Restarted(s) :
           /\ docker' = [docker EXCEPT ![s] = d]
           /\ budget' = [budget EXCEPT !.moved = budget.moved \/ (d # Nil /\ d.port # c.port)]
       BY <1>10, <1>11
<1>13. Goto(p, "record") /\ UNCHANGED job BY <1>10, <1>11
<1>14. Carries(p) /\ pc'[p] = "record" BY <1>3, <1>13, Stays, Moves DEF Steps
<1>15. d \in Containers /\ d.m = c.m /\ d.st = st
  <2>1. CASE job[p].kind = "stop" BY <1>12, <2>1 DEF Containers
  <2>2. CASE job[p].kind = "restart"
    <3>1. PICK port \in Publishable(s, c.pub) : d = [c EXCEPT !.st = "up", !.port = port]
          BY <1>8, <1>12, <2>2 DEF Restarted
    <3>2. IF c.pub = "dynamic" THEN port \in DynPorts ELSE port = c.pub
          BY <3>1 DEF Publishable
    <3>3. port \in Ports BY <3>2 DEF Ports, Containers
    <3> QED BY <2>2, <3>1, <3>2, <3>3 DEF Containers
  <2> QED BY <1>3, <2>1, <2>2
<1>16. d # Nil BY <1>15, NilAssumption
<1>17. d.port = c.port
  <2>1. PICK b \in Budgets : b = budget BY <1>1 DEF TypeOK
  <2>2. budget' = [b EXCEPT !.moved = b.moved \/ d.port # c.port] BY <1>12, <1>16, <2>1
  <2>3. budget'.moved = (b.moved \/ d.port # c.port) BY <2>2 DEF Budgets
  <2>4. ~budget'.moved BY DEF Untroubled, FullBudget
  <2> QED BY <2>3, <2>4
<1>18. /\ docker'[s] # Nil /\ docker'[s].m = docker[s].m /\ docker'[s].port = docker[s].port
       /\ docker'[s].st = st /\ \A t \in Slots \ {s} : docker'[t] = docker[t]
  <2>1. docker'[s] = d /\ \A t \in Slots \ {s} : docker'[t] = docker[t]
        BY <1>1, <1>3, <1>12 DEF TypeOK
  <2> QED BY <1>8, <1>15, <1>16, <1>17, <2>1
<1>19. Matched(Now)' BY <1>1, <1>4, <1>18, MatchedStays
<1>20. CalmControl(p)' BY <1>1, <1>3, <1>14, <1>18, <1>19 DEF CalmControl
<1>21. CalmShape(p)' BY <1>3, <1>14 DEF CalmShape
<1> QED BY <1>3, <1>14, <1>20, <1>21 DEF CalmInv, Changes, Replaces

\* Their status is recorded.
LEMMA RecordStatusCalm ==
    ASSUME LifecycleInv, CoherentInv, Untroubled', NEW p \in Procs, RecordStatus(p)
    PROVE  CalmInv(p)'
<1> DEFINE s == job[p].slot
<1>1. /\ TypeOK /\ pc[p] = "record"
      /\ UNCHANGED <<compose, prevCompose, caddy, prevCaddy, live, docker>>
      BY DEF LifecycleInv, RecordStatus, At, fileVars
<1>2. Untroubled BY CalmBefore DEF Controlling
<1>3. /\ CalmShape(p) /\ Typed(p) /\ cancelled = {} /\ s \in Slots
      /\ job[p].kind \in {"restart", "stop"} /\ CalmControl(p)
      BY <1>1, <1>2, InCalm, KindOfStep DEF CalmInv
<1>4. /\ Matched(Now) /\ db # Nil /\ db.slot = s /\ (job[p].kind = "stop" => ~InSlots)
      /\ docker[s].st = IF job[p].kind = "restart" THEN "up" ELSE "stopped"
      BY <1>1, <1>3 DEF CalmControl
<1>5. \/ db' = [db EXCEPT !.status = StatusAfter(job[p].kind)] /\ Finish(p, "ok")
      \/ Breaks(p, FALSE)
      BY <1>4 DEF RecordStatus
<1>6. db' = [db EXCEPT !.status = StatusAfter(job[p].kind)] /\ Finish(p, "ok")
      BY <1>1, <1>3, <1>5, Untouchable
<1>7. Keeps(p) /\ pc'[p] = "done" /\ job'[p].result = "ok"
      BY <1>1, <1>3, <1>6, Ends DEF Results
<1>8. /\ db' # Nil /\ db'.slot = db.slot /\ db'.revision = db.revision
      /\ db'.status = StatusAfter(job[p].kind)
  <2>1. PICK d \in Deployments : d = db BY <1>1, <1>4 DEF TypeOK
  <2>2. StatusAfter(job[p].kind) \in {"running", "stopped"} BY DEF StatusAfter
  <2>3. PICK e : e = [d EXCEPT !.status = StatusAfter(job[p].kind)] OBVIOUS
  <2>4. e \in Deployments /\ e.slot = d.slot /\ e.revision = d.revision
        /\ e.status = StatusAfter(job[p].kind)
        BY <2>2, <2>3 DEF Deployments
  <2> QED BY <1>6, <2>1, <2>3, <2>4, NilAssumption
<1>9. Now.docker = docker /\ Now.db = db BY <1>1, FoundWorld
<1>10. docker[db.slot] # Nil BY <1>4, <1>9 DEF Matched
<1>11. Matched(Now)' BY <1>1, <1>4, <1>8, <1>10, MatchedStays
<1>12. db'.status = "running" => docker'[db'.slot].st = "up"
       BY <1>1, <1>3, <1>4, <1>8 DEF StatusAfter
<1>13. InSlots => db'.status = "running" BY <1>3, <1>4, <1>8 DEF StatusAfter
<1>14. Now'.docker = docker' /\ Now'.db = db' BY DEF Now
<1>15. Whole(Now)' BY <1>8, <1>11, <1>12, <1>13, <1>14 DEF Whole
<1>16. CalmControl(p)' BY <1>3, <1>4, <1>7, <1>8, <1>11, <1>13, <1>15 DEF CalmControl
<1>17. CalmShape(p)' BY <1>3, <1>7 DEF CalmShape
<1> QED BY <1>3, <1>7, <1>16, <1>17 DEF CalmInv, Changes, Replaces

\* What a step of a deletion knows, and what is left to show of it.
LEMMA InDeletion ==
    ASSUME LifecycleInv, CoherentInv, Untroubled, NEW p \in Procs,
           pc[p] \in {"down", "remove", "forget"}
    PROVE  /\ CalmShape(p) /\ CalmDelete(p) /\ Typed(p) /\ TypeOK /\ cancelled = {}
           /\ job[p].kind = "delete"
    BY InCalm, KindOfStep DEF CalmInv

\* A step of a deletion outside of applyCaddy that is not refused.
LEMMA DeletesCalm ==
    ASSUME NEW p \in Procs, CalmShape(p), CalmDelete(p), job[p].kind = "delete", Keeps(p),
           pc'[p] \in {"cy_preserve", "remove", "forget", "done"},
           pc'[p] = "done" => job'[p].result = "ok",
           \A s \in Slots : docker'[s] = Nil,
           pc'[p] # "cy_preserve" => live' = Nil
    PROVE  CalmInv(p)'
<1>1. CalmShape(p)' BY DEF CalmShape
<1>2. CalmDelete(p)' BY DEF CalmDelete, Written
<1> QED BY <1>1, <1>2 DEF CalmInv, Changes, Replaces

\* The containers are removed.
LEMMA DeleteContainersCalm ==
    ASSUME LifecycleInv, CoherentInv, Untroubled', NEW p \in Procs, DeleteContainers(p)
    PROVE  CalmInv(p)'
<1> DEFINE s == job[p].slot
<1> DEFINE b == job[p].before
<1>1. TypeOK /\ pc[p] = "down" /\ UNCHANGED <<caddy, live>>
      BY DEF LifecycleInv, DeleteContainers, At, fileVars
<1>2. Untroubled BY CalmBefore DEF Deleting
<1>3. CalmShape(p) /\ CalmDelete(p) /\ Typed(p) /\ cancelled = {} /\ job[p].kind = "delete"
      BY <1>1, <1>2, InDeletion
<1>4. /\ s = b.db.slot /\ b.db # Nil /\ docker = b.docker /\ compose = b.compose
      /\ live = caddy /\ (~job[p].needsCaddy => caddy = Nil) /\ Matched(b)
      BY <1>1, <1>3, SMTT(30) DEF CalmDelete, CalmShape, Whole
<1>5. compose[s] # Nil /\ \A t \in Slots \ {s} : docker[t] = Nil BY <1>4 DEF Matched
<1>6. \/ /\ DockerDown(s) /\ UNCHANGED job
         /\ Goto(p, IF job[p].needsCaddy THEN "cy_preserve" ELSE "remove")
      \/ Breaks(p, FALSE)
      BY <1>5 DEF DeleteContainers
<1>7. /\ DockerDown(s) /\ UNCHANGED job
      /\ Goto(p, IF job[p].needsCaddy THEN "cy_preserve" ELSE "remove")
      BY <1>1, <1>3, <1>6, Untouchable
<1>8. \A t \in Slots : docker'[t] = Nil BY <1>1, <1>5, <1>7 DEF DockerDown, TypeOK
<1>9. Carries(p) BY <1>3, <1>7, Stays
<1>10. pc'[p] = IF job[p].needsCaddy THEN "cy_preserve" ELSE "remove"
       BY <1>3, <1>7, Moves DEF Steps
<1>11. pc'[p] # "cy_preserve" => live' = Nil BY <1>1, <1>4, <1>10
<1> QED BY <1>3, <1>8, <1>9, <1>10, <1>11, DeletesCalm

\* The files are removed, then the row.
LEMMA RemovalsCalm ==
    ASSUME LifecycleInv, CoherentInv, Untroubled', NEW p \in Procs,
           RemoveFile(p) \/ RemoveFails(p) \/ Forget(p)
    PROVE  CalmInv(p)'
<1>1. /\ TypeOK /\ pc[p] \in {"remove", "forget"} /\ UNCHANGED <<live, docker>>
      BY DEF LifecycleInv, RemoveFile, Removing, RemoveFails, Forget, At, worldVars
<1>2. Untroubled BY CalmBefore DEF Deleting
<1>3. CalmShape(p) /\ CalmDelete(p) /\ Typed(p) /\ cancelled = {} /\ job[p].kind = "delete"
      BY <1>1, <1>2, InDeletion
<1>4. live' = Nil /\ \A s \in Slots : docker'[s] = Nil BY <1>1, <1>3 DEF CalmDelete
<1>5. CASE RemoveFile(p)
  <2>1. PICK what : Removing(p, what) BY <1>5 DEF RemoveFile
  <2>2. Keeps(p) /\ pc'[p] \in {"remove", "forget"} BY <2>1, Strikes
  <2> QED BY <1>3, <1>4, <2>2, DeletesCalm
<1>6. CASE RemoveFails(p) BY <1>1, <1>6, Untouchable DEF RemoveFails
<1>7. CASE Forget(p)
  <2>1. Finish(p, "ok") \/ Breaks(p, FALSE) BY <1>7 DEF Forget
  <2>2. Finish(p, "ok") BY <1>1, <1>3, <2>1, Untouchable
  <2>3. Keeps(p) /\ pc'[p] = "done" /\ job'[p].result = "ok"
        BY <1>1, <1>3, <2>2, Ends DEF Results
  <2> QED BY <1>3, <1>4, <2>3, DeletesCalm
<1> QED BY <1>5, <1>6, <1>7

\* A deletion leaves nothing, which is whole as well; a restart and a stop leave what they
\* show at their end.
LEMMA Lands ==
    ASSUME LifecycleInv, CoherentInv, Untroubled, OneSort, NEW p \in Procs, pc[p] = "done"
    PROVE  Whole(Now)
<1>1. TypeOK /\ Typed(p) /\ CalmInv(p) /\ CalmShape(p) /\ RemovedInv(p) BY InCalm, Working
<1>2. CASE job[p].kind \in Changes BY <1>2, ChangeLands
<1>3. CASE job[p].kind \in {"restart", "stop"} BY <1>1, <1>3 DEF CalmInv, CalmControl
<1>4. CASE job[p].kind = "delete"
  <2>1. job[p].result = "ok" /\ CalmDelete(p) BY <1>1, <1>4 DEF CalmInv, CalmShape
  <2>2. job[p].todo = {} BY <1>1, <1>4, <2>1 DEF RemovedInv
  <2>3. /\ db = Nil /\ compose["base"] = Nil /\ compose["a"] = Nil /\ compose["b"] = Nil
        /\ prevCompose = Nil /\ caddy = Nil /\ prevCaddy = Nil
        BY <1>1, <1>4, <2>1, <2>2 DEF RemovedInv
  <2>4. live = Nil /\ \A s \in Slots : docker[s] = Nil BY <2>1 DEF CalmDelete
  <2> QED BY <1>1, <2>3, <2>4, FoundWorld DEF Whole, Slots
<1> QED BY <1>1, <1>2, <1>3, <1>4 DEF Typed, Jobs, Kinds, Changes, Replaces

\* A deployment, a rollback, a restart, a stop or a deletion that starts finds a whole project.
LEMMA StartCalm ==
    ASSUME LifecycleInv, OneSort, NEW p \in Procs, Start(p), Whole(Now)
    PROVE  CalmInv(p)' /\ pc'[p] # "idle"
<1> DEFINE j == job'[p]
<1>1. TypeOK BY DEF LifecycleInv
<1>2. /\ compose' = compose /\ prevCompose' = prevCompose /\ caddy' = caddy
      /\ prevCaddy' = prevCaddy /\ live' = live /\ docker' = docker /\ db' = db
      BY DEF Start, StartDeploy, StartRollback, StartSwitchback, StartControl, StartDelete,
         worldVars, fileVars
<1>3. /\ Now.compose = compose /\ Now.prevCompose = prevCompose /\ Now.caddy = caddy
      /\ Now.prevCaddy = prevCaddy /\ Now.live = live /\ Now.docker = docker /\ Now.db = db
      BY <1>1, FoundWorld
<1>4. db # Nil => Matched(Now) /\ (InSlots => db.status = "running")
      BY <1>3 DEF Whole
<1>5. ASSUME j.kind \in Changes, j.before = Now, pc'[p] \in {"preserve", "config"},
             j.kind \in {"inplace", "bluegreen"} => pc'[p] = "preserve",
             j.kind = "inplace" => db = Nil \/ db.slot = "base",
             j.kind = "bluegreen" => InSlots
      PROVE  CalmInv(p)' /\ pc'[p] # "idle"
  <2>1. CalmShape(p)' BY <1>3, <1>5 DEF CalmShape
  <2>2. CalmChange(p)' BY <1>2, <1>3, <1>5 DEF CalmChange, EarlySteps
  <2> QED BY <1>5, <2>1, <2>2 DEF CalmInv, Changes, Replaces
<1>6. ASSUME NEW m \in Manifests, StartDeploy(p, m) PROVE CalmInv(p)' /\ pc'[p] # "idle"
  <2>1. /\ j.before = Now /\ pc'[p] = "preserve"
        /\ j.kind = IF db # Nil /\ db.status = "running" /\ Eligible(m)
                    THEN "bluegreen" ELSE "inplace"
        BY <1>1, <1>6, StartDeployStep
  <2>2. j.kind = "bluegreen" => InSlots BY <2>1 DEF Eligible, OneSort
  <2>3. InSlots => Eligible(m) BY DEF InSlots, Eligible
  <2>4. db # Nil => db.slot = "base" \/ InSlots BY <1>3, <1>4 DEF Matched
  <2>5. j.kind = "inplace" => db = Nil \/ db.slot = "base" BY <1>4, <2>1, <2>3, <2>4
  <2>6. j.kind \in Changes BY <2>1 DEF Changes, Replaces
  <2> QED BY <1>5, <2>1, <2>2, <2>5, <2>6
<1>7. CASE StartRollback(p)
  <2>1. j.before = Now /\ pc'[p] = "preserve" /\ j.kind = "rollback"
        BY <1>1, <1>7, StartRollbackStep
  <2> QED BY <1>5, <2>1 DEF Changes, Replaces
<1>8. CASE StartSwitchback(p)
  <2>1. j.before = Now /\ pc'[p] = "config" /\ j.kind = "switchback"
        BY <1>1, <1>8, StartSwitchbackStep
  <2> QED BY <1>5, <2>1 DEF Changes
<1>9. ASSUME NEW action \in {"restart", "stop"}, StartControl(p, action)
      PROVE  CalmInv(p)' /\ pc'[p] # "idle"
  <2>1. j.before = Now /\ pc'[p] = "command" /\ j.kind = action /\ j.slot = db.slot
        BY <1>1, <1>9, StartControlStep
  <2>2. db # Nil /\ action \in Ops BY <1>9 DEF StartControl
  <2>3. action = "stop" => ~InSlots BY <2>2 DEF InSlots
  <2>4. Now' = Now BY <1>2, <1>9 DEF Now, StartControl, worldVars, fileVars
  <2>5. CalmShape(p)' BY <2>1 DEF CalmShape
  <2>6. CalmControl(p)' BY <1>2, <1>3, <1>4, <2>1, <2>2, <2>3, <2>4 DEF CalmControl
  <2> QED BY <2>1, <2>5, <2>6 DEF CalmInv, Changes, Replaces
<1>10. CASE StartDelete(p)
  <2>1. db # Nil BY <1>3, <1>10 DEF StartDelete, Whole, Slots
  <2>2. compose[ActiveSlot] # Nil /\ ActiveSlot = db.slot /\ live = caddy
        BY <1>3, <1>4, <2>1 DEF Matched, ActiveSlot
  <2>3. /\ j.before = Now /\ pc'[p] = "down" /\ j.kind = "delete" /\ j.route = Nil
        /\ j.slot = db.slot /\ (~j.needsCaddy => caddy = Nil)
        BY <1>1, <1>10, <2>2, StartDeleteStep
  <2>4. CalmShape(p)' BY <2>3 DEF CalmShape
  <2>5. CalmDelete(p)' BY <1>2, <1>3, <2>1, <2>2, <2>3 DEF CalmDelete, Written
  <2> QED BY <2>3, <2>4, <2>5 DEF CalmInv, Changes, Replaces
<1> QED BY <1>6, <1>7, <1>8, <1>9, <1>10 DEF Start

\* Every step of an operation, as long as nothing has failed.
LEMMA OperationCalm ==
    ASSUME LifecycleInv, CoherentInv, Untroubled', NEW p \in Procs,
           Deploying(p) \/ ApplyCaddy(p) \/ Undo(p) \/ Controlling(p) \/ Deleting(p)
    PROVE  CalmInv(p)'
<1>1. CASE Deploying(p)
      BY <1>1, PreserveCalm, WriteComposeCalm, ValidateComposeCalm, UpContainersCalm,
         ResolvePortsCalm, FinalizeCalm, PutDeploymentCalm, DrainCalm DEF Deploying
<1>2. CASE ApplyCaddy(p)
      BY <1>2, CaddyPreserveCalm, CaddyWriteCalm, CaddyChecksCalm, CaddyReloadCalm
      DEF ApplyCaddy
<1>3. CASE Undo(p) BY <1>3, CalmBefore
<1>4. CASE Controlling(p) BY <1>4, ControlContainersCalm, RecordStatusCalm DEF Controlling
<1>5. CASE Deleting(p) BY <1>5, DeleteContainersCalm, RemovalsCalm DEF Deleting
<1> QED BY <1>1, <1>2, <1>3, <1>4, <1>5

\* Every step keeps the invariant.
LEMMA CoherentStep ==
    ASSUME LifecycleInv, TypeOK', CoherentInv, OneAtATime, OneSort, [Next]_vars
    PROVE  CoherentInv'
<1> SUFFICES ASSUME Untroubled' PROVE CoherentInv' BY DEF CoherentInv
<1>1. TypeOK BY DEF LifecycleInv
<1>2. ASSUME NEW p \in Procs,
             Deploying(p) \/ ApplyCaddy(p) \/ Undo(p) \/ Controlling(p) \/ Deleting(p)
      PROVE  CoherentInv'
  <2>1. CalmInv(p)' /\ Untroubled BY <1>2, OperationCalm, CalmBefore
  <2>2. pc'[p] # "idle"
        BY <1>2, OperationStep, StepsBusy DEF OperationInv, ShapeInv, StepsOf, Switch
  <2>3. cancelled' = cancelled
        BY <1>2 DEF Deploying, Preserve, WriteCompose, ValidateCompose, UpContainers,
           ResolvePorts, Finalize, PutDeployment, Drain, ApplyCaddy, CaddyPreserve,
           CaddyWrite, CaddyImport, CaddyValidate, CaddyReload, Undo, UndoCompose,
           UndoPrevious, UndoCaddy, UndoWriteFails, UndoUp, UndoDown, UndoReload,
           Controlling, ControlContainers, RecordStatus, Deleting, DeleteContainers,
           RemoveFile, RemoveFails, Forget
  <2>4. \A q \in Procs : q = p BY DEF OneAtATime
  <2> QED BY <2>1, <2>2, <2>3, <2>4 DEF CoherentInv
<1>3. ASSUME NEW p \in Procs, Start(p) PROVE CoherentInv'
  <2>1. pc[p] = "idle" /\ UNCHANGED <<cancelled, budget>>
        BY <1>3 DEF Start, StartDeploy, StartRollback, StartSwitchback, StartControl,
           StartDelete, At
  <2>2. \A q \in Procs : q = p BY DEF OneAtATime
  <2>3. Untroubled BY <2>1 DEF Untroubled
  <2>4. Whole(Now) /\ cancelled = {} BY <2>1, <2>2, <2>3 DEF CoherentInv
  <2>5. CalmInv(p)' /\ pc'[p] # "idle" BY <1>3, <2>4, StartCalm
  <2> QED BY <2>1, <2>2, <2>4, <2>5 DEF CoherentInv
<1>4. ASSUME NEW p \in Procs, Return(p) PROVE CoherentInv'
  <2>1. /\ pc[p] = "done" /\ UNCHANGED <<budget, worldVars>> /\ cancelled' = cancelled \ {p}
        /\ pc' = [pc EXCEPT ![p] = "idle"]
        BY <1>4 DEF Return, At, Leave, Goto
  <2>2. Untroubled BY <2>1 DEF Untroubled
  <2>3. Whole(Now) /\ cancelled = {} BY <2>1, <2>2, Lands, InCalm
  <2>4. Now' = Now BY <2>1 DEF Now, worldVars, fileVars
  <2>5. pc'[p] = "idle" BY <1>1, <2>1 DEF TypeOK
  <2>6. \A q \in Procs : q = p BY DEF OneAtATime
  <2>7. Whole(Now)' BY <2>3, <2>4
  <2> QED BY <2>1, <2>3, <2>5, <2>6, <2>7 DEF CoherentInv
<1>5. PICK b \in Budgets : b = budget
      BY <1>1 DEF TypeOK
<1>6. ASSUME NEW p \in Procs, Crash(p) PROVE FALSE
  <2>1. budget' = [b EXCEPT !.crashes = b.crashes - 1] /\ b.crashes \in 0..MaxCrashes
        BY <1>5, <1>6 DEF Crash, Budgets
  <2>2. budget'.crashes = b.crashes - 1 /\ MaxCrashes \in Nat
        BY <2>1, BoundsAssumption DEF Budgets
  <2> QED BY <2>1, <2>2 DEF Untroubled, FullBudget
<1>7. ASSUME NEW p \in Procs, Cancel(p) PROVE FALSE
  <2>1. budget' = [b EXCEPT !.cancels = b.cancels - 1] /\ b.cancels \in 0..MaxCancels
        BY <1>5, <1>7 DEF Cancel, Budgets
  <2>2. budget'.cancels = b.cancels - 1 /\ MaxCancels \in Nat
        BY <2>1, BoundsAssumption DEF Budgets
  <2> QED BY <2>1, <2>2 DEF Untroubled, FullBudget
<1>8. CASE UNCHANGED vars
  <2>1. /\ UNCHANGED <<compose, prevCompose, caddy, prevCaddy, live, docker, db, pc, job,
                       cancelled, budget>>
        /\ Now' = Now
        BY <1>8 DEF vars, Now
  <2>2. \A p \in Procs : CalmInv(p) => CalmInv(p)'
        BY <2>1 DEF CalmInv, CalmShape, CalmChange, CalmControl, CalmDelete
  <2> QED BY <2>1, <2>2 DEF CoherentInv, Untroubled
<1> QED BY <1>2, <1>3, <1>4, <1>6, <1>7, <1>8 DEF Next, Step

\* With manifests of one sort, CoherentInv is an invariant: as long as nothing has failed
\* and no restart has moved containers to another port, nothing is refused either, so no
\* error path runs.
THEOREM CoherentInvariance ==
    ASSUME OneAtATime, OneSort
    PROVE  Spec => [](LifecycleInv /\ CoherentInv)
<1>1. Init => CoherentInv BY DEF Init, CoherentInv, Whole, Now
<1>2. CoherentInv /\ LifecycleInv /\ LifecycleInv' /\ [Next]_vars => CoherentInv'
      BY CoherentStep DEF LifecycleInv
<1> QED BY <1>1, <1>2, LifecycleInvariance, PTL DEF Spec

\* Coherence (Deploy, Rollback, Control and Delete one after another): as long as nothing
\* has failed, no restart has moved containers to another port and no command runs, the
\* row, the files, the containers and the live route of a project whose manifests are of
\* one sort describe one deployment, and nothing else of it runs.
THEOREM CoherentHistory ==
    ASSUME OneAtATime, OneSort
    PROVE  Spec => []Coherent
<1>1. LifecycleInv /\ CoherentInv => Coherent
  <2> SUFFICES ASSUME LifecycleInv, CoherentInv, Untroubled, \A p \in Procs : At(p, "idle")
               PROVE  Coherent
      BY DEF Coherent
  <2>1. TypeOK /\ Whole(Now) BY DEF LifecycleInv, CoherentInv, At
  <2>2. /\ Now.compose = compose /\ Now.prevCompose = prevCompose /\ Now.caddy = caddy
        /\ Now.prevCaddy = prevCaddy /\ Now.live = live /\ Now.docker = docker /\ Now.db = db
        BY <2>1, FoundWorld
  <2>3. CASE db = Nil
    <3>1. /\ \A t \in Slots : compose[t] = Nil /\ docker[t] = Nil
          /\ prevCompose = Nil /\ caddy = Nil /\ prevCaddy = Nil /\ live = Nil
          BY <2>1, <2>2, <2>3 DEF Whole
    <3>2. compose = [s \in Slots |-> Nil] /\ docker = [s \in Slots |-> Nil]
          BY <2>1, <3>1 DEF TypeOK
    <3> QED BY <2>3, <3>1, <3>2 DEF Coherent
  <2>4. CASE db # Nil
    <3>1. Matched(Now) /\ (db.status = "running" => docker[db.slot].st = "up")
          BY <2>1, <2>2, <2>4 DEF Whole
    <3>2. /\ compose[db.slot].port # "dynamic" /\ docker[db.slot] # Nil
          /\ docker[db.slot].m = compose[db.slot].m
          /\ docker[db.slot].port = compose[db.slot].port
          /\ db.revision[1].m = compose[db.slot].m /\ db.revision[2] = caddy
          /\ live = caddy /\ (caddy # Nil => caddy.port = compose[db.slot].port)
          /\ \A t \in Slots \ {db.slot} : docker[t] = Nil
          BY <2>2, <3>1 DEF Matched
    <3>3. db.status = "running" => Serving(db.slot, compose[db.slot])
          BY <3>1, <3>2 DEF Serving, Running
    <3> QED BY <2>4, <3>2, <3>3 DEF Coherent
  <2> QED BY <2>3, <2>4
<1> QED BY <1>1, CoherentInvariance, PTL
=============================================================================
