------------------------------ MODULE SecretStore ------------------------------
(***************************************************************************)
(* Secrets: secret/store.go, cli/secret.go and the part of a deployment    *)
(* that hands them to the containers (project/lifecycle.go, Deploy).       *)
(*                                                                         *)
(* A project has one file with all of its secrets, encrypted to the host's *)
(* one age identity, which the first `secret set` generates.  A command    *)
(* loads the whole file, changes it and replaces it; a deployment writes   *)
(* the secrets the manifest names to the runtime directory.  No lock is    *)
(* taken: any two commands may run at once.  A process may die, and a file *)
(* operation may fail, between two steps.                                  *)
(*                                                                         *)
(* Simplifications.                                                        *)
(*  - A project is a project in one environment.  A file is replaced       *)
(*    atomically (atomicWrite), so it is absent or complete.               *)
(*  - Modes, owners and the encodings of a value are left out; `rotate` is *)
(*    `set`; `list` only reads.                                            *)
(*  - Removing the stale files of a runtime directory is one step.         *)
(* Definitions named X_mistake are not part of the model: each is an       *)
(* erroneous variant of X, and a property must tell the two apart.         *)
(***************************************************************************)
EXTENDS Naturals, FiniteSets

CONSTANTS
    Commands,   \* processes that run a command
    Projects, Names, Values,
    None,       \* nothing
    MaxJobs, MaxFaults, MaxDeaths  \* bounds

ASSUME ValuesAssumption == None \notin Values \cup Projects \cup Names \cup Nat
ASSUME BoundsAssumption == {MaxJobs, MaxFaults, MaxDeaths} \subseteq Nat

VARIABLES
    identity,  \* the host's age identity, None before there is one
    store,     \* store file of each project: the key it is encrypted to and its values
    runtime,   \* runtime directory of each project
    pc, job,   \* step of a command, and what it works on
    generated, \* identities generated so far
    kept,      \* history: what the commands that succeeded have stored
    loaded,    \* history: values a deployment loaded, once it has been handed them all
    raced,     \* history: two commands found no identity at the same time
    overlap,   \* history: projects of which two commands were under way at once
    jobs, faults, deaths

secretBounds == <<jobs, faults, deaths>>
secretHistory == <<kept, loaded, raced, overlap>>
secretVars == <<identity, store, runtime, pc, job, generated, secretHistory, secretBounds>>

Keys == 1..MaxJobs
Secrets == [Names -> Values \cup {None}]
NoSecrets == [n \in Names |-> None]
NoStore == [key |-> None, values |-> NoSecrets]
NoJob == [op |-> None, project |-> None, name |-> None, value |-> None,
          specs |-> {}, todo |-> {}, values |-> NoSecrets, key |-> None]

SecretInit ==
    /\ identity = None /\ generated = 0
    /\ store = [p \in Projects |-> NoStore]
    /\ runtime = [p \in Projects |-> NoSecrets]
    /\ pc = [c \in Commands |-> "idle"] /\ job = [c \in Commands |-> NoJob]
    /\ kept = [p \in Projects |-> NoSecrets]
    /\ loaded = [p \in Projects |-> None]
    /\ raced = FALSE /\ overlap = {}
    /\ jobs = 0 /\ faults = 0 /\ deaths = 0

Exists(p) == store[p] # NoStore
Decrypts(p) == store[p].key = identity

Begin(c, j) ==
    /\ pc[c] = "idle" /\ jobs < MaxJobs
    /\ jobs' = jobs + 1
    /\ pc' = [pc EXCEPT ![c] = "load"]
    /\ job' = [job EXCEPT ![c] = j]
    /\ overlap' = IF \E d \in Commands : pc[d] # "idle" /\ job[d].project = j.project
                  THEN overlap \cup {j.project} ELSE overlap

Return(c) ==
    /\ pc' = [pc EXCEPT ![c] = "idle"]
    /\ job' = [job EXCEPT ![c] = NoJob]

Goto(c, step) == pc' = [pc EXCEPT ![c] = step]

Fault == faults < MaxFaults /\ faults' = faults + 1

-----------------------------------------------------------------------------
(* The commands.                                                             *)

Set(c) == \E p \in Projects, n \in Names, v \in Values :
    /\ Begin(c, [NoJob EXCEPT !.op = "set", !.project = p, !.name = n, !.value = v])
    /\ UNCHANGED <<identity, store, runtime, generated, kept, loaded, raced, faults, deaths>>

RemoveSecret(c) == \E p \in Projects, n \in Names :
    /\ Begin(c, [NoJob EXCEPT !.op = "remove", !.project = p, !.name = n])
    /\ UNCHANGED <<identity, store, runtime, generated, kept, loaded, raced, faults, deaths>>

\* The specs are the secrets the manifest names at that time.
Materialize(c) == \E p \in Projects, specs \in SUBSET Names \ {{}} :
    /\ Begin(c, [NoJob EXCEPT !.op = "deploy", !.project = p, !.specs = specs, !.todo = specs])
    /\ loaded' = [loaded EXCEPT ![p] = None]
    /\ UNCHANGED <<identity, store, runtime, generated, kept, raced, faults, deaths>>

\* What the command does with the values it has loaded.
Changed(j, values) ==
    IF j.op = "deploy" THEN values
    ELSE [values EXCEPT ![j.name] = IF j.op = "set" THEN j.value ELSE None]

AfterLoad(j, values) ==
    CASE j.op = "set" -> "identity"
      [] j.op = "remove" ->
            IF values[j.name] = None THEN "idle"
            ELSE IF Changed(j, values) = NoSecrets THEN "unlink" ELSE "identity"
      [] j.op = "deploy" -> IF values = NoSecrets THEN "ensure" ELSE "write"

Loaded(c, values) ==
    LET next == AfterLoad(job[c], values)
    IN  IF next = "idle" THEN Return(c)
        ELSE /\ Goto(c, next)
             /\ job' = [job EXCEPT ![c].values = Changed(job[c], values)]

\* A missing file is an empty store: to remove from it is an error, and a deployment
\* goes on with what the runtime directory holds.  One that does not decrypt ends
\* the command.  An identity once there stays, so file and identity are read at once.
Load(c) ==
    /\ pc[c] = "load"
    /\ IF Exists(job[c].project) /\ ~Decrypts(job[c].project) THEN Return(c)
       ELSE Loaded(c, store[job[c].project].values)
    /\ UNCHANGED <<identity, store, runtime, generated, secretHistory, secretBounds>>

AfterFailedLoad_empty(c) == Loaded(c, NoSecrets)
\* Any error of reading but that the file does not exist ends the command.
AfterFailedLoad(c) == Return(c)

LoadFails(c) ==
    /\ pc[c] = "load" /\ Exists(job[c].project) /\ Fault
    /\ AfterFailedLoad(c)
    /\ UNCHANGED <<identity, store, runtime, generated, secretHistory, jobs, deaths>>

\* ensureIdentity reads the identity, or generates one when there is none.
Generate(c) ==
    /\ generated' = generated + 1
    /\ job' = [job EXCEPT ![c].key = generated']
    /\ Goto(c, "new-identity")
    /\ raced' = (raced \/ \E d \in Commands : pc[d] = "new-identity")

EnsureIdentity(c) ==
    /\ pc[c] = "identity"
    /\ IF identity = None THEN Generate(c)
       ELSE /\ job' = [job EXCEPT ![c].key = identity]
            /\ Goto(c, "save")
            /\ UNCHANGED <<generated, raced>>
    /\ UNCHANGED <<identity, store, runtime, kept, loaded, overlap, secretBounds>>

AfterUnreadIdentity_generates(c) == Generate(c)
\* Only an identity that does not exist is generated.
AfterUnreadIdentity(c) == Return(c) /\ UNCHANGED <<generated, raced>>

IdentityFails(c) ==
    /\ pc[c] = "identity" /\ identity # None /\ Fault
    /\ AfterUnreadIdentity(c)
    /\ UNCHANGED <<identity, store, runtime, kept, loaded, overlap, jobs, deaths>>

WriteIdentity(c) ==
    /\ pc[c] = "new-identity"
    /\ identity' = job[c].key
    /\ Goto(c, "save")
    /\ UNCHANGED <<job, store, runtime, generated, secretHistory, secretBounds>>

\* The command has succeeded with values.
Done(c, p, values) ==
    /\ store' = [store EXCEPT ![p] = values]
    /\ kept' = [kept EXCEPT ![p][job[c].name] = job[c].value]
    /\ Return(c)

Save(c) ==
    /\ pc[c] = "save"
    /\ Done(c, job[c].project, [key |-> job[c].key, values |-> job[c].values])
    /\ UNCHANGED <<identity, runtime, generated, loaded, raced, overlap, secretBounds>>

Saved_always(j) == [key |-> identity, values |-> j.values]
\* Without its last secret the file is removed.
Saved(j) == NoStore

Unlink(c) ==
    /\ pc[c] = "unlink"
    /\ Done(c, job[c].project, Saved(job[c]))
    /\ UNCHANGED <<identity, runtime, generated, loaded, raced, overlap, secretBounds>>

\* A file that cannot be written or removed is the one from before.
FileFails(c) ==
    /\ pc[c] \in {"new-identity", "save", "unlink", "write"} /\ Fault
    /\ Return(c)
    /\ UNCHANGED <<identity, store, runtime, generated, secretHistory, jobs, deaths>>

-----------------------------------------------------------------------------
(* Deployments.                                                              *)

\* The files are written one by one; a secret that is missing ends the deployment.
WriteRuntime(c) ==
    /\ pc[c] = "write" /\ job[c].todo # {}
    /\ \E n \in job[c].todo :
          IF job[c].values[n] = None THEN Return(c) /\ UNCHANGED runtime
          ELSE /\ runtime' = [runtime EXCEPT ![job[c].project][n] = job[c].values[n]]
               /\ job' = [job EXCEPT ![c].todo = @ \ {n}]
               /\ UNCHANGED pc
    /\ UNCHANGED <<identity, store, generated, secretHistory, secretBounds>>

Stale_none(c) == {}
\* The files no secret of the manifest stands for.
Stale(c) == Names \ job[c].specs

CleanRuntime(c) ==
    /\ pc[c] = "write" /\ job[c].todo = {}
    /\ runtime' = [runtime EXCEPT ![job[c].project] =
                       [n \in Names |-> IF n \in Stale(c) THEN None ELSE @[n]]]
    /\ loaded' = [loaded EXCEPT ![job[c].project] =
                      [n \in Names |-> IF n \in job[c].specs THEN job[c].values[n] ELSE None]]
    /\ Goto(c, "ensure")
    /\ UNCHANGED <<identity, store, job, generated, kept, raced, overlap, secretBounds>>

CleanFails(c) ==
    /\ pc[c] = "write" /\ job[c].todo = {} /\ Fault
    /\ \E some \in SUBSET Stale(c) :
          runtime' = [runtime EXCEPT ![job[c].project] =
                          [n \in Names |-> IF n \in some THEN None ELSE @[n]]]
    /\ Return(c)
    /\ UNCHANGED <<identity, store, generated, secretHistory, jobs, deaths>>

\* The deployment goes on when every secret has a file, and ends otherwise.
EnsureRuntime(c) ==
    /\ pc[c] = "ensure"
    /\ IF \E n \in job[c].specs : runtime[job[c].project][n] = None THEN Return(c)
       ELSE Goto(c, "up") /\ UNCHANGED job
    /\ UNCHANGED <<identity, store, runtime, generated, secretHistory, secretBounds>>

\* What follows reads the files, which stay.
Up(c) ==
    /\ pc[c] = "up"
    /\ Return(c)
    /\ UNCHANGED <<identity, store, runtime, generated, secretHistory, secretBounds>>

-----------------------------------------------------------------------------
SecretDie(c) ==
    /\ pc[c] # "idle" /\ deaths < MaxDeaths
    /\ deaths' = deaths + 1
    /\ Return(c)
    /\ UNCHANGED <<identity, store, runtime, generated, secretHistory, jobs, faults>>

\* The directory under /run is empty after the host was restarted, which ends every command.
Reboot ==
    /\ deaths < MaxDeaths
    /\ deaths' = deaths + 1
    /\ runtime' = [p \in Projects |-> NoSecrets]
    /\ loaded' = [p \in Projects |-> None]
    /\ pc' = [c \in Commands |-> "idle"] /\ job' = [c \in Commands |-> NoJob]
    /\ UNCHANGED <<identity, store, generated, kept, raced, overlap, jobs, faults>>

SecretNext ==
    \/ \E c \in Commands :
          \/ Set(c) \/ RemoveSecret(c) \/ Materialize(c)
          \/ Load(c) \/ LoadFails(c) \/ EnsureIdentity(c) \/ IdentityFails(c) \/ WriteIdentity(c)
          \/ Save(c) \/ Unlink(c) \/ FileFails(c)
          \/ WriteRuntime(c) \/ CleanRuntime(c) \/ CleanFails(c) \/ EnsureRuntime(c) \/ Up(c)
          \/ SecretDie(c)
    \/ Reboot

SecretSpec == SecretInit /\ [][SecretNext]_secretVars

-----------------------------------------------------------------------------
(* Properties.                                                               *)

\* Every variable has a value of its type, and an empty store has no file.
SecretTypeOK ==
    /\ identity \in Keys \cup {None} /\ generated \in 0..MaxJobs
    /\ store \in [Projects -> [key : Keys \cup {None}, values : Secrets]]
    /\ \A p \in Projects : store[p].key = None <=> store[p].values = NoSecrets
    /\ runtime \in [Projects -> Secrets] /\ kept \in [Projects -> Secrets]
    /\ loaded \in [Projects -> Secrets \cup {None}]
    /\ pc \in [Commands -> {"idle", "load", "identity", "new-identity", "save", "unlink",
                            "write", "ensure", "up"}]
    /\ raced \in BOOLEAN /\ overlap \subseteq Projects

\* Every store can be decrypted, whatever fails and wherever a process dies, unless
\* two commands generated the host's identity at once.  (ensureIdentity.)
StoresReadable == \A p \in Projects : raced \/ ~Exists(p) \/ Decrypts(p)

\* A project's store holds what the commands that succeeded have put into it and
\* nothing else, also after others failed or died half way; unless two commands of
\* the project overlapped, of which the later can undo the earlier.  (Set, Remove.)
SecretsKept == \A p \in Projects \ overlap : store[p].values = kept[p]

\* From the moment a deployment has been handed its secrets until the next deployment
\* of the project begins or the host restarts, the runtime directory holds the values of
\* one version of the store for the names of that manifest, and no other file; unless two
\* commands of the project overlapped.  Not claimed when the project's last deployment
\* failed before that moment, or found no store: the code then leaves a mixture of two
\* versions, or the files of an earlier one.  (Materialize.)
RuntimeIsOneVersion == \A p \in Projects \ overlap : loaded[p] \in {None, runtime[p]}
=============================================================================
