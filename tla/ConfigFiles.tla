------------------------------ MODULE ConfigFiles ------------------------------
(***************************************************************************)
(* The configuration files that commands change: registry profiles         *)
(* (registry/store.go, cli/registry.go), host profiles (remote/profiles.go,*)
(* cli/remote.go), environment overlays (environment/store.go,             *)
(* cli/environment.go) and webhooks (webhook/config.go, cli/webhook.go).   *)
(*                                                                         *)
(* Each command loads a whole file, changes one entry and writes the file  *)
(* again.  Profiles and overlays are replaced atomically; webhooks.yaml    *)
(* and the secret of a webhook are overwritten in place.  The webhook      *)
(* server reads both once, when it starts.  No lock is taken, a process    *)
(* may die and a write may fail between two steps.                         *)
(*                                                                         *)
(* Simplifications.                                                        *)
(*  - The three kinds of files that are replaced have the same operations, *)
(*    and are told apart only where `registry remove` logs Docker out.     *)
(*  - Of a profile its address matters; an overlay's entry has a value.    *)
(*  - A webhook has its name and secret file; every webhook is enabled.    *)
(*  - Validation refuses an entry before anything else happens, and is     *)
(*    left out, as are the commands that only read.                        *)
(* Definitions named X_mistake are not part of the model: each is an       *)
(* erroneous variant of X, and a property must tell the two apart.         *)
(***************************************************************************)
EXTENDS Naturals, FiniteSets

CONSTANTS
    Callers,   \* processes that run a command
    Files,      \* files with entries that are replaced
    Registries, \* the one of them with the registry profiles
    Entries,    \* names of entries
    Addresses,  \* what an entry is
    Hooks,      \* names of webhooks
    SecretFiles,\* paths of their secrets
    Nil,       \* nothing
    Emptied,    \* the content of a file of which only the emptying was done
    MaxTasks, MaxBroken, MaxKilled  \* bounds

ASSUME NothingAssumption == \A x \in {Nil, Emptied} :
    x \notin Addresses \cup SecretFiles \cup Nat \cup [Hooks -> SecretFiles \cup {Nil}]
ASSUME FilesAssumption == Registries \in Files /\ "webhooks" \notin Files
ASSUME TasksAssumption == {MaxTasks, MaxBroken, MaxKilled} \subseteq Nat

VARIABLES
    file,     \* entries of each file
    logins,   \* addresses Docker has credentials for
    config,   \* webhooks.yaml: Nil, Emptied or the secret file of each webhook
    secretOf, \* content of each secret file: a secret, Emptied or Nil
    serving,  \* secrets of the running webhook server, Nil when it is not running
    step, task,  \* step of a command, and what it works on
    secrets,  \* secrets generated so far
    stored,   \* history: what the commands that succeeded have put into a file
    told,     \* history: the secret the operator was told for a webhook
    replacedAddresses, \* history: addresses of entries that were put again
    lapped,   \* history: files two commands worked on at once
    torn,     \* history: a write of webhooks.yaml was begun and not finished
    sharedSecret, \* history: two webhooks were given one secret file
    tasks, broken, killed

configBounds == <<tasks, broken, killed>>
profileState == <<file, logins>>
hookState == <<config, secretOf, serving>>
configHistory == <<stored, told, replacedAddresses, lapped, torn, sharedSecret>>
configVars == <<profileState, hookState, step, task, secrets, configHistory, configBounds>>

Absent == [e \in Entries |-> Nil]
NoHooks == [h \in Hooks |-> Nil]
NoTask == [op |-> Nil, file |-> Nil, entry |-> Nil, address |-> Nil, logout |-> FALSE,
           content |-> Absent, hook |-> Nil, path |-> Nil, hooks |-> NoHooks, secret |-> Nil]

ConfigInit ==
    /\ file = [f \in Files |-> Absent] /\ logins = {}
    /\ config = Nil /\ secretOf = [s \in SecretFiles |-> Nil] /\ serving = Nil
    /\ step = [c \in Callers |-> "idle"] /\ task = [c \in Callers |-> NoTask]
    /\ secrets = 0
    /\ stored = [f \in Files |-> Absent] /\ told = NoHooks
    /\ replacedAddresses = {} /\ lapped = {} /\ torn = FALSE /\ sharedSecret = FALSE
    /\ tasks = 0 /\ broken = 0 /\ killed = 0

\* A command begins to work on file f, "webhooks" or one of Files.
BeginTask(c, first, t) ==
    /\ step[c] = "idle" /\ tasks < MaxTasks
    /\ tasks' = tasks + 1
    /\ step' = [step EXCEPT ![c] = first]
    /\ task' = [task EXCEPT ![c] = t]
    /\ lapped' = IF \E d \in Callers : step[d] # "idle" /\ task[d].file = t.file
                 THEN lapped \cup {t.file} ELSE lapped

EndTask(c) ==
    /\ step' = [step EXCEPT ![c] = "idle"]
    /\ task' = [task EXCEPT ![c] = NoTask]

Continue(c, next) == step' = [step EXCEPT ![c] = next]

Broken == broken < MaxBroken /\ broken' = broken + 1

-----------------------------------------------------------------------------
(* Profiles and overlays.                                                    *)

Put(c) == \E f \in Files, e \in Entries, a \in Addresses :
    /\ BeginTask(c, "load", [NoTask EXCEPT !.op = "put", !.file = f, !.entry = e, !.address = a])
    /\ UNCHANGED <<profileState, hookState, secrets, stored, told, replacedAddresses, torn,
                   sharedSecret, broken, killed>>

FirstOfRemove_load(f) == "load"
\* registry remove reads the profile first, to log Docker out of its address.
FirstOfRemove(f) == IF f = Registries THEN "get" ELSE "load"

Drop(c) == \E f \in Files, e \in Entries, logout \in BOOLEAN :
    /\ logout => f = Registries
    /\ BeginTask(c, FirstOfRemove(f),
                 [NoTask EXCEPT !.op = "remove", !.file = f, !.entry = e, !.logout = logout])
    /\ UNCHANGED <<profileState, hookState, secrets, stored, told, replacedAddresses, torn,
                   sharedSecret, broken, killed>>

GetProfile(c) ==
    /\ step[c] = "get"
    /\ IF file[Registries][task[c].entry] = Nil THEN EndTask(c)
       ELSE /\ task' = [task EXCEPT ![c].address = file[Registries][task[c].entry]]
            /\ Continue(c, IF task[c].logout THEN "logout" ELSE "load")
    /\ UNCHANGED <<profileState, hookState, secrets, configHistory, configBounds>>

AfterFailedLogout_goesOn(c) == Continue(c, "load") /\ UNCHANGED task
\* The profile stays when Docker could not be logged out.
AfterFailedLogout(c) == EndTask(c)

Logout(c) ==
    /\ step[c] = "logout"
    /\ logins' = logins \ {task[c].address}
    /\ Continue(c, "load")
    /\ UNCHANGED <<file, hookState, task, secrets, configHistory, configBounds>>

LogoutFails(c) ==
    /\ step[c] = "logout" /\ Broken
    /\ AfterFailedLogout(c)
    /\ UNCHANGED <<profileState, hookState, secrets, configHistory, tasks, killed>>

\* To remove an entry that is not there is an error.
LoadFile(c) ==
    /\ step[c] = "load"
    /\ LET content == file[task[c].file] IN
       IF task[c].op = "remove" /\ content[task[c].entry] = Nil THEN EndTask(c)
       ELSE /\ task' = [task EXCEPT ![c].content =
                           [content EXCEPT ![task[c].entry] =
                               IF task[c].op = "put" THEN task[c].address ELSE Nil]]
            /\ Continue(c, "save")
    /\ UNCHANGED <<profileState, hookState, secrets, configHistory, configBounds>>

AfterUnreadFile_empty(c) ==
    /\ task' = [task EXCEPT ![c].content = [Absent EXCEPT ![task[c].entry] = task[c].address]]
    /\ Continue(c, "save")
\* Only a file that does not exist is taken for an empty one.
AfterUnreadFile(c) == EndTask(c)

LoadFileFails(c) ==
    /\ step[c] = "load" /\ file[task[c].file] # Absent /\ Broken
    /\ AfterUnreadFile(c)
    /\ UNCHANGED <<profileState, hookState, secrets, configHistory, tasks, killed>>

SaveFile(c) ==
    /\ step[c] = "save"
    /\ LET t == task[c]
           old == file[t.file][t.entry]
       IN  /\ file' = [file EXCEPT ![t.file] = t.content]
           /\ stored' = [stored EXCEPT ![t.file][t.entry] = t.content[t.entry]]
           /\ replacedAddresses' =
                 IF old # Nil /\ (t.op = "put" \/ ~t.logout)
                 THEN replacedAddresses \cup {old} ELSE replacedAddresses
    /\ EndTask(c)
    /\ UNCHANGED <<logins, hookState, secrets, told, lapped, torn, sharedSecret, configBounds>>

SaveFileFails(c) ==
    /\ step[c] = "save" /\ Broken
    /\ EndTask(c)
    /\ UNCHANGED <<profileState, hookState, secrets, configHistory, tasks, killed>>

\* registry login: Docker keeps the credentials for the address of the profile.
Login(c) == \E e \in Entries :
    /\ file[Registries][e] # Nil
    /\ BeginTask(c, "login", [NoTask EXCEPT !.op = "login", !.file = Registries, !.entry = e,
                                            !.address = file[Registries][e]])
    /\ UNCHANGED <<profileState, hookState, secrets, stored, told, replacedAddresses, torn,
                   sharedSecret, broken, killed>>

DockerLogin(c) ==
    /\ step[c] = "login"
    /\ logins' = logins \cup {task[c].address}
    /\ EndTask(c)
    /\ UNCHANGED <<file, hookState, secrets, configHistory, configBounds>>

DockerLoginFails(c) ==
    /\ step[c] = "login" /\ Broken
    /\ EndTask(c)
    /\ UNCHANGED <<profileState, hookState, secrets, configHistory, tasks, killed>>

-----------------------------------------------------------------------------
(* Webhooks.                                                                 *)

AddHook(c) == \E h \in Hooks, s \in SecretFiles :
    /\ BeginTask(c, "hooks", [NoTask EXCEPT !.op = "add", !.file = "webhooks", !.hook = h, !.path = s])
    /\ UNCHANGED <<profileState, hookState, secrets, stored, told, replacedAddresses, torn,
                   sharedSecret, broken, killed>>

\* An empty file decodes to no webhooks, of the version that was set before.
HooksIn(content) == IF content \in {Nil, Emptied} THEN NoHooks ELSE content

Refused_never(h, hooks) == FALSE
\* A name that is taken is refused before a secret is made.
Refused(h, hooks) == hooks[h] # Nil

LoadHooks(c) ==
    /\ step[c] = "hooks"
    /\ LET hooks == HooksIn(config) IN
       IF Refused(task[c].hook, hooks)
       THEN EndTask(c) /\ UNCHANGED <<secrets, sharedSecret>>
       ELSE /\ secrets' = secrets + 1
            /\ task' = [task EXCEPT ![c].hooks = [hooks EXCEPT ![task[c].hook] = task[c].path],
                                    ![c].secret = secrets']
            /\ Continue(c, "secret")
            /\ sharedSecret' = (sharedSecret
                  \/ \E h \in Hooks \ {task[c].hook} : hooks[h] = task[c].path
                  \/ \E d \in Callers \ {c} : task[d].path = task[c].path)
    /\ UNCHANGED <<profileState, hookState, stored, told, replacedAddresses, lapped, torn,
                   configBounds>>

\* os.WriteFile empties a file before it writes.
TruncateSecret(c) ==
    /\ step[c] = "secret"
    /\ secretOf' = [secretOf EXCEPT ![task[c].path] = Emptied]
    /\ Continue(c, "secret-content")
    /\ UNCHANGED <<profileState, config, serving, task, secrets, configHistory, configBounds>>

WriteSecret(c) ==
    /\ step[c] = "secret-content"
    /\ secretOf' = [secretOf EXCEPT ![task[c].path] = task[c].secret]
    /\ Continue(c, "config")
    /\ UNCHANGED <<profileState, config, serving, task, secrets, configHistory, configBounds>>

TruncateConfig(c) ==
    /\ step[c] = "config"
    /\ config' = Emptied
    /\ Continue(c, "config-content")
    /\ UNCHANGED <<profileState, secretOf, serving, task, secrets, configHistory, configBounds>>

WriteConfig(c) ==
    /\ step[c] = "config-content"
    /\ config' = task[c].hooks
    /\ told' = [told EXCEPT ![task[c].hook] = task[c].secret]
    /\ EndTask(c)
    /\ UNCHANGED <<profileState, secretOf, serving, secrets, stored, replacedAddresses, lapped,
                   torn, sharedSecret, configBounds>>

AddHookFails(c) ==
    /\ step[c] \in {"secret", "secret-content", "config", "config-content"} /\ Broken
    /\ torn' = (torn \/ step[c] = "config-content")
    /\ EndTask(c)
    /\ UNCHANGED <<profileState, hookState, secrets, stored, told, replacedAddresses, lapped,
                   sharedSecret, tasks, killed>>

\* LoadRuntimeHooks: no webhooks.yaml, an empty one, or one secret that is not there
\* keep the whole server from starting.
Runs(hooks) == \A h \in Hooks : hooks[h] # Nil => secretOf[hooks[h]] \notin {Nil, Emptied}

Serve ==
    /\ serving = Nil /\ config \notin {Nil, Emptied} /\ Runs(config)
    /\ serving' = [h \in Hooks |-> IF config[h] = Nil THEN Nil ELSE secretOf[config[h]]]
    /\ UNCHANGED <<profileState, config, secretOf, step, task, secrets, configHistory, configBounds>>

StopServing ==
    /\ serving # Nil
    /\ serving' = Nil
    /\ UNCHANGED <<profileState, config, secretOf, step, task, secrets, configHistory, configBounds>>

-----------------------------------------------------------------------------
Kill(c) ==
    /\ step[c] # "idle" /\ killed < MaxKilled
    /\ killed' = killed + 1
    /\ torn' = (torn \/ step[c] = "config-content")
    /\ EndTask(c)
    /\ UNCHANGED <<profileState, hookState, secrets, stored, told, replacedAddresses, lapped,
                   sharedSecret, tasks, broken>>

ConfigNext ==
    \/ \E c \in Callers :
          \/ Put(c) \/ Drop(c) \/ GetProfile(c) \/ Logout(c) \/ LogoutFails(c)
          \/ LoadFile(c) \/ LoadFileFails(c) \/ SaveFile(c) \/ SaveFileFails(c)
          \/ Login(c) \/ DockerLogin(c) \/ DockerLoginFails(c)
          \/ AddHook(c) \/ LoadHooks(c) \/ TruncateSecret(c) \/ WriteSecret(c)
          \/ TruncateConfig(c) \/ WriteConfig(c) \/ AddHookFails(c)
          \/ Kill(c)
    \/ Serve \/ StopServing

ConfigSpec == ConfigInit /\ [][ConfigNext]_configVars

-----------------------------------------------------------------------------
(* Properties.                                                               *)

\* Every variable has a value of its type, and a secret has been generated before it is
\* in a file or in a running server, or the operator is told of it.
ConfigTypeOK ==
    LET Secrets == 1..secrets IN
    /\ file \in [Files -> [Entries -> Addresses \cup {Nil}]]
    /\ stored \in [Files -> [Entries -> Addresses \cup {Nil}]]
    /\ logins \subseteq Addresses /\ replacedAddresses \subseteq Addresses
    /\ config \in [Hooks -> SecretFiles \cup {Nil}] \cup {Nil, Emptied}
    /\ secretOf \in [SecretFiles -> Secrets \cup {Nil, Emptied}]
    /\ serving \in [Hooks -> Secrets \cup {Nil}] \cup {Nil} /\ told \in [Hooks -> Secrets \cup {Nil}]
    /\ step \in [Callers -> {"idle", "get", "logout", "load", "save", "login", "hooks", "secret",
                              "secret-content", "config", "config-content"}]
    /\ lapped \subseteq Files \cup {"webhooks"} /\ {torn, sharedSecret} \subseteq BOOLEAN
    /\ secrets \in 0..MaxTasks

\* A file holds what the commands that succeeded have put into it, and nothing else,
\* also after others failed or were killed half way; unless two commands worked on it
\* at once, of which the later can undo the earlier.  (Put, Remove, Set, Unset.)
EntriesKept == \A f \in Files \ lapped : file[f] = stored[f]

\* Docker has credentials only for the address of a registry profile, so that
\* `registry remove` can take them away; unless an address was replaced, a profile
\* removed with --logout=false, or two commands worked on the profiles at once.
LoginsHaveProfile ==
    Registries \in lapped \/
    logins \subseteq {file[Registries][e] : e \in Entries} \cup replacedAddresses

\* A webhook the operator was told of is configured with the secret that was told,
\* and a running server verifies signatures with no other; unless the file was left
\* half written, two commands added webhooks at once, or two webhooks were given the
\* same secret file.  (AddHook, LoadRuntimeHooks.)
HooksAreAsTold ==
    ("webhooks" \in lapped \/ torn \/ sharedSecret) \/
    \A h \in Hooks : told[h] # Nil =>
        /\ ~(\E c \in Callers : step[c] = "config-content") =>
               config \notin {Nil, Emptied} /\ config[h] # Nil /\ secretOf[config[h]] = told[h]
        /\ serving # Nil => serving[h] \in {Nil, told[h]}
=============================================================================
