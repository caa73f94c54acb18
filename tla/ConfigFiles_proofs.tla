--------------------------- MODULE ConfigFiles_proofs ---------------------------
(***************************************************************************)
(* Proofs about ConfigFiles, for any number of commands, files, entries    *)
(* and webhooks, any number of failed writes and killed processes; and     *)
(* about MCStores, which puts ConfigFiles beside SecretStore.              *)
(***************************************************************************)
EXTENDS MCStores, SecretStore_proofs

-----------------------------------------------------------------------------
(* The inductive invariant.                                                  *)

FileSteps == {"get", "logout", "load", "save", "login"}
HookSteps == {"hooks", "secret", "secret-content", "config", "config-content"}
Adding == HookSteps \ {"hooks"}
Working == FileSteps \cup HookSteps

Contents == [Entries -> Addresses \cup {Nil}]
HookFiles == [Hooks -> SecretFiles \cup {Nil}]
Tasks == [op : {"put", "remove", "login", "add", Nil}, file : Files \cup {"webhooks", Nil},
          entry : Entries \cup {Nil}, address : Addresses \cup {Nil}, logout : BOOLEAN,
          content : Contents, hook : Hooks \cup {Nil}, path : SecretFiles \cup {Nil},
          hooks : HookFiles, secret : Nat \cup {Nil}]

\* What a command works on at each of its steps.
TaskInv ==
    /\ task \in [Callers -> Tasks]
    /\ \A c \in Callers :
         /\ step[c] \in FileSteps => task[c].file \in Files /\ task[c].entry \in Entries
         /\ step[c] \in {"get", "logout", "login"} => task[c].file = Registries
         /\ step[c] \in {"get", "logout"} => task[c].op = "remove"
         /\ step[c] \in {"login", "logout"} => task[c].address \in Addresses
         /\ step[c] \in {"load", "save"} /\ task[c].op # "remove" =>
               task[c].op = "put" /\ task[c].address \in Addresses
         /\ step[c] \in HookSteps =>
               task[c].file = "webhooks" /\ task[c].hook \in Hooks /\ task[c].path \in SecretFiles
         /\ step[c] \in Adding => task[c].secret \in 1..secrets

\* The commands that may yet generate a secret.
Asking == {c \in Callers : step[c] = "hooks"}

\* A command generates at most one secret.
SecretsInv ==
    /\ IsFiniteSet(Asking)
    /\ secrets \in Nat /\ tasks \in Nat /\ tasks <= MaxTasks
    /\ secrets + Cardinality(Asking) <= tasks

\* A file on which no two commands worked at once has at most one at work.
SoleInv ==
    \A c, d \in Callers :
        (step[c] # "idle" /\ step[d] # "idle" /\ task[c].file = task[d].file
            /\ task[c].file \notin lapped) => c = d

\* What such a command is about to save is what the file holds, but for its one entry.
FileInv ==
    /\ EntriesKept
    /\ \A c \in Callers : step[c] = "save" /\ task[c].file \notin lapped =>
         \A e \in Entries \ {task[c].entry} : task[c].content[e] = file[task[c].file][e]

\* Such a command logs in to, or out of, the address of a profile that is there; when
\* it removes the profile after the logout, Docker has no credentials for the address.
LoginInv ==
    /\ LoginsHaveProfile
    /\ Registries \notin lapped => \A c \in Callers :
         /\ step[c] \in {"login", "logout"} =>
               task[c].address = file[Registries][task[c].entry]
         /\ step[c] \in {"load", "save"} /\ task[c].file = Registries /\ task[c].logout =>
               file[Registries][task[c].entry] \notin logins

\* The webhook h is one the operator was told of, with its secret, or is not there.
Holds(hooks, h) ==
    IF told[h] = Nil THEN hooks[h] = Nil
    ELSE hooks[h] # Nil /\ secretOf[hooks[h]] = told[h]

HalfWritten == \E c \in Callers : step[c] = "config-content"

\* As long as nothing went wrong with webhooks.yaml, it holds the webhooks told of, and
\* so does what a command is about to write, but for the webhook it adds.
HookInv ==
    ("webhooks" \in lapped \/ torn \/ sharedSecret) \/
    /\ IF HalfWritten THEN config = Emptied
                      ELSE \A h \in Hooks : Holds(HooksIn(config), h)
    /\ serving # Nil => \A h \in Hooks : serving[h] \in {Nil, told[h]}
    /\ \A c \in Callers : step[c] \in Adding =>
         /\ told[task[c].hook] = Nil /\ task[c].hooks[task[c].hook] = task[c].path
         /\ \A h \in Hooks \ {task[c].hook} :
               Holds(task[c].hooks, h) /\ task[c].hooks[h] # task[c].path
         /\ step[c] # "config-content" => \A h \in Hooks \ {task[c].hook} :
               task[c].hooks[h] = HooksIn(config)[h]
         /\ step[c] \in {"config", "config-content"} =>
               secretOf[task[c].path] = task[c].secret

ConfigInv ==
    /\ ConfigTypeOK /\ TaskInv /\ SecretsInv /\ SoleInv
    /\ FileInv /\ LoginInv /\ HookInv

-----------------------------------------------------------------------------
(* Facts the steps share.                                                    *)

\* The values the variables start from are of their types.
LEMMA NothingYet ==
    /\ Nil \notin Addresses /\ Nil \notin SecretFiles /\ Nil \notin Nat /\ Nil \notin HookFiles
    /\ Emptied \notin Nat /\ Emptied \notin HookFiles
    /\ Absent \in Contents /\ NoHooks \in HookFiles /\ NoTask \in Tasks
<1>1. \A x \in {Nil, Emptied} :
         x \notin Addresses /\ x \notin SecretFiles /\ x \notin Nat /\ x \notin HookFiles
  BY NothingAssumption DEF HookFiles
<1>2. Absent \in Contents /\ NoHooks \in HookFiles
  BY DEF Absent, Contents, NoHooks, HookFiles
<1> QED
  BY <1>1, <1>2 DEF NoTask, Tasks

\* No command becomes able to generate a secret.
LEMMA AskingKeeps ==
    ASSUME SecretsInv, Asking' \subseteq Asking, UNCHANGED <<tasks, secrets>>
    PROVE  SecretsInv'
<1>1. IsFiniteSet(Asking') /\ Cardinality(Asking') <= Cardinality(Asking)
  BY FS_Subset DEF SecretsInv
<1>2. Cardinality(Asking') \in Nat /\ Cardinality(Asking) \in Nat
  BY <1>1, FS_CardinalityType DEF SecretsInv
<1> QED
  BY <1>1, <1>2 DEF SecretsInv

\* The command c goes from one step to another, the others stay where they are.
Moves(c) ==
    /\ step'[c] \in Working \cup {"idle"} /\ step' = [step EXCEPT ![c] = step'[c]]
    /\ task' \in [Callers -> Tasks]
    /\ \A d \in Callers \ {c} : step'[d] = step[d] /\ task'[d] = task[d]

\* A step that leaves the files alone keeps what holds of them.
LEMMA FileFrame ==
    ASSUME ConfigInv, UNCHANGED <<file, logins, stored, replacedAddresses>>,
           lapped \subseteq lapped',
           \A c \in Callers : step'[c] \in {"save", "login", "logout"} =>
               step'[c] = step[c] /\ task'[c] = task[c],
           \A c \in Callers : step'[c] = "load" =>
               (step[c] = "load" /\ task'[c] = task[c]) \/ ~task'[c].logout
    PROVE  FileInv' /\ LoginInv'
<1>1. FileInv'
  BY DEF ConfigInv, FileInv, EntriesKept
<1>2. LoginsHaveProfile'
  BY DEF ConfigInv, LoginInv, LoginsHaveProfile
<1>3. LoginInv'
  BY <1>2 DEF ConfigInv, LoginInv
<1> QED
  BY <1>1, <1>3

\* A step that leaves the webhooks alone keeps what holds of them.
LEMMA HookFrame ==
    ASSUME ConfigInv, UNCHANGED <<config, secretOf, serving, told>>,
           lapped \subseteq lapped', torn => torn', sharedSecret => sharedSecret',
           \A c \in Callers : step'[c] \in Adding => step'[c] = step[c] /\ task'[c] = task[c],
           \A c \in Callers : step[c] = "config-content" => step'[c] = step[c] \/ torn'
    PROVE  HookInv'
<1> SUFFICES ASSUME ~("webhooks" \in lapped' \/ torn' \/ sharedSecret')
             PROVE  HookInv'
  BY DEF HookInv
<1>1. HalfWritten' = HalfWritten
  BY DEF HalfWritten, Adding, HookSteps
<1>2. \A h \in Hooks : \A hooks : Holds(hooks, h)' <=> Holds(hooks, h)
  BY DEF Holds
<1>3. HooksIn(config)' = HooksIn(config)
  BY DEF HooksIn
<1> QED
  BY <1>1, <1>2, <1>3 DEF ConfigInv, HookInv, Holds

\* A step of a command on the file it works on keeps the others off it.
LEMMA SoleFrame ==
    ASSUME SoleInv, NEW c \in Callers, Moves(c), UNCHANGED lapped, step[c] # "idle",
           step'[c] # "idle" => task'[c].file = task[c].file
    PROVE  SoleInv'
  BY DEF SoleInv, Moves

-----------------------------------------------------------------------------
(* The end of a command, and its beginning.                                  *)

\* A command that ends, half way or having done nothing to a file, keeps everything.
LEMMA EndTaskKeeps ==
    ASSUME ConfigInv, NEW c \in Callers, step[c] # "idle", EndTask(c),
           UNCHANGED <<profileState, hookState, secrets, stored, told, replacedAddresses, lapped,
                       sharedSecret, tasks>>,
           torn' \in BOOLEAN, torn => torn', step[c] = "config-content" => torn'
    PROVE  ConfigInv'
<1> USE DEF EndTask, profileState, hookState
<1>1. Moves(c) /\ step'[c] = "idle"
  BY NothingYet DEF Moves, ConfigInv, ConfigTypeOK, TaskInv
<1>2. ConfigTypeOK'
  BY DEF ConfigInv, ConfigTypeOK
<1> HIDE DEF EndTask
<1>3. TaskInv'
  BY <1>1 DEF Moves, ConfigInv, TaskInv, FileSteps, HookSteps, Adding
<1>4. SecretsInv'
  <2>1. Asking' \subseteq Asking
    BY <1>1 DEF Asking, Moves
  <2> QED
    BY <2>1, AskingKeeps DEF ConfigInv
<1>5. SoleInv'
  BY <1>1, SoleFrame DEF ConfigInv
<1>6. FileInv' /\ LoginInv'
  BY <1>1, FileFrame DEF Moves
<1>7. HookInv'
  BY <1>1, HookFrame DEF Moves, Adding, HookSteps
<1> QED
  BY <1>2, <1>3, <1>4, <1>5, <1>6, <1>7 DEF ConfigInv

\* The task a command begins with, at its first step.
FirstTask(first, t) ==
    /\ t \in Tasks
    /\ \/ /\ first = "load" /\ ~t.logout /\ t.file \in Files /\ t.entry \in Entries
          /\ t.op = "remove" \/ (t.op = "put" /\ t.address \in Addresses)
       \/ /\ first = "get" /\ t.op = "remove" /\ t.file = Registries
          /\ t.entry \in Entries
       \/ /\ first = "login" /\ t.file = Registries /\ t.entry \in Entries
          /\ t.address \in Addresses /\ t.address = file[Registries][t.entry]
       \/ /\ first = "hooks" /\ t.file = "webhooks"
          /\ t.hook \in Hooks /\ t.path \in SecretFiles

\* A command that begins keeps everything.
LEMMA BeginTaskKeeps ==
    ASSUME ConfigInv, NEW c \in Callers, NEW first, NEW t, FirstTask(first, t),
           BeginTask(c, first, t),
           UNCHANGED <<profileState, hookState, secrets, stored, told, replacedAddresses, torn,
                       sharedSecret>>
    PROVE  ConfigInv'
<1> USE DEF BeginTask, FirstTask, profileState, hookState
<1>1. /\ step[c] = "idle" /\ step'[c] = first /\ task'[c] = t /\ Moves(c)
      /\ first \in {"load", "get", "login", "hooks"}
  BY DEF Moves, ConfigInv, ConfigTypeOK, TaskInv, Working, FileSteps, HookSteps
<1>2. /\ lapped \subseteq lapped' /\ lapped' \subseteq Files \cup {"webhooks"}
      /\ \A d \in Callers : (step[d] # "idle" /\ task[d].file = t.file) => t.file \in lapped'
  BY FilesAssumption DEF ConfigInv, ConfigTypeOK
<1>3. ConfigTypeOK'
  BY <1>1, <1>2 DEF ConfigInv, ConfigTypeOK
<1> HIDE DEF BeginTask
<1>4. TaskInv'
  <2>1. secrets' = secrets
    OBVIOUS
  <2>2. ASSUME NEW d \in Callers \ {c}
        PROVE  step'[d] = step[d] /\ task'[d] = task[d]
    BY <1>1 DEF Moves
  <2>3. task' \in [Callers -> Tasks]
    BY <1>1 DEF Moves
  <2> QED
    BY <1>1, <2>1, <2>2, <2>3, FilesAssumption
    DEF ConfigInv, TaskInv, FileSteps, HookSteps, Adding
<1>5. SecretsInv'
  <2>1. Asking' \subseteq Asking \cup {c} /\ tasks' = tasks + 1 /\ tasks < MaxTasks
    BY <1>1 DEF Asking, Moves, BeginTask
  <2>2. /\ IsFiniteSet(Asking \cup {c}) /\ IsFiniteSet(Asking')
        /\ Cardinality(Asking \cup {c}) <= Cardinality(Asking) + 1
        /\ Cardinality(Asking') <= Cardinality(Asking \cup {c})
    <3>1. IsFiniteSet(Asking)
      BY DEF ConfigInv, SecretsInv
    <3>2. Cardinality(Asking) \in Nat
      BY <3>1, FS_CardinalityType
    <3>3. /\ IsFiniteSet(Asking \cup {c})
          /\ Cardinality(Asking \cup {c}) =
                IF c \in Asking THEN Cardinality(Asking) ELSE Cardinality(Asking) + 1
      BY <3>1, FS_AddElement
    <3> QED
      BY <2>1, <3>2, <3>3, FS_Subset
  <2>3. Cardinality(Asking) \in Nat /\ Cardinality(Asking') \in Nat
        /\ Cardinality(Asking \cup {c}) \in Nat
    BY <2>2, FS_CardinalityType DEF ConfigInv, SecretsInv
  <2> QED
    BY <2>1, <2>2, <2>3, TasksAssumption DEF ConfigInv, SecretsInv
<1>6. SoleInv'
  BY <1>1, <1>2 DEF ConfigInv, SoleInv, Moves
<1>7. FileInv' /\ LoginInv'
  <2>1. FileInv'
    BY <1>1, <1>2 DEF Moves, ConfigInv, FileInv, EntriesKept
  <2>2. LoginInv'
    BY <1>1, <1>2 DEF Moves, ConfigInv, LoginInv, LoginsHaveProfile
  <2> QED
    BY <2>1, <2>2
<1>8. HookInv'
  BY <1>1, <1>2, HookFrame DEF Moves, Adding, HookSteps
<1> QED
  BY <1>3, <1>4, <1>5, <1>6, <1>7, <1>8 DEF ConfigInv

\* The tasks of the four commands.
LEMMA FirstTasks ==
    ASSUME ConfigInv, NEW c \in Callers
    PROVE  Put(c) \/ Drop(c) \/ Login(c) \/ AddHook(c) =>
               \E first, t : FirstTask(first, t) /\ BeginTask(c, first, t)
<1> USE NothingYet, FilesAssumption
<1>1. ASSUME Put(c)
      PROVE  \E first, t : FirstTask(first, t) /\ BeginTask(c, first, t)
  <2>1. PICK f, e, a, t :
           /\ f \in Files /\ e \in Entries /\ a \in Addresses
           /\ t = [NoTask EXCEPT !.op = "put", !.file = f, !.entry = e, !.address = a]
           /\ BeginTask(c, "load", t)
    BY <1>1 DEF Put
  <2>2. t = [op |-> "put", file |-> f, entry |-> e, address |-> a, logout |-> FALSE,
             content |-> Absent, hook |-> Nil, path |-> Nil, hooks |-> NoHooks, secret |-> Nil]
    BY <2>1 DEF NoTask
  <2>3. f \in Files /\ e \in Entries /\ a \in Addresses
    BY <2>1
  <2>4. t \in Tasks
    BY <2>2, <2>3 DEF Tasks
  <2>5. FirstTask("load", t)
    BY <2>2, <2>3, <2>4 DEF FirstTask
  <2> QED
    BY <2>1, <2>5
<1>2. ASSUME Drop(c)
      PROVE  \E first, t : FirstTask(first, t) /\ BeginTask(c, first, t)
  <2>1. PICK f, e, logout, t :
           /\ f \in Files /\ e \in Entries /\ logout \in BOOLEAN
           /\ logout => f = Registries
           /\ t = [NoTask EXCEPT !.op = "remove", !.file = f, !.entry = e, !.logout = logout]
           /\ BeginTask(c, FirstOfRemove(f), t)
    BY <1>2 DEF Drop
  <2>2. t = [op |-> "remove", file |-> f, entry |-> e, address |-> Nil, logout |-> logout,
             content |-> Absent, hook |-> Nil, path |-> Nil, hooks |-> NoHooks, secret |-> Nil]
    BY <2>1 DEF NoTask
  <2>3. t \in Tasks
    BY <2>1, <2>2 DEF Tasks
  <2>4. FirstTask(FirstOfRemove(f), t)
    BY <2>1, <2>2, <2>3 DEF FirstTask, FirstOfRemove
  <2> QED
    BY <2>1, <2>4
<1>3. ASSUME Login(c)
      PROVE  \E first, t : FirstTask(first, t) /\ BeginTask(c, first, t)
  <2>1. PICK e, t :
           /\ e \in Entries
           /\ file[Registries][e] # Nil
           /\ t = [NoTask EXCEPT !.op = "login", !.file = Registries, !.entry = e,
                                 !.address = file[Registries][e]]
           /\ BeginTask(c, "login", t)
    BY <1>3 DEF Login
  <2>2. t = [op |-> "login", file |-> Registries, entry |-> e, address |-> file[Registries][e],
             logout |-> FALSE, content |-> Absent, hook |-> Nil, path |-> Nil,
             hooks |-> NoHooks, secret |-> Nil]
    BY <2>1 DEF NoTask
  <2>3. file[Registries][e] \in Addresses
    BY <2>1 DEF ConfigInv, ConfigTypeOK
  <2>4. FirstTask("login", t)
    BY <2>1, <2>2, <2>3 DEF FirstTask, Tasks
  <2> QED
    BY <2>1, <2>4
<1>4. ASSUME AddHook(c)
      PROVE  \E first, t : FirstTask(first, t) /\ BeginTask(c, first, t)
  <2>1. PICK h, s, t :
           /\ h \in Hooks /\ s \in SecretFiles
           /\ t = [NoTask EXCEPT !.op = "add", !.file = "webhooks", !.hook = h, !.path = s]
           /\ BeginTask(c, "hooks", t)
    BY <1>4 DEF AddHook
  <2>2. t = [op |-> "add", file |-> "webhooks", entry |-> Nil, address |-> Nil,
             logout |-> FALSE, content |-> Absent, hook |-> h, path |-> s, hooks |-> NoHooks,
             secret |-> Nil]
    BY <2>1 DEF NoTask
  <2>3. FirstTask("hooks", t)
    BY <2>1, <2>2 DEF FirstTask, Tasks
  <2> QED
    BY <2>1, <2>3
<1> QED
  BY <1>1, <1>2, <1>3, <1>4

-----------------------------------------------------------------------------
(* The steps of a command on a profile or an overlay.                        *)

\* A command that goes on within a file, from step to step, keeps what is not of files.
LEMMA FileStepKeeps ==
    ASSUME ConfigInv, NEW c \in Callers, step[c] \in FileSteps, Moves(c),
           step'[c] \in {"load", "logout", "save", "idle"},
           step'[c] # "idle" => task'[c].file = task[c].file,
           UNCHANGED <<hookState, secrets, told, lapped, torn, sharedSecret, tasks>>
    PROVE  SecretsInv' /\ SoleInv' /\ HookInv'
<1> USE DEF hookState
<1>1. SecretsInv'
  <2>1. Asking' \subseteq Asking
    BY DEF Asking, Moves, FileSteps
  <2> QED
    BY <2>1, AskingKeeps DEF ConfigInv
<1>2. SoleInv'
  BY SoleFrame DEF ConfigInv, FileSteps
<1>3. HookInv'
  BY HookFrame DEF Moves, Adding, HookSteps, FileSteps
<1> QED
  BY <1>1, <1>2, <1>3

\* registry remove, reading the profile, keeps everything.
LEMMA GetProfileKeeps ==
    ASSUME ConfigInv, NEW c \in Callers, GetProfile(c)
    PROVE  ConfigInv'
<1> DEFINE e == task[c].entry
           a == file[Registries][e]
           next == IF task[c].logout THEN "logout" ELSE "load"
<1> USE DEF GetProfile, Continue, profileState, hookState, configHistory, configBounds
<1>1. /\ step[c] = "get" /\ e \in Entries /\ task[c].file = Registries
      /\ a \in Addresses \cup {Nil} /\ task[c] \in Tasks
  BY FilesAssumption DEF ConfigInv, TaskInv, FileSteps, ConfigTypeOK
<1>2. UNCHANGED <<file, logins, config, secretOf, serving, secrets, stored, told,
                  replacedAddresses, lapped, torn, sharedSecret, tasks>>
  OBVIOUS
<1>3. CASE a = Nil
  <2>1. EndTask(c)
    BY <1>3
  <2> QED
    BY <1>1, <1>2, <2>1, EndTaskKeeps DEF ConfigInv, ConfigTypeOK
<1>4. CASE a # Nil
  <2>1. /\ step' = [step EXCEPT ![c] = next]
        /\ task' = [task EXCEPT ![c].address = a]
    BY <1>4
  <2>2. /\ task'[c].file = task[c].file /\ task'[c].entry = e /\ task'[c].address = a
        /\ task'[c].logout = task[c].logout /\ task'[c].op = task[c].op
        /\ task' \in [Callers -> Tasks]
    BY <1>1, <1>4, <2>1 DEF ConfigInv, TaskInv, Tasks
  <2>3. /\ step'[c] = next /\ next \in {"logout", "load"} /\ Moves(c)
        /\ next = "load" => ~task[c].logout
    BY <2>1, <2>2 DEF Moves, ConfigInv, ConfigTypeOK, TaskInv, Working, FileSteps
  <2> HIDE DEF GetProfile, next
  <2>4. ConfigTypeOK'
    BY <1>2, <2>3 DEF Moves, ConfigInv, ConfigTypeOK
  <2>5. TaskInv'
    BY <1>1, <1>2, <1>4, <2>2, <2>3
    DEF Moves, ConfigInv, TaskInv, FileSteps, HookSteps, Adding
  <2>6. FileInv'
    BY <1>2, <2>3 DEF Moves, ConfigInv, FileInv, EntriesKept
  <2>7. LoginInv'
    BY <1>2, <2>2, <2>3 DEF Moves, ConfigInv, LoginInv, LoginsHaveProfile
  <2>8. SecretsInv' /\ SoleInv' /\ HookInv'
    BY <1>1, <1>2, <2>2, <2>3, FileStepKeeps DEF FileSteps
  <2> QED
    BY <2>4, <2>5, <2>6, <2>7, <2>8 DEF ConfigInv
<1> QED
  BY <1>3, <1>4

\* Docker, logged out of the address, keeps everything.
LEMMA LogoutKeeps ==
    ASSUME ConfigInv, NEW c \in Callers, Logout(c)
    PROVE  ConfigInv'
<1> USE DEF Logout, Continue, hookState, configHistory, configBounds
<1>1. /\ step[c] = "logout" /\ task[c].file = Registries
      /\ step' = [step EXCEPT ![c] = "load"] /\ logins' = logins \ {task[c].address}
      /\ UNCHANGED <<file, config, secretOf, serving, task, secrets, stored, told,
                     replacedAddresses, lapped, torn, sharedSecret, tasks>>
  BY DEF ConfigInv, TaskInv
<1>2. step'[c] = "load" /\ Moves(c)
  BY <1>1 DEF Moves, ConfigInv, ConfigTypeOK, TaskInv, Working, FileSteps
<1> HIDE DEF Logout
<1>3. ConfigTypeOK'
  BY <1>1 DEF ConfigInv, ConfigTypeOK
<1>4. TaskInv'
  BY <1>1, <1>2 DEF Moves, ConfigInv, TaskInv, FileSteps, HookSteps, Adding
<1>5. FileInv'
  BY <1>1, <1>2 DEF Moves, ConfigInv, FileInv, EntriesKept
<1>6. LoginInv'
  <2>1. LoginsHaveProfile'
    BY <1>1 DEF ConfigInv, LoginInv, LoginsHaveProfile
  <2>2. Registries \notin lapped => file[Registries][task[c].entry] \notin logins'
    BY <1>1 DEF ConfigInv, LoginInv
  <2> QED
    BY <1>1, <1>2, <2>1, <2>2 DEF Moves, ConfigInv, LoginInv
<1>7. SecretsInv' /\ SoleInv' /\ HookInv'
  BY <1>1, <1>2, FileStepKeeps DEF FileSteps
<1> QED
  BY <1>3, <1>4, <1>5, <1>6, <1>7 DEF ConfigInv

\* A command that has read a file keeps everything.
LEMMA LoadFileKeeps ==
    ASSUME ConfigInv, NEW c \in Callers, LoadFile(c)
    PROVE  ConfigInv'
<1> DEFINE f == task[c].file
           e == task[c].entry
           new == [file[f] EXCEPT ![e] = IF task[c].op = "put" THEN task[c].address ELSE Nil]
<1> USE DEF LoadFile, Continue, profileState, hookState, configHistory, configBounds
<1>1. /\ step[c] = "load" /\ f \in Files /\ e \in Entries /\ task[c] \in Tasks
      /\ file[f] \in Contents
  BY DEF ConfigInv, TaskInv, FileSteps, ConfigTypeOK, Contents
<1>2. UNCHANGED <<file, logins, config, secretOf, serving, secrets, stored, told,
                  replacedAddresses, lapped, torn, sharedSecret, tasks>>
  OBVIOUS
<1>3. CASE task[c].op = "remove" /\ file[f][e] = Nil
  <2>1. EndTask(c)
    BY <1>3
  <2> QED
    BY <1>1, <1>2, <2>1, EndTaskKeeps DEF ConfigInv, ConfigTypeOK
<1>4. CASE ~(task[c].op = "remove" /\ file[f][e] = Nil)
  <2>1. /\ step' = [step EXCEPT ![c] = "save"]
        /\ task' = [task EXCEPT ![c].content = new]
    BY <1>4
  <2>2. new \in Contents /\ \A x \in Entries \ {e} : new[x] = file[f][x]
    BY <1>1 DEF Contents, Tasks
  <2> HIDE DEF new
  <2>3. /\ task'[c].file = f /\ task'[c].entry = e /\ task'[c].address = task[c].address
        /\ task'[c].logout = task[c].logout /\ task'[c].op = task[c].op
        /\ task'[c].content = new
        /\ task' \in [Callers -> Tasks]
    BY <1>1, <2>1, <2>2 DEF ConfigInv, TaskInv, Tasks
  <2>4. step'[c] = "save" /\ Moves(c)
    BY <2>1, <2>3 DEF Moves, ConfigInv, ConfigTypeOK, TaskInv, Working, FileSteps
  <2> HIDE DEF LoadFile
  <2>5. ConfigTypeOK'
    BY <1>2, <2>4 DEF Moves, ConfigInv, ConfigTypeOK
  <2>6. TaskInv'
    BY <1>1, <1>2, <2>3, <2>4
    DEF Moves, ConfigInv, TaskInv, FileSteps, HookSteps, Adding
  <2>7. FileInv'
    BY <1>2, <2>2, <2>3, <2>4 DEF Moves, ConfigInv, FileInv, EntriesKept
  <2>8. LoginInv'
    BY <1>1, <1>2, <2>3, <2>4 DEF Moves, ConfigInv, LoginInv, LoginsHaveProfile
  <2>9. SecretsInv' /\ SoleInv' /\ HookInv'
    BY <1>1, <1>2, <2>3, <2>4, FileStepKeeps DEF FileSteps
  <2> QED
    BY <2>5, <2>6, <2>7, <2>8, <2>9 DEF ConfigInv
<1> QED
  BY <1>3, <1>4

\* A command that replaces a file keeps everything.
LEMMA SaveFileKeeps ==
    ASSUME ConfigInv, NEW c \in Callers, SaveFile(c)
    PROVE  ConfigInv'
<1> DEFINE f == task[c].file
           e == task[c].entry
           new == task[c].content
           old == file[f][e]
<1> USE DEF SaveFile, EndTask, hookState, configBounds
<1>1. /\ step[c] = "save" /\ f \in Files /\ e \in Entries /\ new \in Contents
      /\ file[f] \in Contents
      /\ task[c].op # "remove" => task[c].op = "put"
  BY DEF ConfigInv, TaskInv, FileSteps, ConfigTypeOK, Contents, Tasks
<1>2. UNCHANGED <<logins, config, secretOf, serving, secrets, told, lapped, torn, sharedSecret,
                  tasks>>
  OBVIOUS
<1>3. step'[c] = "idle" /\ Moves(c)
  BY NothingYet DEF Moves, ConfigInv, ConfigTypeOK, TaskInv
<1>4. /\ file' = [file EXCEPT ![f] = new]
      /\ stored' = [stored EXCEPT ![f][e] = new[e]]
      /\ replacedAddresses' = IF old # Nil /\ (task[c].op = "put" \/ ~task[c].logout)
                              THEN replacedAddresses \cup {old} ELSE replacedAddresses
  OBVIOUS
<1> HIDE DEF SaveFile, EndTask
<1>5. ConfigTypeOK'
  <2>1. /\ file' \in [Files -> Contents] /\ stored' \in [Files -> Contents]
        /\ replacedAddresses' \subseteq Addresses
    BY <1>1, <1>4 DEF ConfigInv, ConfigTypeOK, Contents
  <2> QED
    BY <1>2, <1>3, <2>1 DEF Moves, ConfigInv, ConfigTypeOK, Contents
<1>6. TaskInv'
  BY <1>2, <1>3 DEF Moves, ConfigInv, TaskInv, FileSteps, HookSteps, Adding
<1>7. \A d \in Callers \ {c} : step[d] # "idle" /\ f \notin lapped => task[d].file # f
  BY <1>1 DEF ConfigInv, SoleInv
<1>8. file'[f] = new /\ \A g \in Files \ {f} : file'[g] = file[g] /\ stored'[g] = stored[g]
  BY <1>1, <1>4 DEF ConfigInv, ConfigTypeOK
<1>9. FileInv'
  <2>1. f \notin lapped => new = [stored[f] EXCEPT ![e] = new[e]]
    <3>1. f \notin lapped => file[f] = stored[f] /\ \A x \in Entries \ {e} : new[x] = file[f][x]
      BY <1>1 DEF ConfigInv, FileInv, EntriesKept
    <3> QED
      BY <1>1, <3>1 DEF Contents
  <2>2. stored'[f] = [stored[f] EXCEPT ![e] = new[e]]
    BY <1>1, <1>4 DEF ConfigInv, ConfigTypeOK
  <2>3. EntriesKept'
    BY <1>2, <1>8, <2>1, <2>2 DEF ConfigInv, FileInv, EntriesKept
  <2>4. \A d \in Callers : step[d] = "save" => task[d].file \in Files
    BY DEF ConfigInv, TaskInv, FileSteps
  <2> QED
    BY <1>2, <1>3, <1>7, <1>8, <2>3, <2>4 DEF Moves, ConfigInv, FileInv
<1>10. LoginInv'
  <2> SUFFICES ASSUME Registries \notin lapped
               PROVE  LoginInv'
    BY <1>2 DEF LoginInv, LoginsHaveProfile
  <2>1. CASE f # Registries
    <3>1. file'[Registries] = file[Registries] /\ replacedAddresses \subseteq replacedAddresses'
      BY <1>4, <1>8, <2>1, FilesAssumption
    <3>2. LoginsHaveProfile'
      BY <1>2, <3>1 DEF ConfigInv, LoginInv, LoginsHaveProfile
    <3> QED
      BY <1>2, <1>3, <3>1, <3>2 DEF Moves, ConfigInv, LoginInv
  <2>2. CASE f = Registries
    <3>1. ASSUME NEW a \in logins, a \notin replacedAddresses'
          PROVE  \E x \in Entries : a = file'[Registries][x]
      <4>1. PICK x \in Entries : a = file[Registries][x]
        BY <1>4, <3>1 DEF ConfigInv, LoginInv, LoginsHaveProfile
      <4>2. CASE x = e
        <5>1. a # Nil
          BY NothingYet DEF ConfigInv, ConfigTypeOK
        <5>2. task[c].op # "put" /\ task[c].logout
          BY <1>4, <2>2, <3>1, <4>1, <4>2, <5>1
        <5>3. a \notin logins
          BY <1>1, <2>2, <4>1, <4>2, <5>2 DEF ConfigInv, LoginInv
        <5> QED
          BY <3>1, <5>3
      <4>3. CASE x # e
        <5>1. new[x] = file[Registries][x]
          BY <1>1, <2>2, <4>3 DEF ConfigInv, FileInv
        <5> QED
          BY <1>8, <2>2, <4>1, <5>1
      <4> QED
        BY <4>2, <4>3
    <3>2. LoginsHaveProfile'
      BY <1>2, <3>1 DEF LoginsHaveProfile
    <3>3. \A d \in Callers : step'[d] \in {"login", "logout", "load", "save"} =>
             task'[d].file # Registries
      BY <1>3, <1>7, <2>2 DEF Moves
    <3>4. \A d \in Callers : step'[d] \in {"login", "logout"} => task'[d].file = Registries
      BY <1>3 DEF Moves, ConfigInv, TaskInv
    <3> QED
      BY <3>2, <3>3, <3>4 DEF LoginInv
  <2> QED
    BY <2>1, <2>2
<1>11. SecretsInv' /\ SoleInv' /\ HookInv'
  BY <1>1, <1>2, <1>3, FileStepKeeps DEF FileSteps, hookState
<1> QED
  BY <1>5, <1>6, <1>9, <1>10, <1>11 DEF ConfigInv

\* Docker, logged in to the address, keeps everything.
LEMMA DockerLoginKeeps ==
    ASSUME ConfigInv, NEW c \in Callers, DockerLogin(c)
    PROVE  ConfigInv'
<1> USE DEF DockerLogin, EndTask, hookState, configHistory, configBounds
<1>1. /\ step[c] = "login" /\ task[c].file = Registries /\ task[c].entry \in Entries
      /\ task[c].address \in Addresses /\ logins' = logins \cup {task[c].address}
      /\ UNCHANGED <<file, config, secretOf, serving, secrets, stored, told,
                     replacedAddresses, lapped, torn, sharedSecret, tasks>>
  BY DEF ConfigInv, TaskInv, FileSteps
<1>2. step'[c] = "idle" /\ Moves(c)
  BY NothingYet DEF Moves, ConfigInv, ConfigTypeOK, TaskInv
<1> HIDE DEF DockerLogin, EndTask
<1>3. ConfigTypeOK'
  BY <1>1, <1>2 DEF Moves, ConfigInv, ConfigTypeOK
<1>4. TaskInv'
  BY <1>1, <1>2 DEF Moves, ConfigInv, TaskInv, FileSteps, HookSteps, Adding
<1>5. FileInv'
  BY <1>1, <1>2 DEF Moves, ConfigInv, FileInv, EntriesKept
<1>6. LoginInv'
  <2> SUFFICES ASSUME Registries \notin lapped
               PROVE  LoginInv'
    BY <1>1 DEF LoginInv, LoginsHaveProfile
  <2>1. task[c].address = file[Registries][task[c].entry]
    BY <1>1 DEF ConfigInv, LoginInv
  <2>2. LoginsHaveProfile'
    BY <1>1, <2>1 DEF ConfigInv, LoginInv, LoginsHaveProfile
  <2>3. \A d \in Callers \ {c} : step[d] # "idle" => task[d].file # Registries
    BY <1>1 DEF ConfigInv, SoleInv
  <2>4. \A d \in Callers : step[d] \in {"login", "logout"} => task[d].file = Registries
    BY DEF ConfigInv, TaskInv
  <2> QED
    BY <1>2, <2>2, <2>3, <2>4 DEF Moves, LoginInv
<1>7. SecretsInv' /\ SoleInv' /\ HookInv'
  BY <1>1, <1>2, FileStepKeeps DEF FileSteps
<1> QED
  BY <1>3, <1>4, <1>5, <1>6, <1>7 DEF ConfigInv

-----------------------------------------------------------------------------
(* The steps of a command that adds a webhook, and the server.               *)

\* A command that goes on with webhooks.yaml keeps what is not of webhooks.
LEMMA HookStepKeeps ==
    ASSUME ConfigInv, NEW c \in Callers, step[c] \in HookSteps, Moves(c),
           step'[c] \in Adding \cup {"idle"}, step'[c] # "idle" => task'[c].file = task[c].file,
           UNCHANGED <<profileState, stored, replacedAddresses, lapped>>
    PROVE  FileInv' /\ LoginInv' /\ SoleInv' /\ Asking' \subseteq Asking \ {c}
<1> USE DEF profileState
<1>1. FileInv' /\ LoginInv'
  BY FileFrame DEF Moves, Adding, HookSteps
<1>2. SoleInv'
  BY SoleFrame DEF ConfigInv, HookSteps
<1>3. Asking' \subseteq Asking \ {c}
  BY DEF Moves, Asking, Adding
<1> QED
  BY <1>1, <1>2, <1>3

\* When no two commands worked on webhooks.yaml at once, nobody else is at it.
LEMMA OnlyHook ==
    ASSUME ConfigInv, NEW c \in Callers, step[c] \in HookSteps, "webhooks" \notin lapped
    PROVE  \A d \in Callers \ {c} : step[d] \notin HookSteps
<1>1. \A d \in Callers : step[d] \in HookSteps => task[d].file = "webhooks" /\ step[d] # "idle"
  BY DEF ConfigInv, TaskInv, HookSteps
<1> QED
  BY <1>1 DEF ConfigInv, SoleInv

\* A command that has read webhooks.yaml and made a secret keeps everything.
LEMMA LoadHooksKeeps ==
    ASSUME ConfigInv, NEW c \in Callers, LoadHooks(c)
    PROVE  ConfigInv'
<1> DEFINE hooks == HooksIn(config)
           hook == task[c].hook
           path == task[c].path
           new == [hooks EXCEPT ![hook] = path]
<1> USE DEF LoadHooks, Continue, profileState, hookState, configBounds
<1>1. /\ step[c] = "hooks" /\ task[c] \in Tasks /\ hook \in Hooks /\ path \in SecretFiles
      /\ task[c].file = "webhooks"
  BY DEF ConfigInv, TaskInv, HookSteps
<1>2. hooks \in HookFiles
  BY NothingYet DEF ConfigInv, ConfigTypeOK, HooksIn, HookFiles
<1>3. UNCHANGED <<file, logins, config, secretOf, serving, stored, told, replacedAddresses,
                  lapped, torn, tasks>>
  OBVIOUS
<1>4. CASE Refused(hook, hooks)
  <2>1. EndTask(c) /\ UNCHANGED <<secrets, sharedSecret>>
    BY <1>4
  <2> QED
    BY <1>1, <1>3, <2>1, EndTaskKeeps DEF ConfigInv, ConfigTypeOK
<1>5. CASE ~Refused(hook, hooks)
  <2>1. /\ step' = [step EXCEPT ![c] = "secret"]
        /\ secrets' = secrets + 1
        /\ task' = [task EXCEPT ![c].hooks = new, ![c].secret = secrets']
    BY <1>5
  <2>2. /\ sharedSecret \in BOOLEAN /\ sharedSecret' \in BOOLEAN
        /\ ~sharedSecret' => ~sharedSecret /\ \A h \in Hooks \ {hook} : hooks[h] # path
    BY <1>5 DEF ConfigInv, ConfigTypeOK
  <2>3. /\ new \in HookFiles /\ new[hook] = path
        /\ \A h \in Hooks \ {hook} : new[h] = hooks[h]
        /\ hooks[hook] = Nil /\ secrets \in Nat /\ secrets' \in Nat /\ secrets' \in 1..secrets'
    BY <1>1, <1>2, <1>5, <2>1 DEF HookFiles, Refused, ConfigInv, SecretsInv
  <2> HIDE DEF new, hooks
  <2>4. /\ task'[c].file = "webhooks" /\ task'[c].hook = hook /\ task'[c].path = path
        /\ task'[c].hooks = new /\ task'[c].secret = secrets'
        /\ task' \in [Callers -> Tasks]
    BY <1>1, <2>1, <2>3 DEF ConfigInv, TaskInv, Tasks
  <2>5. step'[c] = "secret" /\ Moves(c)
    BY <2>1, <2>4 DEF Moves, ConfigInv, ConfigTypeOK, TaskInv, Working, HookSteps
  <2> HIDE DEF LoadHooks
  <2>6. SecretsInv'
    <3>1. Asking' = Asking \ {c} /\ c \in Asking
      BY <1>1, <2>5 DEF Asking, Moves
    <3>2. IsFiniteSet(Asking') /\ Cardinality(Asking') = Cardinality(Asking) - 1
      BY <3>1, FS_RemoveElement DEF ConfigInv, SecretsInv
    <3>3. Cardinality(Asking) \in Nat /\ Cardinality(Asking') \in Nat
      BY <3>2, FS_CardinalityType DEF ConfigInv, SecretsInv
    <3> QED
      BY <1>3, <2>1, <2>3, <3>2, <3>3 DEF ConfigInv, SecretsInv
  <2>7. ConfigTypeOK'
    <3>1. secrets' \in 0..MaxTasks
      <4>1. Cardinality(Asking') \in Nat
        BY <2>6, FS_CardinalityType DEF SecretsInv
      <4> QED
        BY <2>6, <4>1, TasksAssumption DEF SecretsInv
    <3>2. /\ 1..secrets \subseteq 1..secrets'
      BY <2>1, <2>3
    <3>3. /\ secretOf' \in [SecretFiles -> (1..secrets') \cup {Nil, Emptied}]
          /\ serving' \in [Hooks -> (1..secrets') \cup {Nil}] \cup {Nil}
          /\ told' \in [Hooks -> (1..secrets') \cup {Nil}]
      BY <1>3, <3>2 DEF ConfigInv, ConfigTypeOK
    <3> QED
      BY <1>3, <2>2, <2>5, <3>1, <3>3 DEF Moves, ConfigInv, ConfigTypeOK
  <2>8. TaskInv'
    <3>1. /\ \A d \in Callers \ {c} : step'[d] = step[d] /\ task'[d] = task[d]
          /\ task' \in [Callers -> Tasks]
      BY <2>5 DEF Moves
    <3>2. \A d \in Callers \ {c} : step[d] \in Adding => task[d].secret \in 1..secrets'
      BY <2>1, <2>3 DEF ConfigInv, TaskInv
    <3> QED
      BY <1>1, <2>3, <2>4, <2>5, <3>1, <3>2
      DEF ConfigInv, TaskInv, FileSteps, HookSteps, Adding
  <2>9. HookInv'
    <3> SUFFICES ASSUME ~("webhooks" \in lapped \/ torn \/ sharedSecret')
                 PROVE  HookInv'
      BY <1>3 DEF HookInv
    <3>1. \A d \in Callers \ {c} : step'[d] = step[d] /\ step[d] \notin HookSteps
      BY <1>1, <2>5, OnlyHook DEF HookSteps, Moves
    <3>2. ~HalfWritten /\ ~HalfWritten'
      BY <1>1, <2>5, <3>1 DEF HalfWritten, HookSteps
    <3>3. \A h \in Hooks : Holds(hooks, h)
      BY <2>2, <3>2 DEF ConfigInv, HookInv, hooks
    <3>4. /\ \A h \in Hooks : \A x : Holds(x, h)' <=> Holds(x, h)
          /\ HooksIn(config)' = hooks
      BY <1>3 DEF Holds, HooksIn, hooks
    <3>5. serving # Nil => \A h \in Hooks : serving[h] \in {Nil, told[h]}
      BY <2>2 DEF ConfigInv, HookInv
    <3>6. told[hook] = Nil
      BY <1>1, <2>3, <3>3 DEF Holds
    <3>7. \A h \in Hooks \ {hook} : Holds(new, h)
      BY <2>3, <3>3 DEF Holds
    <3>8. \A h \in Hooks \ {hook} : new[h] # path
      BY <2>2, <2>3
    <3>9. \A d \in Callers : step'[d] \in Adding => d = c
      BY <3>1 DEF Adding
    <3> QED
      BY <1>3, <2>3, <2>4, <2>5, <3>2, <3>3, <3>4, <3>5, <3>6, <3>7, <3>8, <3>9
      DEF HookInv, Holds, hooks
  <2>10. FileInv' /\ LoginInv' /\ SoleInv'
    BY <1>1, <1>3, <2>4, <2>5, HookStepKeeps DEF Adding, HookSteps
  <2> QED
    BY <2>6, <2>7, <2>8, <2>9, <2>10 DEF ConfigInv
<1> QED
  BY <1>4, <1>5

\* What the steps that write a secret or webhooks.yaml have in common.
LEMMA AddingKeeps ==
    ASSUME ConfigInv, NEW c \in Callers, step[c] \in Adding, Moves(c),
           \/ step'[c] = "idle"
           \/ step'[c] \in Adding /\ task' = task,
           UNCHANGED <<file, logins, serving, secrets, stored, replacedAddresses, lapped, torn,
                       sharedSecret, tasks>>,
           config' \in HookFiles \cup {Nil, Emptied},
           secretOf' \in [SecretFiles -> (1..secrets) \cup {Nil, Emptied}],
           told' \in [Hooks -> (1..secrets) \cup {Nil}]
    PROVE  ConfigTypeOK' /\ TaskInv' /\ SecretsInv' /\ SoleInv' /\ FileInv' /\ LoginInv'
<1>1. ConfigTypeOK'
  BY DEF Moves, ConfigInv, ConfigTypeOK, HookFiles, Working, FileSteps, HookSteps
<1>2. TaskInv'
  <2>1. \A d \in Callers : step'[d] \in FileSteps =>
           step'[d] = step[d] /\ task'[d] = task[d]
    BY DEF Moves, Adding, HookSteps, FileSteps
  <2>2. \A d \in Callers : step'[d] \in HookSteps => step[d] \in HookSteps /\ task'[d] = task[d]
    BY DEF Moves, Adding, HookSteps
  <2>3. \A d \in Callers : step'[d] \in Adding => step[d] \in Adding /\ task'[d] = task[d]
    BY DEF Moves, Adding, HookSteps
  <2>4. task' \in [Callers -> Tasks] /\ secrets' = secrets
    BY DEF Moves
  <2> QED
    BY <2>1, <2>2, <2>3, <2>4 DEF ConfigInv, TaskInv, FileSteps
<1>3. /\ FileInv' /\ LoginInv' /\ SoleInv' /\ Asking' \subseteq Asking \ {c}
  BY HookStepKeeps DEF profileState, Adding
<1>4. SecretsInv'
  BY <1>3, AskingKeeps DEF ConfigInv
<1> QED
  BY <1>1, <1>2, <1>3, <1>4

\* A command that empties or writes the file of its secret keeps everything.
LEMMA SecretFileKeeps ==
    ASSUME ConfigInv, NEW c \in Callers, TruncateSecret(c) \/ WriteSecret(c)
    PROVE  ConfigInv'
<1> DEFINE t == task[c]
<1> USE DEF Continue, profileState, configHistory, configBounds
<1>1. /\ step[c] \in {"secret", "secret-content"} /\ t.hook \in Hooks /\ t.path \in SecretFiles
      /\ t.secret \in 1..secrets
  BY DEF TruncateSecret, WriteSecret, ConfigInv, TaskInv, HookSteps, Adding
<1>2. UNCHANGED <<file, logins, config, serving, task, secrets, stored, told, replacedAddresses,
                  lapped, torn, sharedSecret, tasks>>
  BY DEF TruncateSecret, WriteSecret
<1>3. /\ step'[c] \in {"secret-content", "config"} /\ Moves(c)
      /\ step'[c] = "config" => secretOf'[t.path] = t.secret
  BY <1>1, <1>2 DEF TruncateSecret, WriteSecret, Moves, ConfigInv, ConfigTypeOK, TaskInv,
                    Working, HookSteps
<1>4. /\ \A s \in SecretFiles \ {t.path} : secretOf'[s] = secretOf[s]
      /\ secretOf' \in [SecretFiles -> (1..secrets) \cup {Nil, Emptied}]
  BY <1>1 DEF TruncateSecret, WriteSecret, ConfigInv, ConfigTypeOK
<1>5. ConfigTypeOK' /\ TaskInv' /\ SecretsInv' /\ SoleInv' /\ FileInv' /\ LoginInv'
  <2>1. /\ config' \in HookFiles \cup {Nil, Emptied}
        /\ told' \in [Hooks -> (1..secrets) \cup {Nil}]
    BY <1>2 DEF ConfigInv, ConfigTypeOK, HookFiles
  <2> QED
    BY <1>1, <1>2, <1>3, <1>4, <2>1, AddingKeeps DEF Adding, HookSteps
<1>6. HookInv'
  <2> SUFFICES ASSUME ~("webhooks" \in lapped \/ torn \/ sharedSecret)
               PROVE  HookInv'
    BY <1>2 DEF HookInv
  <2>1. \A d \in Callers \ {c} : step'[d] = step[d] /\ step[d] \notin HookSteps
    BY <1>1, <1>3, OnlyHook DEF HookSteps, Moves
  <2>2. ~HalfWritten /\ ~HalfWritten'
    BY <1>1, <1>3, <2>1 DEF HalfWritten, HookSteps
  <2>3. /\ told[t.hook] = Nil /\ t.hooks[t.hook] = t.path
        /\ \A h \in Hooks \ {t.hook} : /\ Holds(t.hooks, h) /\ t.hooks[h] # t.path
                                       /\ t.hooks[h] = HooksIn(config)[h]
        /\ \A h \in Hooks : Holds(HooksIn(config), h)
        /\ serving # Nil => \A h \in Hooks : serving[h] \in {Nil, told[h]}
    BY <1>1, <2>2 DEF ConfigInv, HookInv, Adding, HookSteps
  <2>4. /\ HooksIn(config)' = HooksIn(config)
        /\ HooksIn(config) \in HookFiles /\ t.hooks \in HookFiles
    BY <1>2, NothingYet DEF HooksIn, ConfigInv, ConfigTypeOK, HookFiles, TaskInv, Tasks
  <2>5. \A h \in Hooks \ {t.hook} : Holds(t.hooks, h)' /\ Holds(HooksIn(config), h)'
    BY <1>2, <1>4, <2>3, <2>4 DEF Holds, HookFiles
  <2>6. Holds(HooksIn(config), t.hook)'
    BY <1>2, <2>3, <2>4, <1>1 DEF Holds
  <2>7. \A d \in Callers : step'[d] \in Adding => d = c
    BY <2>1 DEF Adding
  <2> QED
    BY <1>2, <1>3, <2>2, <2>3, <2>4, <2>5, <2>6, <2>7 DEF HookInv
<1> QED
  BY <1>5, <1>6 DEF ConfigInv

\* A command that empties webhooks.yaml keeps everything.
LEMMA TruncateConfigKeeps ==
    ASSUME ConfigInv, NEW c \in Callers, TruncateConfig(c)
    PROVE  ConfigInv'
<1> USE DEF TruncateConfig, Continue, profileState, configHistory, configBounds
<1>1. /\ step[c] = "config" /\ config' = Emptied
      /\ UNCHANGED <<file, logins, secretOf, serving, task, secrets, stored, told,
                     replacedAddresses, lapped, torn, sharedSecret, tasks>>
  OBVIOUS
<1>2. step'[c] = "config-content" /\ Moves(c)
  BY DEF Moves, ConfigInv, ConfigTypeOK, TaskInv, Working, HookSteps
<1> HIDE DEF TruncateConfig
<1>3. ConfigTypeOK' /\ TaskInv' /\ SecretsInv' /\ SoleInv' /\ FileInv' /\ LoginInv'
  <2>1. /\ secretOf' \in [SecretFiles -> (1..secrets) \cup {Nil, Emptied}]
        /\ told' \in [Hooks -> (1..secrets) \cup {Nil}]
    BY <1>1 DEF ConfigInv, ConfigTypeOK
  <2> QED
    BY <1>1, <1>2, <2>1, AddingKeeps DEF Adding, HookSteps
<1>4. HookInv'
  <2> SUFFICES ASSUME ~("webhooks" \in lapped \/ torn \/ sharedSecret)
               PROVE  HookInv'
    BY <1>1 DEF HookInv
  <2>1. \A d \in Callers : step'[d] \in Adding => d = c
    BY <1>1, <1>2, OnlyHook DEF Adding, HookSteps, Moves
  <2>2. HalfWritten'
    BY <1>2 DEF HalfWritten
  <2>3. \A h \in Hooks : \A hooks : Holds(hooks, h)' <=> Holds(hooks, h)
    BY <1>1 DEF Holds
  <2>4. /\ told[task[c].hook] = Nil /\ task[c].hooks[task[c].hook] = task[c].path
        /\ \A h \in Hooks \ {task[c].hook} :
              Holds(task[c].hooks, h) /\ task[c].hooks[h] # task[c].path
        /\ secretOf[task[c].path] = task[c].secret
        /\ serving # Nil => \A h \in Hooks : serving[h] \in {Nil, told[h]}
    BY <1>1 DEF ConfigInv, HookInv, Adding, HookSteps
  <2> QED
    BY <1>1, <1>2, <2>1, <2>2, <2>3, <2>4 DEF HookInv, Holds
<1> QED
  BY <1>3, <1>4 DEF ConfigInv

\* A command that writes webhooks.yaml and tells the operator the secret keeps everything.
LEMMA WriteConfigKeeps ==
    ASSUME ConfigInv, NEW c \in Callers, WriteConfig(c)
    PROVE  ConfigInv'
<1> DEFINE t == task[c]
<1> USE DEF WriteConfig, EndTask, profileState, configBounds
<1>1. /\ step[c] = "config-content" /\ t.hook \in Hooks /\ t.path \in SecretFiles
      /\ t.secret \in 1..secrets /\ secrets \in Nat /\ t.hooks \in HookFiles
  BY DEF ConfigInv, TaskInv, HookSteps, Adding, SecretsInv, Tasks
<1>2. /\ config' = t.hooks /\ told' = [told EXCEPT ![t.hook] = t.secret]
      /\ UNCHANGED <<file, logins, secretOf, serving, secrets, stored, replacedAddresses, lapped,
                     torn, sharedSecret, tasks>>
  OBVIOUS
<1>3. step'[c] = "idle" /\ Moves(c)
  BY NothingYet DEF Moves, ConfigInv, ConfigTypeOK, TaskInv
<1> HIDE DEF WriteConfig, EndTask
<1>4. ConfigTypeOK' /\ TaskInv' /\ SecretsInv' /\ SoleInv' /\ FileInv' /\ LoginInv'
  <2>1. /\ secretOf' \in [SecretFiles -> (1..secrets) \cup {Nil, Emptied}]
        /\ config' \in HookFiles \cup {Nil, Emptied}
        /\ told' \in [Hooks -> (1..secrets) \cup {Nil}]
    BY <1>1, <1>2 DEF ConfigInv, ConfigTypeOK
  <2> QED
    BY <1>1, <1>2, <1>3, <2>1, AddingKeeps DEF Adding, HookSteps
<1>5. HookInv'
  <2> SUFFICES ASSUME ~("webhooks" \in lapped \/ torn \/ sharedSecret)
               PROVE  HookInv'
    BY <1>2 DEF HookInv
  <2>1. \A d \in Callers : step'[d] \notin Adding
    BY <1>1, <1>3, OnlyHook DEF Adding, HookSteps, Moves
  <2>2. ~HalfWritten'
    BY <2>1 DEF HalfWritten, Adding, HookSteps
  <2>3. /\ told[t.hook] = Nil /\ t.hooks[t.hook] = t.path
        /\ \A h \in Hooks \ {t.hook} : Holds(t.hooks, h) /\ t.hooks[h] # t.path
        /\ secretOf[t.path] = t.secret
        /\ serving # Nil => \A h \in Hooks : serving[h] \in {Nil, told[h]}
    BY <1>1 DEF ConfigInv, HookInv, Adding, HookSteps
  <2>4. HooksIn(config)' = t.hooks
    BY <1>1, <1>2, NothingYet DEF HooksIn
  <2>5. told'[t.hook] = t.secret /\ \A h \in Hooks \ {t.hook} : told'[h] = told[h]
    BY <1>1, <1>2 DEF ConfigInv, ConfigTypeOK
  <2> QED
    BY <1>1, <1>2, <2>1, <2>2, <2>3, <2>4, <2>5, NothingYet DEF HookInv, Holds
<1> QED
  BY <1>4, <1>5 DEF ConfigInv

\* The server, starting or stopping, keeps everything.
LEMMA ServerKeeps ==
    ASSUME ConfigInv, Serve \/ StopServing
    PROVE  ConfigInv'
<1> USE DEF profileState, configHistory, configBounds
<1>1. UNCHANGED <<file, logins, config, secretOf, step, task, secrets, stored, told,
                  replacedAddresses, lapped, torn, sharedSecret, tasks>>
  BY DEF Serve, StopServing
<1>2. /\ serving' \in [Hooks -> (1..secrets) \cup {Nil}] \cup {Nil}
      /\ serving' # Nil =>
            /\ config \in HookFiles
            /\ \A h \in Hooks : serving'[h] = IF config[h] = Nil THEN Nil ELSE secretOf[config[h]]
  <2>1. CASE Serve
    <3>1. config \in HookFiles /\ config \notin {Nil, Emptied}
      BY <2>1 DEF Serve, ConfigInv, ConfigTypeOK, HookFiles
    <3>2. \A h \in Hooks : config[h] # Nil => secretOf[config[h]] \in 1..secrets
      BY <2>1, <3>1 DEF Serve, Runs, HookFiles, ConfigInv, ConfigTypeOK
    <3> QED
      BY <2>1, <3>1, <3>2 DEF Serve
  <2>2. CASE StopServing
    BY <2>2 DEF StopServing
  <2> QED
    BY <2>1, <2>2
<1>3. ConfigTypeOK'
  BY <1>1, <1>2 DEF ConfigInv, ConfigTypeOK
<1>4. TaskInv' /\ SoleInv'
  BY <1>1 DEF ConfigInv, TaskInv, SoleInv
<1>5. SecretsInv'
  <2>1. Asking' \subseteq Asking
    BY <1>1 DEF Asking
  <2> QED
    BY <1>1, <2>1, AskingKeeps DEF ConfigInv
<1>6. FileInv' /\ LoginInv'
  BY <1>1, FileFrame DEF ConfigInv, TaskInv
<1>7. HookInv'
  <2> SUFFICES ASSUME ~("webhooks" \in lapped \/ torn \/ sharedSecret)
               PROVE  HookInv'
    BY <1>1 DEF HookInv
  <2>1. /\ HalfWritten' <=> HalfWritten
        /\ HooksIn(config)' = HooksIn(config)
        /\ \A h \in Hooks : \A hooks : Holds(hooks, h)' <=> Holds(hooks, h)
    BY <1>1 DEF HalfWritten, HooksIn, Holds
  <2>2. ASSUME serving' # Nil, NEW h \in Hooks
        PROVE  serving'[h] \in {Nil, told[h]}
    <3>1. config \notin {Nil, Emptied}
      BY <1>2, <2>2, NothingYet
    <3>2. Holds(config, h)
      BY <3>1 DEF ConfigInv, HookInv, HooksIn
    <3> QED
      BY <1>2, <2>2, <3>2 DEF Holds
  <2> QED
    BY <1>1, <2>1, <2>2 DEF ConfigInv, HookInv, Holds
<1> QED
  BY <1>3, <1>4, <1>5, <1>6, <1>7 DEF ConfigInv

-----------------------------------------------------------------------------
(* The invariant.                                                            *)

\* The host starts without profiles, webhooks or a command.
LEMMA ConfigInitInv == ConfigInit => ConfigInv
<1> SUFFICES ASSUME ConfigInit PROVE ConfigInv
  OBVIOUS
<1> USE DEF ConfigInit
<1>1. ConfigTypeOK
  <2>1. /\ file \in [Files -> [Entries -> Addresses \cup {Nil}]]
        /\ stored \in [Files -> [Entries -> Addresses \cup {Nil}]]
    BY DEF Absent
  <2>2. /\ secretOf \in [SecretFiles -> (1..secrets) \cup {Nil, Emptied}]
        /\ told \in [Hooks -> (1..secrets) \cup {Nil}]
        /\ secrets \in 0..MaxTasks
    BY TasksAssumption DEF NoHooks
  <2>3. {torn, sharedSecret} \subseteq BOOLEAN
    OBVIOUS
  <2> QED
    BY <2>1, <2>2, <2>3 DEF ConfigTypeOK
<1>2. TaskInv /\ \A c \in Callers : step[c] = "idle"
  BY NothingYet DEF TaskInv, FileSteps, HookSteps, Adding
<1>3. SecretsInv
  <2>1. Asking = {}
    BY <1>2 DEF Asking
  <2> QED
    BY <2>1, FS_EmptySet, TasksAssumption DEF SecretsInv
<1>4. SoleInv /\ FileInv /\ LoginInv
  BY <1>2 DEF SoleInv, FileInv, EntriesKept, LoginInv, LoginsHaveProfile
<1>5. HookInv
  BY <1>2 DEF HookInv, HalfWritten, HooksIn, Holds, NoHooks, Adding, HookSteps
<1> QED
  BY <1>1, <1>2, <1>3, <1>4, <1>5 DEF ConfigInv

\* A step of a command keeps the invariant.
LEMMA CallerKeeps ==
    ASSUME ConfigInv, NEW c \in Callers,
           \/ Put(c) \/ Drop(c) \/ GetProfile(c) \/ Logout(c) \/ LogoutFails(c)
           \/ LoadFile(c) \/ LoadFileFails(c) \/ SaveFile(c) \/ SaveFileFails(c)
           \/ Login(c) \/ DockerLogin(c) \/ DockerLoginFails(c)
           \/ AddHook(c) \/ LoadHooks(c) \/ TruncateSecret(c) \/ WriteSecret(c)
           \/ TruncateConfig(c) \/ WriteConfig(c) \/ AddHookFails(c)
           \/ Kill(c)
    PROVE  ConfigInv'
<1>1. CASE Put(c) \/ Drop(c) \/ Login(c) \/ AddHook(c)
  <2>1. PICK first, t : FirstTask(first, t) /\ BeginTask(c, first, t)
    BY <1>1, FirstTasks
  <2>2. UNCHANGED <<profileState, hookState, secrets, stored, told, replacedAddresses, torn,
                    sharedSecret>>
    BY <1>1 DEF Put, Drop, Login, AddHook
  <2> QED
    BY <2>1, <2>2, BeginTaskKeeps
<1>2. CASE LogoutFails(c) \/ LoadFileFails(c) \/ SaveFileFails(c) \/ DockerLoginFails(c)
             \/ AddHookFails(c) \/ Kill(c)
  <2>1. /\ step[c] # "idle" /\ EndTask(c)
        /\ UNCHANGED <<profileState, hookState, secrets, stored, told, replacedAddresses, lapped,
                       sharedSecret, tasks>>
        /\ \/ torn' = torn /\ step[c] # "config-content"
           \/ torn' = (torn \/ step[c] = "config-content")
    BY <1>2 DEF LogoutFails, LoadFileFails, SaveFileFails, DockerLoginFails, AddHookFails, Kill,
                AfterFailedLogout, AfterUnreadFile, configHistory
  <2>2. torn \in BOOLEAN
    BY DEF ConfigInv, ConfigTypeOK
  <2>3. torn' \in BOOLEAN /\ (torn => torn') /\ (step[c] = "config-content" => torn')
    <3>1. CASE torn' = torn /\ step[c] # "config-content"
      BY <2>2, <3>1
    <3>2. CASE torn' = (torn \/ step[c] = "config-content")
      <4>1. torn' \in BOOLEAN
        BY <3>2
      <4>2. torn => torn'
        BY <3>2
      <4>3. step[c] = "config-content" => torn'
        BY <3>2
      <4> QED
        BY <4>1, <4>2, <4>3
    <3> QED
      BY <2>1, <3>1, <3>2
  <2> QED
    BY <2>1, <2>3, EndTaskKeeps
<1> QED
  BY <1>1, <1>2, GetProfileKeeps, LogoutKeeps, LoadFileKeeps, SaveFileKeeps, DockerLoginKeeps,
     LoadHooksKeeps, SecretFileKeeps, TruncateConfigKeeps, WriteConfigKeeps

\* A step that leaves every variable alone keeps the invariant.
LEMMA ConfigStutter == ConfigInv /\ UNCHANGED configVars => ConfigInv'
<1> SUFFICES ASSUME ConfigInv, UNCHANGED configVars PROVE ConfigInv'
  OBVIOUS
<1>1. UNCHANGED <<file, logins, config, secretOf, serving, step, task, secrets, stored, told,
                  replacedAddresses, lapped, torn, sharedSecret, tasks>>
  BY DEF configVars, profileState, hookState, configHistory, configBounds
<1>2. ConfigTypeOK' /\ TaskInv' /\ SoleInv'
  BY <1>1 DEF ConfigInv, ConfigTypeOK, TaskInv, SoleInv
<1>3. SecretsInv'
  <2>1. Asking' \subseteq Asking
    BY <1>1 DEF Asking
  <2> QED
    BY <1>1, <2>1, AskingKeeps DEF ConfigInv
<1>4. FileInv' /\ LoginInv'
  BY <1>1, FileFrame
<1>5. HookInv'
  BY <1>1, HookFrame DEF Adding
<1> QED
  BY <1>2, <1>3, <1>4, <1>5 DEF ConfigInv

\* Every step keeps the invariant.
LEMMA ConfigNextInv == ConfigInv /\ [ConfigNext]_configVars => ConfigInv'
  BY CallerKeeps, ServerKeeps, ConfigStutter DEF ConfigNext

\* The invariant holds throughout.
THEOREM ConfigInvariance == ConfigSpec => []ConfigInv
  BY ConfigInitInv, ConfigNextInv, PTL DEF ConfigSpec

-----------------------------------------------------------------------------
(* What follows.                                                             *)

\* What the invariant says of the webhooks.
LEMMA HooksFollow == ConfigInv => HooksAreAsTold
<1> SUFFICES ASSUME ConfigInv, ~("webhooks" \in lapped \/ torn \/ sharedSecret),
                    NEW h \in Hooks, told[h] # Nil
             PROVE  /\ ~(\E c \in Callers : step[c] = "config-content") =>
                           config \notin {Nil, Emptied} /\ config[h] # Nil
                              /\ secretOf[config[h]] = told[h]
                    /\ serving # Nil => serving[h] \in {Nil, told[h]}
  BY DEF HooksAreAsTold
<1>1. ~HalfWritten => Holds(HooksIn(config), h)
  BY DEF ConfigInv, HookInv
<1>2. HooksIn(config)[h] # Nil => config \notin {Nil, Emptied} /\ HooksIn(config) = config
  BY DEF HooksIn, NoHooks
<1>3. serving # Nil => serving[h] \in {Nil, told[h]}
  BY DEF ConfigInv, HookInv
<1> QED
  BY <1>1, <1>2, <1>3 DEF Holds, HalfWritten

\* What the invariant says of the properties.
LEMMA ConfigConsequences ==
    ConfigInv => ConfigTypeOK /\ EntriesKept /\ LoginsHaveProfile /\ HooksAreAsTold
  BY HooksFollow DEF ConfigInv, FileInv, LoginInv

\* Every file holds what the commands that succeeded have put into it, and Docker has
\* credentials only for the address of a profile, unless two commands worked on the file
\* at once (registry/store.go, remote/profiles.go, environment/store.go).
THEOREM FilesAreKept == ConfigSpec => [](EntriesKept /\ LoginsHaveProfile)
  BY ConfigInvariance, ConfigConsequences, PTL

\* A webhook the operator was told of is configured, and served, with the secret that was
\* told, unless the file was torn, shared its secret or was written by two commands at
\* once (webhook/config.go, AddHook and LoadRuntimeHooks).
THEOREM HooksStayAsTold == ConfigSpec => []HooksAreAsTold
  BY ConfigInvariance, ConfigConsequences, PTL

-----------------------------------------------------------------------------
(* The two stores side by side.                                              *)

\* Both invariants hold whichever of the two a behaviour exercises.
THEOREM StoresInvariance == Spec => [](SecretInv /\ ConfigInv)
<1>1. Init => SecretInv /\ ConfigInv
  BY InitInv, ConfigInitInv DEF Init
<1>2. SecretInv /\ ConfigInv /\ [Next]_<<secretVars, configVars, subject>>
         => SecretInv' /\ ConfigInv'
  <2> SUFFICES ASSUME SecretInv, ConfigInv, [Next]_<<secretVars, configVars, subject>>
               PROVE  SecretInv' /\ ConfigInv'
    OBVIOUS
  <2>1. [SecretNext]_secretVars /\ [ConfigNext]_configVars
    BY DEF Next
  <2> QED
    BY <2>1, NextInv, ConfigNextInv
<1> QED
  BY <1>1, <1>2, PTL DEF Spec

\* Every variable of the two stores has a value of its type.
THEOREM StoresTypesCorrect == Spec => []TypeOK
<1>1. SecretInv /\ ConfigInv => TypeOK
  BY Consequences, ConfigConsequences DEF TypeOK
<1> QED
  BY <1>1, StoresInvariance, PTL

\* What a command that succeeded has stored stays stored, whatever fails or dies beside
\* it, and no credentials stay that no profile stands for.
THEOREM StoredStaysKept == Spec => []StoredIsKept
<1>1. SecretInv /\ ConfigInv => StoredIsKept
  BY Consequences, ConfigConsequences DEF StoredIsKept
<1> QED
  BY <1>1, StoresInvariance, PTL
=============================================================================
