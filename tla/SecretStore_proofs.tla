--------------------------- MODULE SecretStore_proofs ---------------------------
(***************************************************************************)
(* Proofs about SecretStore, for any number of commands, projects, names   *)
(* and values, any number of failed file operations, deaths and reboots.   *)
(***************************************************************************)
EXTENDS SecretStore, FiniteSetTheorems, TLAPS

-----------------------------------------------------------------------------
(* The inductive invariant.                                                  *)

Jobs == [op : {"set", "remove", "deploy", None}, project : Projects \cup {None},
         name : Names \cup {None}, value : Values \cup {None},
         specs : SUBSET Names, todo : SUBSET Names, values : Secrets,
         key : Keys \cup {None}]

\* The steps of a command that replaces the store's file, before it has done so.
Replacing == {"identity", "new-identity", "save"}

\* What a command works on at each of its steps.
JobInv ==
    /\ job \in [Commands -> Jobs]
    /\ \A c \in Commands : pc[c] # "idle" =>
         /\ job[c].project \in Projects /\ job[c].op \in {"set", "remove", "deploy"}
         /\ job[c].op # "deploy" => job[c].name \in Names
         /\ job[c].op = "set" => job[c].value \in Values
         /\ job[c].op = "remove" => job[c].value = None
    /\ \A c \in Commands :
         /\ pc[c] = "load" => job[c].todo = job[c].specs
         /\ pc[c] \in Replacing \cup {"unlink"} => job[c].op # "deploy"
         /\ pc[c] \in Replacing => job[c].values # NoSecrets
         /\ pc[c] = "unlink" => job[c].values = NoSecrets
         /\ pc[c] \in {"new-identity", "save"} => job[c].key \in Keys

\* The commands that may yet generate an identity.
Pending == {c \in Commands : pc[c] \in {"load", "identity"}}

\* A command generates at most one identity.
CountInv ==
    /\ IsFiniteSet(Pending)
    /\ generated \in Nat /\ jobs \in Nat /\ jobs <= MaxJobs
    /\ generated + Cardinality(Pending) <= jobs

\* Unless two commands generated an identity at once, a command that is about to write
\* the identity is the only one and there is none yet, so nothing is encrypted; and a
\* file is only written with the identity that is there.
IdentityInv ==
    ~raced =>
      /\ \A c, d \in Commands : pc[c] = "new-identity" /\ pc[d] = "new-identity" => c = d
      /\ \A c \in Commands : pc[c] = "new-identity" => identity = None
      /\ \A c \in Commands : pc[c] = "save" => job[c].key = identity
      /\ StoresReadable

\* A project on which no two commands overlapped has at most one under way.
AloneInv ==
    \A c, d \in Commands :
        (pc[c] # "idle" /\ pc[d] # "idle" /\ job[c].project = job[d].project
            /\ job[c].project \notin overlap) => c = d

\* What such a command is about to store is what the store holds, with its one change.
StoredInv ==
    /\ SecretsKept
    /\ \A c \in Commands :
         (pc[c] \in Replacing \cup {"unlink"} /\ job[c].project \notin overlap) =>
             job[c].values = [kept[job[c].project] EXCEPT ![job[c].name] = job[c].value]

\* Until such a deployment is handed its secrets it has loaded nothing, and the files
\* it has written hold the values it read.
RuntimeInv ==
    /\ RuntimeIsOneVersion
    /\ \A c \in Commands :
         (pc[c] \in {"load", "write"} /\ job[c].project \notin overlap) =>
            /\ job[c].op = "deploy" \/ pc[c] = "write" => loaded[job[c].project] = None
            /\ \A n \in job[c].specs \ job[c].todo :
                  runtime[job[c].project][n] = job[c].values[n]

SecretInv ==
    /\ SecretTypeOK /\ JobInv /\ CountInv /\ IdentityInv
    /\ AloneInv /\ StoredInv /\ RuntimeInv

-----------------------------------------------------------------------------
(* Facts the steps share.                                                    *)

\* The values the variables start from are of their types.
LEMMA Nothing ==
    /\ None \notin Nat /\ None \notin Keys
    /\ NoSecrets \in Secrets /\ NoJob \in Jobs
    /\ NoStore \in [key : Keys \cup {None}, values : Secrets]
    /\ NoStore.key = None /\ NoStore.values = NoSecrets
    /\ NoJob.todo = NoJob.specs
  BY ValuesAssumption DEF Keys, NoSecrets, Secrets, NoJob, Jobs, NoStore

\* A store that is there is encrypted to some key.
LEMMA StoreKeys ==
    ASSUME SecretTypeOK, NEW p \in Projects
    PROVE  /\ store[p].key = None => store[p] = NoStore
           /\ store[p].key \in Keys \cup {None} /\ store[p].values \in Secrets
  BY DEF SecretTypeOK, NoStore

\* No command becomes able to generate an identity.
LEMMA CountKeeps ==
    ASSUME CountInv, Pending' \subseteq Pending, UNCHANGED <<jobs, generated>>
    PROVE  CountInv'
<1>1. IsFiniteSet(Pending') /\ Cardinality(Pending') <= Cardinality(Pending)
  BY FS_Subset DEF CountInv
<1>2. Cardinality(Pending') \in Nat /\ Cardinality(Pending) \in Nat
  BY <1>1, FS_CardinalityType DEF CountInv
<1> QED
  BY <1>1, <1>2 DEF CountInv

-----------------------------------------------------------------------------
(* The end of a command, and its beginning.                                  *)

\* A command that ends without having stored anything keeps everything.
LEMMA EndKeeps ==
    ASSUME SecretInv, NEW c \in Commands, Return(c),
           UNCHANGED <<identity, store, runtime, generated, secretHistory, jobs>>
    PROVE  SecretInv'
<1> USE DEF SecretInv, Return, secretHistory
<1>1. /\ pc'[c] = "idle" /\ job' \in [Commands -> Jobs]
      /\ \A d \in Commands \ {c} : pc'[d] = pc[d] /\ job'[d] = job[d]
  BY Nothing DEF JobInv, SecretTypeOK
<1>2. SecretTypeOK'
  BY <1>1 DEF SecretTypeOK
<1>3. JobInv'
  BY <1>1 DEF JobInv, Replacing
<1>4. CountInv'
  <2>1. Pending' \subseteq Pending
    BY <1>1 DEF Pending
  <2> QED
    BY <2>1, CountKeeps
<1>5. IdentityInv'
  BY <1>1 DEF IdentityInv, StoresReadable, Exists, Decrypts
<1>6. AloneInv'
  BY <1>1 DEF AloneInv
<1>7. StoredInv'
  BY <1>1 DEF StoredInv, SecretsKept, Replacing
<1>8. RuntimeInv'
  BY <1>1 DEF RuntimeInv, RuntimeIsOneVersion
<1> QED
  BY <1>2, <1>3, <1>4, <1>5, <1>6, <1>7, <1>8

\* The job a command begins with.
FirstJob(j) ==
    /\ j \in Jobs /\ j.project \in Projects /\ j.op \in {"set", "remove", "deploy"}
    /\ j.op # "deploy" => j.name \in Names
    /\ j.op = "set" => j.value \in Values
    /\ j.op = "remove" => j.value = None
    /\ j.todo = j.specs

\* A command that begins keeps everything, when a deployment has forgotten what the one
\* before it loaded.
LEMMA BeginKeeps ==
    ASSUME SecretInv, NEW c \in Commands, NEW j, FirstJob(j), Begin(c, j),
           IF j.op = "deploy" THEN loaded' = [loaded EXCEPT ![j.project] = None]
                              ELSE loaded' = loaded,
           UNCHANGED <<identity, store, runtime, generated, kept, raced>>
    PROVE  SecretInv'
<1> USE DEF SecretInv, Begin, FirstJob
<1>1. /\ pc[c] = "idle" /\ pc'[c] = "load" /\ job'[c] = j /\ job' \in [Commands -> Jobs]
      /\ \A d \in Commands \ {c} : pc'[d] = pc[d] /\ job'[d] = job[d]
  BY DEF JobInv, SecretTypeOK
<1>2. /\ overlap \subseteq overlap' /\ overlap' \subseteq Projects
      /\ \A d \in Commands : (pc[d] # "idle" /\ job[d].project = j.project)
                                 => j.project \in overlap'
  BY DEF SecretTypeOK
<1>3. SecretTypeOK'
  BY <1>1, <1>2 DEF SecretTypeOK
<1>4. JobInv'
  BY <1>1 DEF JobInv, Replacing
<1>5. CountInv'
  <2>1. Pending' = Pending \cup {c} /\ c \notin Pending
    BY <1>1 DEF Pending
  <2>2. IsFiniteSet(Pending') /\ Cardinality(Pending') = Cardinality(Pending) + 1
    BY <2>1, FS_AddElement DEF CountInv
  <2>3. Cardinality(Pending) \in Nat
    BY FS_CardinalityType DEF CountInv
  <2> QED
    BY <2>2, <2>3, BoundsAssumption DEF CountInv
<1>6. IdentityInv'
  BY <1>1 DEF IdentityInv, StoresReadable, Exists, Decrypts
<1>7. AloneInv'
  BY <1>1, <1>2 DEF AloneInv
<1>8. StoredInv'
  BY <1>1, <1>2 DEF StoredInv, SecretsKept, Replacing
<1>9. RuntimeInv'
  <2>1. /\ \A p \in Projects : loaded'[p] \in {None, loaded[p]}
        /\ j.op = "deploy" => loaded'[j.project] = None
    BY DEF SecretTypeOK
  <2>2. RuntimeIsOneVersion'
    BY <1>2, <2>1 DEF RuntimeInv, RuntimeIsOneVersion
  <2>3. \A d \in Commands : pc[d] # "idle" => job[d].project \in Projects
    BY DEF JobInv
  <2> QED
    BY <1>1, <1>2, <2>1, <2>2, <2>3 DEF RuntimeInv
<1> QED
  BY <1>3, <1>4, <1>5, <1>6, <1>7, <1>8, <1>9

\* The jobs of the three commands.
LEMMA FirstJobs ==
    ASSUME NEW p \in Projects, NEW j,
           \/ \E n \in Names, v \in Values :
                 j = [NoJob EXCEPT !.op = "set", !.project = p, !.name = n, !.value = v]
           \/ \E n \in Names : j = [NoJob EXCEPT !.op = "remove", !.project = p, !.name = n]
           \/ \E s \in SUBSET Names :
                 j = [NoJob EXCEPT !.op = "deploy", !.project = p, !.specs = s, !.todo = s]
    PROVE  FirstJob(j)
<1>1. ASSUME NEW n \in Names, NEW v \in Values,
             j = [NoJob EXCEPT !.op = "set", !.project = p, !.name = n, !.value = v]
      PROVE  FirstJob(j)
  <2>1. j = [op |-> "set", project |-> p, name |-> n, value |-> v, specs |-> {}, todo |-> {},
             values |-> NoSecrets, key |-> None]
    BY <1>1 DEF NoJob
  <2> QED
    BY <2>1, Nothing DEF FirstJob, Jobs
<1>2. ASSUME NEW n \in Names,
             j = [NoJob EXCEPT !.op = "remove", !.project = p, !.name = n]
      PROVE  FirstJob(j)
  <2>1. j = [op |-> "remove", project |-> p, name |-> n, value |-> None, specs |-> {},
             todo |-> {}, values |-> NoSecrets, key |-> None]
    BY <1>2 DEF NoJob
  <2> QED
    BY <2>1, Nothing DEF FirstJob, Jobs
<1>3. ASSUME NEW s \in SUBSET Names,
             j = [NoJob EXCEPT !.op = "deploy", !.project = p, !.specs = s, !.todo = s]
      PROVE  FirstJob(j)
  <2>1. j = [op |-> "deploy", project |-> p, name |-> None, value |-> None, specs |-> s,
             todo |-> s, values |-> NoSecrets, key |-> None]
    BY <1>3 DEF NoJob
  <2> QED
    BY <2>1, Nothing DEF FirstJob, Jobs
<1> QED
  BY <1>1, <1>2, <1>3

-----------------------------------------------------------------------------
(* The steps of a command that changes the store.                            *)

\* What a command is about to do with values it has read.
LEMMA ChangedValues ==
    ASSUME SecretInv, NEW c \in Commands, pc[c] = "load", NEW v \in Secrets,
           NEW j, j = job[c], AfterLoad(j, v) # "idle"
    PROVE  /\ Changed(j, v) \in Secrets
           /\ AfterLoad(j, v) \in {"unlink", "identity", "ensure", "write"}
           /\ j.op = "deploy" => /\ Changed(j, v) = v
                                 /\ AfterLoad(j, v) \in {"ensure", "write"}
           /\ j.op # "deploy" => /\ Changed(j, v) = [v EXCEPT ![j.name] = j.value]
                                 /\ AfterLoad(j, v) \in {"unlink", "identity"}
           /\ AfterLoad(j, v) = "identity" => Changed(j, v) # NoSecrets
           /\ AfterLoad(j, v) = "unlink" => Changed(j, v) = NoSecrets
<1>1. /\ j \in Jobs /\ j.op \in {"set", "remove", "deploy"}
      /\ j.op # "deploy" => j.name \in Names
      /\ j.op = "set" => j.value \in Values
      /\ j.op = "remove" => j.value = None
  BY DEF SecretInv, JobInv
<1>2. CASE j.op = "deploy"
  BY <1>2 DEF AfterLoad, Changed
<1>3. CASE j.op = "set"
  <2>1. Changed(j, v) = [v EXCEPT ![j.name] = j.value] /\ AfterLoad(j, v) = "identity"
    BY <1>3 DEF AfterLoad, Changed
  <2>2. Changed(j, v) \in Secrets /\ Changed(j, v)[j.name] \in Values
    BY <1>1, <1>3, <2>1 DEF Secrets
  <2>3. Changed(j, v) # NoSecrets
    BY <1>1, <1>3, <2>2, ValuesAssumption DEF NoSecrets
  <2> QED
    BY <1>3, <2>1, <2>2, <2>3
<1>4. CASE j.op = "remove"
  <2>1. Changed(j, v) = [v EXCEPT ![j.name] = j.value]
    BY <1>1, <1>4 DEF Changed
  <2>2. Changed(j, v) \in Secrets
    BY <1>1, <1>4, <2>1 DEF Secrets
  <2>3. AfterLoad(j, v) = IF Changed(j, v) = NoSecrets THEN "unlink" ELSE "identity"
    BY <1>4 DEF AfterLoad
  <2> QED
    BY <1>4, <2>1, <2>2, <2>3
<1> QED
  BY <1>1, <1>2, <1>3, <1>4

\* A command that has read the store of its project keeps everything.
LEMMA LoadKeeps ==
    ASSUME SecretInv, NEW c \in Commands, Load(c)
    PROVE  SecretInv'
<1> DEFINE p == job[c].project
           v == store[p].values
           next == AfterLoad(job[c], v)
<1> USE DEF SecretInv, Load, Goto
<1>1. pc[c] = "load" /\ p \in Projects /\ v \in Secrets
  BY StoreKeys DEF JobInv
<1>2. CASE Return(c)
  BY <1>2, EndKeeps DEF secretHistory, secretBounds
<1>3. CASE ~Return(c)
  <2>1. /\ next # "idle"
        /\ pc' = [pc EXCEPT ![c] = next]
        /\ job' = [job EXCEPT ![c].values = Changed(job[c], v)]
    BY <1>3 DEF Loaded
  <2>2. /\ Changed(job[c], v) \in Secrets
        /\ next \in {"unlink", "identity", "ensure", "write"}
        /\ job[c].op = "deploy" => Changed(job[c], v) = v /\ next \in {"ensure", "write"}
        /\ job[c].op # "deploy" =>
             /\ Changed(job[c], v) = [v EXCEPT ![job[c].name] = job[c].value]
             /\ next \in {"unlink", "identity"}
        /\ next = "identity" => Changed(job[c], v) # NoSecrets
        /\ next = "unlink" => Changed(job[c], v) = NoSecrets
    BY <1>1, <2>1, ChangedValues
  <2>3. /\ pc'[c] = next
        /\ \A d \in Commands \ {c} : pc'[d] = pc[d] /\ job'[d] = job[d]
    BY <2>1 DEF SecretTypeOK, JobInv
  <2>4. /\ job'[c].project = p /\ job'[c].op = job[c].op /\ job'[c].name = job[c].name
        /\ job'[c].value = job[c].value /\ job'[c].specs = job[c].specs
        /\ job'[c].todo = job[c].todo /\ job'[c].key = job[c].key
        /\ job'[c].values = Changed(job[c], v)
        /\ job' \in [Commands -> Jobs]
    BY <2>1, <2>2 DEF JobInv, Jobs
  <2>5. UNCHANGED <<identity, store, runtime, generated, kept, loaded, raced, overlap, jobs>>
    BY DEF secretHistory, secretBounds
  <2> HIDE DEF Load, v, next
  <2>6. SecretTypeOK'
    BY <2>1, <2>2, <2>5 DEF SecretTypeOK
  <2>7. JobInv'
    BY <1>1, <2>2, <2>3, <2>4 DEF JobInv, Replacing
  <2>8. CountInv'
    <3>1. Pending' \subseteq Pending
      BY <1>1, <2>3 DEF Pending
    <3> QED
      BY <3>1, <2>5, CountKeeps
  <2>9. IdentityInv'
    BY <2>2, <2>3, <2>5 DEF IdentityInv, StoresReadable, Exists, Decrypts
  <2>10. AloneInv'
    BY <1>1, <2>3, <2>4, <2>5 DEF AloneInv
  <2>11. StoredInv'
    <3>1. p \notin overlap => v = kept[p]
      BY <1>1 DEF StoredInv, SecretsKept, v, p
    <3> QED
      BY <1>1, <2>2, <2>3, <2>4, <2>5, <3>1 DEF StoredInv, SecretsKept, Replacing
  <2>12. RuntimeInv'
    BY <1>1, <2>2, <2>3, <2>4, <2>5 DEF RuntimeInv, RuntimeIsOneVersion, JobInv
  <2> QED
    BY <2>6, <2>7, <2>8, <2>9, <2>10, <2>11, <2>12
<1> QED
  BY <1>2, <1>3

\* A command that generates an identity keeps everything.
LEMMA GenerateKeeps ==
    ASSUME SecretInv, NEW c \in Commands, EnsureIdentity(c), identity = None
    PROVE  SecretInv'
<1> USE DEF SecretInv, EnsureIdentity, Generate, Goto, secretBounds
<1>1. pc[c] = "identity" /\ c \in Pending
  BY DEF Pending
<1>2. /\ pc'[c] = "new-identity"
      /\ \A d \in Commands \ {c} : pc'[d] = pc[d] /\ job'[d] = job[d]
  BY DEF SecretTypeOK, JobInv
<1>3. CountInv' /\ generated' \in Keys
  <2>1. Pending' = Pending \ {c}
    BY <1>1, <1>2 DEF Pending
  <2>2. IsFiniteSet(Pending') /\ Cardinality(Pending') = Cardinality(Pending) - 1
    BY <1>1, <2>1, FS_RemoveElement DEF CountInv
  <2>3. Cardinality(Pending) \in Nat /\ Cardinality(Pending') \in Nat
    BY <2>2, FS_CardinalityType DEF CountInv
  <2> QED
    BY <2>2, <2>3, BoundsAssumption DEF CountInv, Keys
<1>4. /\ job'[c].project = job[c].project /\ job'[c].op = job[c].op /\ job'[c].name = job[c].name
      /\ job'[c].value = job[c].value /\ job'[c].specs = job[c].specs
      /\ job'[c].todo = job[c].todo /\ job'[c].values = job[c].values
      /\ job'[c].key = generated' /\ job' \in [Commands -> Jobs]
  BY <1>3 DEF JobInv, Jobs
<1>5. /\ raced' = (raced \/ \E d \in Commands : pc[d] = "new-identity")
      /\ UNCHANGED <<identity, store, runtime, kept, loaded, overlap, jobs>>
  OBVIOUS
<1> HIDE DEF EnsureIdentity, Generate
<1>6. SecretTypeOK'
  <2>1. pc' = [pc EXCEPT ![c] = "new-identity"]
    BY DEF EnsureIdentity, Generate
  <2> QED
    BY <1>3, <1>5, <2>1, BoundsAssumption DEF SecretTypeOK, Keys
<1>7. JobInv'
  BY <1>1, <1>2, <1>3, <1>4 DEF JobInv, Replacing
<1>8. IdentityInv'
  BY <1>2, <1>5 DEF IdentityInv, StoresReadable, Exists, Decrypts
<1>9. AloneInv'
  BY <1>1, <1>2, <1>4, <1>5 DEF AloneInv
<1>10. StoredInv'
  BY <1>1, <1>2, <1>4, <1>5 DEF StoredInv, SecretsKept, Replacing
<1>11. RuntimeInv'
  BY <1>1, <1>2, <1>5 DEF RuntimeInv, RuntimeIsOneVersion
<1> QED
  BY <1>3, <1>6, <1>7, <1>8, <1>9, <1>10, <1>11

\* A command that finds the identity keeps everything.
LEMMA IdentityKeeps ==
    ASSUME SecretInv, NEW c \in Commands, EnsureIdentity(c), identity # None
    PROVE  SecretInv'
<1> USE DEF SecretInv, EnsureIdentity, Goto, secretBounds
<1>1. pc[c] = "identity" /\ identity \in Keys
  BY DEF SecretTypeOK
<1>2. /\ pc'[c] = "save"
      /\ \A d \in Commands \ {c} : pc'[d] = pc[d] /\ job'[d] = job[d]
  BY DEF SecretTypeOK, JobInv
<1>3. /\ job'[c].project = job[c].project /\ job'[c].op = job[c].op /\ job'[c].name = job[c].name
      /\ job'[c].value = job[c].value /\ job'[c].specs = job[c].specs
      /\ job'[c].todo = job[c].todo /\ job'[c].values = job[c].values
      /\ job'[c].key = identity /\ job' \in [Commands -> Jobs]
  BY <1>1 DEF JobInv, Jobs
<1>4. UNCHANGED <<identity, store, runtime, generated, kept, loaded, raced, overlap, jobs>>
  OBVIOUS
<1>5. SecretTypeOK'
  BY DEF SecretTypeOK
<1> HIDE DEF EnsureIdentity
<1>6. JobInv'
  BY <1>1, <1>2, <1>3 DEF JobInv, Replacing
<1>7. CountInv'
  <2>1. Pending' \subseteq Pending
    BY <1>2 DEF Pending
  <2> QED
    BY <1>4, <2>1, CountKeeps
<1>8. IdentityInv'
  BY <1>2, <1>3, <1>4 DEF IdentityInv, StoresReadable, Exists, Decrypts
<1>9. AloneInv'
  BY <1>1, <1>2, <1>3, <1>4 DEF AloneInv
<1>10. StoredInv'
  BY <1>1, <1>2, <1>3, <1>4 DEF StoredInv, SecretsKept, Replacing
<1>11. RuntimeInv'
  BY <1>1, <1>2, <1>4 DEF RuntimeInv, RuntimeIsOneVersion
<1> QED
  BY <1>5, <1>6, <1>7, <1>8, <1>9, <1>10, <1>11

\* A command that writes the identity keeps everything.
LEMMA WriteIdentityKeeps ==
    ASSUME SecretInv, NEW c \in Commands, WriteIdentity(c)
    PROVE  SecretInv'
<1> USE DEF SecretInv, WriteIdentity, Goto, secretBounds, secretHistory
<1>1. pc[c] = "new-identity" /\ identity' = job[c].key /\ job[c].key \in Keys
  BY DEF JobInv
<1>2. pc'[c] = "save" /\ \A d \in Commands \ {c} : pc'[d] = pc[d]
  BY DEF SecretTypeOK
<1>3. UNCHANGED <<job, store, runtime, generated, kept, loaded, raced, overlap, jobs>>
  OBVIOUS
<1>4. SecretTypeOK'
  BY <1>1 DEF SecretTypeOK
<1> HIDE DEF WriteIdentity
<1>5. JobInv'
  BY <1>1, <1>2, <1>3 DEF JobInv, Replacing
<1>6. CountInv'
  <2>1. Pending' \subseteq Pending
    BY <1>2 DEF Pending
  <2> QED
    BY <1>3, <2>1, CountKeeps
<1>7. IdentityInv'
  <2> SUFFICES ASSUME ~raced
               PROVE  IdentityInv'
    BY <1>3 DEF IdentityInv
  <2>1. identity = None
    BY <1>1 DEF IdentityInv
  <2>2. \A p \in Projects : store[p] = NoStore
    BY <2>1, StoreKeys DEF IdentityInv, StoresReadable, Exists, Decrypts
  <2>3. \A d \in Commands : pc[d] # "save"
    BY <2>1, Nothing DEF IdentityInv, JobInv
  <2> QED
    BY <1>1, <1>2, <1>3, <2>2, <2>3 DEF IdentityInv, StoresReadable, Exists
<1>8. AloneInv'
  BY <1>1, <1>2, <1>3 DEF AloneInv
<1>9. StoredInv'
  BY <1>1, <1>2, <1>3 DEF StoredInv, SecretsKept, Replacing
<1>10. RuntimeInv'
  BY <1>1, <1>2, <1>3 DEF RuntimeInv, RuntimeIsOneVersion
<1> QED
  BY <1>4, <1>5, <1>6, <1>7, <1>8, <1>9, <1>10

\* A command that replaces or removes the file of its project keeps everything.
LEMMA DoneKeeps ==
    ASSUME SecretInv, NEW c \in Commands, Save(c) \/ Unlink(c)
    PROVE  SecretInv'
<1> DEFINE p == job[c].project
           new == store'[p]
<1> USE DEF SecretInv, Return, secretBounds
<1>1. /\ pc[c] \in {"save", "unlink"} /\ p \in Projects /\ job[c].name \in Names
      /\ job[c].value \in Values \cup {None} /\ job[c].values \in Secrets
  BY DEF Save, Unlink, JobInv, Jobs, Replacing
<1>2. /\ pc'[c] = "idle" /\ pc' = [pc EXCEPT ![c] = "idle"]
      /\ job' \in [Commands -> Jobs]
      /\ \A d \in Commands \ {c} : pc'[d] = pc[d] /\ job'[d] = job[d]
  BY Nothing DEF Save, Unlink, Done, JobInv, SecretTypeOK
<1>3. UNCHANGED <<identity, runtime, generated, loaded, raced, overlap, jobs>>
  BY DEF Save, Unlink
<1>4. /\ new = IF pc[c] = "save" THEN [key |-> job[c].key, values |-> job[c].values] ELSE NoStore
      /\ store' = [store EXCEPT ![p] = new]
      /\ kept' = [kept EXCEPT ![p][job[c].name] = job[c].value]
  BY <1>1 DEF Save, Unlink, Done, Saved, SecretTypeOK
<1>5. /\ new \in [key : Keys \cup {None}, values : Secrets]
      /\ new.key = None <=> new.values = NoSecrets
      /\ new.values = job[c].values
      /\ new # NoStore => pc[c] = "save" /\ new.key = job[c].key
  <2>1. CASE pc[c] = "save"
    <3>1. job[c].key \in Keys /\ job[c].values # NoSecrets
      BY <2>1 DEF JobInv, Replacing
    <3> QED
      BY <1>1, <1>4, <2>1, <3>1, Nothing
  <2>2. CASE pc[c] = "unlink"
    BY <1>4, <2>2, Nothing DEF JobInv
  <2> QED
    BY <1>1, <2>1, <2>2
<1> HIDE DEF new
<1>6. /\ \A q \in Projects : store'[q] = IF q = p THEN new ELSE store[q]
      /\ \A q \in Projects : kept'[q] =
            IF q = p THEN [kept[p] EXCEPT ![job[c].name] = job[c].value] ELSE kept[q]
      /\ store' \in [Projects -> [key : Keys \cup {None}, values : Secrets]]
      /\ kept' \in [Projects -> Secrets]
  BY <1>1, <1>4, <1>5 DEF SecretTypeOK, Secrets
<1>7. SecretTypeOK'
  BY <1>2, <1>3, <1>5, <1>6 DEF SecretTypeOK
<1>8. JobInv'
  BY <1>2 DEF JobInv, Replacing
<1>9. CountInv'
  <2>1. Pending' \subseteq Pending
    BY <1>2 DEF Pending
  <2> QED
    BY <1>3, <2>1, CountKeeps
<1>10. IdentityInv'
  BY <1>2, <1>3, <1>5, <1>6 DEF IdentityInv, StoresReadable, Exists, Decrypts
<1>11. AloneInv'
  BY <1>2, <1>3 DEF AloneInv
<1>12. StoredInv'
  <2>1. \A d \in Commands \ {c} :
           (pc[d] # "idle" /\ job[d].project \notin overlap) => job[d].project # p
    BY <1>1 DEF AloneInv
  <2>2. \A d \in Commands : pc[d] # "idle" => job[d].project \in Projects
    BY DEF JobInv
  <2>3. p \notin overlap => new.values = [kept[p] EXCEPT ![job[c].name] = job[c].value]
    BY <1>1, <1>5 DEF StoredInv, Replacing
  <2>4. SecretsKept'
    BY <1>3, <1>6, <2>3 DEF StoredInv, SecretsKept
  <2>5. ASSUME NEW d \in Commands, pc'[d] \in Replacing \cup {"unlink"},
               job'[d].project \notin overlap'
        PROVE  job'[d].values = [kept'[job'[d].project] EXCEPT ![job'[d].name] = job'[d].value]
    <3>1. d # c /\ pc'[d] = pc[d] /\ job'[d] = job[d]
      BY <1>2, <2>5 DEF Replacing
    <3>2. kept'[job[d].project] = kept[job[d].project]
      BY <1>3, <1>6, <2>1, <2>2, <2>5, <3>1 DEF Replacing
    <3> QED
      BY <1>3, <2>5, <3>1, <3>2 DEF StoredInv
  <2> QED
    BY <2>4, <2>5 DEF StoredInv
<1>13. RuntimeInv'
  BY <1>2, <1>3 DEF RuntimeInv, RuntimeIsOneVersion
<1> QED
  BY <1>7, <1>8, <1>9, <1>10, <1>11, <1>12, <1>13

-----------------------------------------------------------------------------
(* The steps of a deployment, and the reboot.                                *)

\* A deployment that writes one secret, or ends because it is missing, keeps everything.
LEMMA WriteRuntimeKeeps ==
    ASSUME SecretInv, NEW c \in Commands, WriteRuntime(c)
    PROVE  SecretInv'
<1> USE DEF SecretInv, WriteRuntime, secretBounds
<1>1. CASE Return(c) /\ UNCHANGED runtime
  BY <1>1, EndKeeps
<1>2. CASE ~(Return(c) /\ UNCHANGED runtime)
  <2> DEFINE p == job[c].project
  <2>1. PICK n \in job[c].todo :
           /\ job[c].values[n] # None
           /\ runtime' = [runtime EXCEPT ![p][n] = job[c].values[n]]
           /\ job' = [job EXCEPT ![c].todo = @ \ {n}]
           /\ UNCHANGED pc
    BY <1>2
  <2>2. /\ pc[c] = "write" /\ p \in Projects /\ n \in Names
        /\ job[c].values \in Secrets /\ job[c].todo \subseteq Names
    BY <2>1 DEF JobInv, Jobs
  <2>3. \A d \in Commands \ {c} : job'[d] = job[d]
    BY <2>1 DEF JobInv
  <2>4. /\ job'[c].project = p /\ job'[c].op = job[c].op /\ job'[c].name = job[c].name
        /\ job'[c].value = job[c].value /\ job'[c].specs = job[c].specs
        /\ job'[c].todo = job[c].todo \ {n} /\ job'[c].key = job[c].key
        /\ job'[c].values = job[c].values
        /\ job' \in [Commands -> Jobs]
    BY <2>1, <2>2 DEF JobInv, Jobs
  <2>5. UNCHANGED <<pc, identity, store, generated, kept, loaded, raced, overlap, jobs>>
    BY <2>1 DEF secretHistory
  <2>6. /\ \A q \in Projects \ {p} : runtime'[q] = runtime[q]
        /\ runtime'[p][n] = job[c].values[n]
        /\ \A m \in Names \ {n} : runtime'[p][m] = runtime[p][m]
        /\ runtime' \in [Projects -> Secrets]
    BY <2>1, <2>2 DEF SecretTypeOK, Secrets
  <2> HIDE DEF WriteRuntime
  <2>7. SecretTypeOK'
    BY <2>5, <2>6 DEF SecretTypeOK
  <2>8. JobInv'
    BY <2>2, <2>3, <2>4, <2>5 DEF JobInv, Replacing
  <2>9. CountInv'
    <3>1. Pending' \subseteq Pending
      BY <2>5 DEF Pending
    <3> QED
      BY <2>5, <3>1, CountKeeps
  <2>10. IdentityInv'
    BY <2>2, <2>3, <2>5 DEF IdentityInv, StoresReadable, Exists, Decrypts
  <2>11. AloneInv'
    BY <2>3, <2>4, <2>5 DEF AloneInv
  <2>12. StoredInv'
    BY <2>2, <2>3, <2>5 DEF StoredInv, SecretsKept, Replacing
  <2>13. RuntimeInv'
    <3>1. \A d \in Commands \ {c} :
             (pc[d] # "idle" /\ job[d].project \notin overlap) => job[d].project # p
      BY <2>2 DEF AloneInv
    <3>2. \A d \in Commands : pc[d] # "idle" => job[d].project \in Projects
      BY DEF JobInv
    <3>3. p \notin overlap =>
             /\ loaded[p] = None
             /\ \A m \in job[c].specs \ job[c].todo : runtime[p][m] = job[c].values[m]
      BY <2>2 DEF RuntimeInv
    <3>4. RuntimeIsOneVersion'
      BY <2>5, <2>6, <3>3 DEF RuntimeInv, RuntimeIsOneVersion
    <3>5. ASSUME NEW d \in Commands \ {c}, pc'[d] \in {"load", "write"},
                 job'[d].project \notin overlap'
          PROVE  runtime'[job'[d].project] = runtime[job[d].project]
      BY <2>3, <2>5, <2>6, <3>1, <3>2, <3>5
    <3>6. ASSUME NEW m \in job'[c].specs \ job'[c].todo, p \notin overlap
          PROVE  runtime'[p][m] = job'[c].values[m]
      <4>1. m = n \/ (m \in job[c].specs \ job[c].todo /\ m \in Names)
        BY <2>4, <3>6 DEF JobInv, Jobs
      <4> QED
        BY <2>4, <2>6, <3>3, <3>6, <4>1
    <3> QED
      BY <2>3, <2>4, <2>5, <3>3, <3>4, <3>5, <3>6 DEF RuntimeInv
  <2> QED
    BY <2>7, <2>8, <2>9, <2>10, <2>11, <2>12, <2>13
<1> QED
  BY <1>1, <1>2

\* A deployment that removes the stale files, all or some of them, keeps everything.
LEMMA CleanKeeps ==
    ASSUME SecretInv, NEW c \in Commands, CleanRuntime(c) \/ CleanFails(c)
    PROVE  SecretInv'
<1> DEFINE p == job[c].project
<1> USE DEF SecretInv, Return, Goto, secretBounds
<1>1. /\ pc[c] = "write" /\ job[c].todo = {} /\ p \in Projects
      /\ job[c].values \in Secrets /\ job[c].specs \subseteq Names
  BY DEF CleanRuntime, CleanFails, JobInv, Jobs
<1>2. /\ pc'[c] \in {"idle", "ensure"} /\ pc' = [pc EXCEPT ![c] = pc'[c]]
      /\ job' \in [Commands -> Jobs]
      /\ pc'[c] = "ensure" => job'[c] = job[c]
      /\ \A d \in Commands \ {c} : pc'[d] = pc[d] /\ job'[d] = job[d]
  BY Nothing DEF CleanRuntime, CleanFails, JobInv, SecretTypeOK
<1>3. UNCHANGED <<identity, store, generated, kept, raced, overlap, jobs>>
  BY DEF CleanRuntime, CleanFails, secretHistory
<1>4. PICK some \in SUBSET Names :
         runtime' = [runtime EXCEPT ![p] = [n \in Names |-> IF n \in some THEN None ELSE @[n]]]
  BY DEF CleanRuntime, CleanFails, Stale
<1>5. /\ \A q \in Projects \ {p} : runtime'[q] = runtime[q]
      /\ runtime' \in [Projects -> Secrets]
  BY <1>1, <1>4 DEF SecretTypeOK, Secrets
<1>6. /\ \A q \in Projects \ {p} : loaded'[q] = loaded[q]
      /\ loaded' \in [Projects -> Secrets \cup {None}]
      /\ p \notin overlap => loaded'[p] \in {None, runtime'[p]}
  <2>1. CASE CleanFails(c)
    BY <1>1, <2>1 DEF CleanFails, secretHistory, SecretTypeOK, RuntimeInv
  <2>2. CASE CleanRuntime(c)
    <3> DEFINE new == [n \in Names |-> IF n \in job[c].specs THEN job[c].values[n] ELSE None]
    <3>1. new \in Secrets /\ loaded' = [loaded EXCEPT ![p] = new]
      BY <1>1, <2>2 DEF CleanRuntime, Secrets
    <3>2. runtime'[p] = [n \in Names |-> IF n \in job[c].specs THEN runtime[p][n] ELSE None]
      BY <1>1, <2>2 DEF CleanRuntime, Stale, SecretTypeOK
    <3>3. p \notin overlap => \A n \in job[c].specs : runtime[p][n] = job[c].values[n]
      BY <1>1 DEF RuntimeInv
    <3>4. p \notin overlap => new = runtime'[p]
      BY <3>2, <3>3
    <3> HIDE DEF new
    <3> QED
      BY <1>1, <3>1, <3>4 DEF SecretTypeOK
  <2> QED
    BY <2>1, <2>2
<1>7. SecretTypeOK'
  BY <1>2, <1>3, <1>5, <1>6 DEF SecretTypeOK
<1>8. JobInv'
  BY <1>1, <1>2 DEF JobInv, Replacing
<1>9. CountInv'
  <2>1. Pending' \subseteq Pending
    BY <1>2 DEF Pending
  <2> QED
    BY <1>3, <2>1, CountKeeps
<1>10. IdentityInv'
  BY <1>2, <1>3 DEF IdentityInv, StoresReadable, Exists, Decrypts
<1>11. AloneInv'
  BY <1>1, <1>2, <1>3 DEF AloneInv
<1>12. StoredInv'
  BY <1>2, <1>3 DEF StoredInv, SecretsKept, Replacing
<1>13. RuntimeInv'
  <2>1. \A d \in Commands \ {c} :
           (pc[d] # "idle" /\ job[d].project \notin overlap) => job[d].project # p
    BY <1>1 DEF AloneInv
  <2>2. \A d \in Commands : pc[d] # "idle" => job[d].project \in Projects
    BY DEF JobInv
  <2>3. RuntimeIsOneVersion'
    BY <1>3, <1>5, <1>6 DEF RuntimeInv, RuntimeIsOneVersion
  <2> QED
    BY <1>2, <1>3, <1>5, <1>6, <2>1, <2>2, <2>3 DEF RuntimeInv
<1> QED
  BY <1>7, <1>8, <1>9, <1>10, <1>11, <1>12, <1>13

\* A deployment that goes on with the files there are keeps everything.
LEMMA EnsureKeeps ==
    ASSUME SecretInv, NEW c \in Commands, EnsureRuntime(c)
    PROVE  SecretInv'
<1> USE DEF SecretInv, EnsureRuntime, Goto, secretBounds, secretHistory
<1>1. CASE Return(c)
  BY <1>1, EndKeeps
<1>2. CASE ~Return(c)
  <2>1. pc' = [pc EXCEPT ![c] = "up"] /\ pc[c] = "ensure"
    BY <1>2
  <2>2. pc'[c] = "up" /\ \A d \in Commands \ {c} : pc'[d] = pc[d]
    BY <2>1 DEF SecretTypeOK
  <2>3. UNCHANGED <<job, identity, store, runtime, generated, kept, loaded, raced, overlap, jobs>>
    BY <1>2
  <2> HIDE DEF EnsureRuntime
  <2>4. SecretTypeOK'
    BY <2>1, <2>3 DEF SecretTypeOK
  <2>5. JobInv'
    BY <2>1, <2>2, <2>3 DEF JobInv, Replacing
  <2>6. CountInv'
    <3>1. Pending' \subseteq Pending
      BY <2>2 DEF Pending
    <3> QED
      BY <2>3, <3>1, CountKeeps
  <2>7. IdentityInv'
    BY <2>2, <2>3 DEF IdentityInv, StoresReadable, Exists, Decrypts
  <2>8. AloneInv'
    BY <2>1, <2>2, <2>3 DEF AloneInv
  <2>9. StoredInv'
    BY <2>2, <2>3 DEF StoredInv, SecretsKept, Replacing
  <2>10. RuntimeInv'
    BY <2>2, <2>3 DEF RuntimeInv, RuntimeIsOneVersion
  <2> QED
    BY <2>4, <2>5, <2>6, <2>7, <2>8, <2>9, <2>10
<1> QED
  BY <1>1, <1>2

\* A reboot keeps everything.
LEMMA RebootKeeps ==
    ASSUME SecretInv, Reboot
    PROVE  SecretInv'
<1> USE DEF SecretInv, Reboot
<1>1. /\ \A c \in Commands : pc'[c] = "idle"
      /\ job' \in [Commands -> Jobs]
      /\ \A p \in Projects : loaded'[p] = None
  BY Nothing
<1>2. SecretTypeOK'
  BY Nothing DEF SecretTypeOK
<1>3. JobInv'
  BY <1>1 DEF JobInv, Replacing
<1>4. CountInv'
  <2>1. Pending' \subseteq Pending
    BY <1>1 DEF Pending
  <2> QED
    BY <2>1, CountKeeps
<1>5. IdentityInv' /\ AloneInv'
  BY <1>1 DEF IdentityInv, AloneInv, StoresReadable, Exists, Decrypts
<1>6. StoredInv' /\ RuntimeInv'
  BY <1>1 DEF StoredInv, RuntimeInv, SecretsKept, RuntimeIsOneVersion, Replacing
<1> QED
  BY <1>2, <1>3, <1>4, <1>5, <1>6

-----------------------------------------------------------------------------
(* The invariant.                                                            *)

\* The host starts without an identity, a store or a command.
LEMMA InitInv == SecretInit => SecretInv
<1> SUFFICES ASSUME SecretInit PROVE SecretInv
  OBVIOUS
<1> USE DEF SecretInit
<1>1. SecretTypeOK
  <2>1. /\ store \in [Projects -> [key : Keys \cup {None}, values : Secrets]]
        /\ \A p \in Projects : store[p].key = None <=> store[p].values = NoSecrets
    BY Nothing
  <2>2. /\ runtime \in [Projects -> Secrets] /\ kept \in [Projects -> Secrets]
        /\ loaded \in [Projects -> Secrets \cup {None}]
        /\ generated \in 0..MaxJobs
    BY Nothing, BoundsAssumption
  <2> QED
    BY <2>1, <2>2 DEF SecretTypeOK
<1>2. JobInv /\ \A c \in Commands : pc[c] = "idle"
  BY Nothing DEF JobInv, Replacing
<1>3. CountInv
  <2>1. Pending = {}
    BY <1>2 DEF Pending
  <2> QED
    BY <2>1, FS_EmptySet, BoundsAssumption DEF CountInv
<1>4. IdentityInv /\ AloneInv
  BY <1>2, Nothing DEF IdentityInv, AloneInv, StoresReadable, Exists, Decrypts
<1>5. StoredInv /\ RuntimeInv
  BY <1>2, Nothing DEF StoredInv, RuntimeInv, SecretsKept, RuntimeIsOneVersion, Replacing
<1> QED
  BY <1>1, <1>2, <1>3, <1>4, <1>5 DEF SecretInv

\* A step of a command keeps the invariant.
LEMMA CommandKeeps ==
    ASSUME SecretInv, NEW c \in Commands, SecretNext,
           \/ Set(c) \/ RemoveSecret(c) \/ Materialize(c)
           \/ Load(c) \/ LoadFails(c) \/ EnsureIdentity(c) \/ IdentityFails(c) \/ WriteIdentity(c)
           \/ Save(c) \/ Unlink(c) \/ FileFails(c)
           \/ WriteRuntime(c) \/ CleanRuntime(c) \/ CleanFails(c) \/ EnsureRuntime(c) \/ Up(c)
           \/ SecretDie(c)
    PROVE  SecretInv'
<1>1. CASE Set(c) \/ RemoveSecret(c)
  <2>1. PICK p, j :
           /\ p \in Projects
           /\ \/ \E n \in Names, v \in Values :
                    j = [NoJob EXCEPT !.op = "set", !.project = p, !.name = n, !.value = v]
              \/ \E n \in Names : j = [NoJob EXCEPT !.op = "remove", !.project = p, !.name = n]
           /\ Begin(c, j)
    BY <1>1 DEF Set, RemoveSecret
  <2>2. FirstJob(j) /\ j.op # "deploy"
    BY <2>1, FirstJobs DEF NoJob
  <2> QED
    BY <1>1, <2>1, <2>2, BeginKeeps DEF Set, RemoveSecret
<1>2. CASE Materialize(c)
  <2>1. PICK p, specs, j :
           /\ p \in Projects /\ specs \in SUBSET Names \ {{}}
           /\ j = [NoJob EXCEPT !.op = "deploy", !.project = p, !.specs = specs, !.todo = specs]
           /\ Begin(c, j)
           /\ loaded' = [loaded EXCEPT ![p] = None]
    BY <1>2 DEF Materialize
  <2>2. FirstJob(j) /\ j.op = "deploy" /\ j.project = p
    BY <2>1, FirstJobs DEF NoJob
  <2> QED
    BY <1>2, <2>1, <2>2, BeginKeeps DEF Materialize
<1>3. CASE LoadFails(c) \/ IdentityFails(c) \/ FileFails(c) \/ Up(c) \/ SecretDie(c)
  <2>1. /\ Return(c)
        /\ UNCHANGED <<identity, store, runtime, generated, secretHistory, jobs>>
    BY <1>3 DEF LoadFails, IdentityFails, FileFails, Up, SecretDie, AfterFailedLoad,
                AfterUnreadIdentity, secretHistory, secretBounds
  <2> QED
    BY <2>1, EndKeeps
<1> QED
  BY <1>1, <1>2, <1>3, LoadKeeps, GenerateKeeps, IdentityKeeps, WriteIdentityKeeps, DoneKeeps,
     WriteRuntimeKeeps, CleanKeeps, EnsureKeeps

\* Every step keeps the invariant.
LEMMA NextInv == SecretInv /\ [SecretNext]_secretVars => SecretInv'
<1> SUFFICES ASSUME SecretInv, [SecretNext]_secretVars PROVE SecretInv'
  OBVIOUS
<1>1. CASE UNCHANGED secretVars
  <2>1. UNCHANGED <<identity, store, runtime, pc, job, generated, kept, loaded, raced, overlap,
                    jobs>>
    BY <1>1 DEF secretVars, secretHistory, secretBounds
  <2>2. SecretTypeOK' /\ JobInv' /\ AloneInv'
    BY <2>1 DEF SecretInv, SecretTypeOK, JobInv, AloneInv
  <2>3. Pending' = Pending
    BY <2>1 DEF Pending
  <2>4. CountInv' /\ IdentityInv'
    BY <2>1, <2>3
    DEF SecretInv, CountInv, IdentityInv, StoresReadable, Exists, Decrypts
  <2>5. StoredInv' /\ RuntimeInv'
    BY <2>1 DEF SecretInv, StoredInv, RuntimeInv, SecretsKept, RuntimeIsOneVersion
  <2> QED
    BY <2>2, <2>4, <2>5 DEF SecretInv
<1>2. CASE SecretNext
  BY <1>2, CommandKeeps, RebootKeeps DEF SecretNext
<1> QED
  BY <1>1, <1>2

\* The invariant holds throughout.
THEOREM SecretInvariance == SecretSpec => []SecretInv
  BY InitInv, NextInv, PTL DEF SecretSpec

-----------------------------------------------------------------------------
(* What follows.                                                             *)

\* What the invariant says of the properties.
LEMMA Consequences ==
    SecretInv => SecretTypeOK /\ StoresReadable /\ SecretsKept /\ RuntimeIsOneVersion
  BY DEF SecretInv, IdentityInv, StoredInv, RuntimeInv, StoresReadable

\* Every variable has a value of its type; no more identities are generated than
\* commands were begun.
THEOREM SecretTypesCorrect == SecretSpec => []SecretTypeOK
  BY SecretInvariance, Consequences, PTL

\* Whatever fails and wherever a process dies, every store can be decrypted with the
\* host's identity, unless two commands generated it at once (store.go, ensureIdentity).
THEOREM StoresStayReadable == SecretSpec => []StoresReadable
  BY SecretInvariance, Consequences, PTL

\* A project's store holds exactly what the commands that succeeded have put into it,
\* unless two commands of the project overlapped (store.go, Set and Remove).
THEOREM SecretsAreKept == SecretSpec => []SecretsKept
  BY SecretInvariance, Consequences, PTL

\* From the moment a deployment has been handed its secrets until the next deployment of
\* the project begins or the host restarts, the runtime directory holds the required
\* secrets of one version of the store and no stale file, whatever else fails or dies
\* meanwhile, unless two commands of the project overlapped (store.go, Materialize).
THEOREM RuntimeVersion == SecretSpec => []RuntimeIsOneVersion
  BY SecretInvariance, Consequences, PTL
=============================================================================
