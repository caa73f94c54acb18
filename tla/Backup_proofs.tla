----------------------------- MODULE Backup_proofs -----------------------------
(***************************************************************************)
(* Proofs about Backup, for any projects, instances, commands, retention   *)
(* and bounds: types, complete snapshots, safety dumps, what is left       *)
(* behind, and the newest snapshot of a project.                           *)
(*                                                                         *)
(* The contents that a command could have dumped (seen) grow with every    *)
(* write, while its own steps copy contents out of them.  So a step of     *)
(* another command or of an application never hurts what is known of a     *)
(* command (Bystander), and each action only has to keep what is known of  *)
(* the command that takes it.                                              *)
(***************************************************************************)
EXTENDS Backup, FiniteSetTheorems, SequenceTheorems, TLAPS

-----------------------------------------------------------------------------
(* The inductive invariant.                                                  *)

Jobs == [project : Projects \cup {None}, todo : Seq(Instances),
         target : Instances \cup {None}, safe : BOOLEAN, refused : SUBSET Instances]

TypesInv ==
    /\ data \in [Instances -> Contents] /\ rdb \in [Redis -> Contents]
    /\ initialized \in BOOLEAN /\ taken \in Nat
    /\ dumps \subseteq Instances \X Contents
    /\ pc \in [Commands -> Steps] /\ job \in [Commands -> Jobs]
    /\ dir \in [Commands -> Dirs \cup {None}]
    /\ seen \in [Commands -> [Instances -> SUBSET Contents]]
    /\ writes \in 0..MaxWrites /\ jobs \in 0..MaxJobs /\ faults \in 0..MaxFaults

\* A command that dumps the instances of a project, one that dumps a single instance.
DumpsProject(c) == job[c].project \in Projects /\ job[c].todo # <<>> /\ dir[c] \in Dirs
DumpsInstance(c) == /\ job[c].project = None /\ job[c].todo = <<>>
                    /\ job[c].target \in Instances /\ dir[c] = None

\* What a command works on at each of its steps.
WorkInv(c) ==
    /\ pc[c] = "idle" => job[c] = NoJob /\ dir[c] = None
    /\ pc[c] = "prepare" => /\ job[c].project \in Projects /\ dir[c] = None
                            /\ job[c].todo = Included(job[c].project)
    /\ pc[c] \in {"dump", "copy"} =>
          DumpsProject(c) \/ (DumpsInstance(c) /\ job[c].target \in Redis)
    /\ pc[c] = "restic" => job[c].project \in Projects /\ job[c].todo = <<>>
    /\ pc[c] = "forget" => /\ job[c].project \in Projects /\ job[c].todo = <<>>
                           /\ dir[c] = None
    /\ pc[c] \in {"dump-to-file", "safety", "apply"} => DumpsInstance(c)

\* Each instance of the project is still to be dumped, once, or has been dumped with a
\* content it had since the command began, or with what was there when its SAVE was refused.
Dumped(c, i, content) == content # None /\ (content \in seen[c][i] \/ i \in job[c].refused)
Pending(c, i) == \E n \in 1..Len(job[c].todo) : job[c].todo[n] = i
StagedInv(c) ==
    /\ \A n \in 1..Len(job[c].todo) : Owner[job[c].todo[n]] = job[c].project
    /\ \A m, n \in 1..Len(job[c].todo) : job[c].todo[m] = job[c].todo[n] => m = n
    /\ pc[c] \in {"dump", "copy", "restic"} => \A i \in Instances :
          Owner[i] = job[c].project =>
              /\ dir[c] \in Dirs
              /\ IF Pending(c, i) THEN dir[c][i] = None ELSE Dumped(c, i, dir[c][i])

\* What a command reads it has seen: the contents, a dump.rdb that was just saved, and
\* the dump that comes before a restore.
SeenInv(c) ==
    /\ pc[c] # "idle" => \A i \in Instances : data[i] \in seen[c][i]
    /\ pc[c] = "copy" => /\ Current(c) \in Redis
                         /\ Dumped(c, Current(c), rdb[Current(c)])
    /\ pc[c] = "apply" /\ job[c].safe =>
          \E d \in dumps : d[1] = job[c].target /\ d[2] \in seen[c][job[c].target]

CommandInv(c) == WorkInv(c) /\ StagedInv(c) /\ SeenInv(c)

RepositoryInv == \A s \in snapshots :
    s.project \in Projects /\ s.content \in Dirs \cup {None} /\ s.at \in 1..taken
LeftInv == left \subseteq Projects \X Dirs /\ NoCompleteStagingLeft

BackupInv ==
    /\ TypesInv /\ (\A c \in Commands : CommandInv(c))
    /\ RepositoryInv /\ SnapshotIsComplete
    /\ LeftInv /\ SafetyDumpExists

-----------------------------------------------------------------------------
(* Facts about the model's operators.                                        *)

\* None is not a value of anything else.
LEMMA NothingElse ==
    /\ None \notin Projects /\ None \notin Instances /\ None \notin Dirs /\ None \notin Contents
    /\ Empty \in Contents /\ Torn \in Contents
    /\ NoJob \in Jobs /\ NothingDumped \in Dirs
    /\ NotBegun \in [Instances -> SUBSET Contents]
<1>1. NoJob \in Jobs
  <2>1. <<>> \in Seq(Instances)
    OBVIOUS
  <2> QED
    BY <2>1 DEF NoJob, Jobs
<1> QED
  BY <1>1, NoneAssumption, BoundsAssumption DEF Contents, Empty, Dirs, NothingDumped, NotBegun

\* SetToSeq lists a finite set, each element once.
LEMMA SetToSeqLists ==
    ASSUME NEW S, IsFiniteSet(S)
    PROVE  /\ SetToSeq(S) \in Seq(S)
           /\ \A m, n \in 1..Len(SetToSeq(S)) : SetToSeq(S)[m] = SetToSeq(S)[n] => m = n
           /\ \A x \in S : \E n \in 1..Len(SetToSeq(S)) : SetToSeq(S)[n] = x
<1> DEFINE q == SetToSeq(S)
           k == Cardinality(S)
<1>1. k \in Nat /\ ExistsBijection(1..k, S)
  BY FS_CardinalityType
<1>2. PICK f \in Bijection(1..k, S) : TRUE
  BY <1>1 DEF ExistsBijection
<1>3. f \in [1..k -> S] /\ IsInjective(f)
  BY <1>2 DEF Bijection, Injection
<1>4. q \in [1..k -> S] /\ IsInjective(q)
  BY <1>3 DEF SetToSeq
<1>5. q \in Seq(S) /\ Len(q) = k
  BY <1>1, <1>4
<1>6. q \in Surjection(1..k, S)
  <2>1. q \in Injection(1..k, S)
    BY <1>4 DEF Injection
  <2>2. IsFiniteSet(1..k) /\ Cardinality(1..k) = k
    BY <1>1, FS_Interval
  <2> QED
    BY <2>1, <2>2, FS_Injection
<1>7. \A m, n \in 1..k : q[m] = q[n] => m = n
  BY <1>4 DEF IsInjective
<1>8. \A x \in S : \E n \in 1..k : q[n] = x
  BY <1>6 DEF Surjection
<1> QED
  BY <1>5, <1>7, <1>8

\* The list of a project's instances names each of them once, and no other.
LEMMA IncludedLists ==
    ASSUME NEW p \in Projects
    PROVE  /\ Included(p) \in Seq(Instances)
           /\ \A n \in 1..Len(Included(p)) : Owner[Included(p)[n]] = p
           /\ \A m, n \in 1..Len(Included(p)) : Included(p)[m] = Included(p)[n] => m = n
           /\ \A i \in Instances : Owner[i] = p => \E n \in 1..Len(Included(p)) : Included(p)[n] = i
<1> DEFINE P == {i \in Postgres : Owner[i] = p}
           R == {i \in Redis : Owner[i] = p}
           s == SetToSeq(P)
           t == SetToSeq(R)
<1>1. IsFiniteSet(P) /\ IsFiniteSet(R)
  BY BoundsAssumption, FS_Subset DEF Instances
<1>2. /\ s \in Seq(P) /\ t \in Seq(R)
      /\ \A m, n \in 1..Len(s) : s[m] = s[n] => m = n
      /\ \A m, n \in 1..Len(t) : t[m] = t[n] => m = n
      /\ \A x \in P : \E n \in 1..Len(s) : s[n] = x
      /\ \A x \in R : \E n \in 1..Len(t) : t[n] = x
  BY <1>1, SetToSeqLists
<1> HIDE DEF s, t
<1>3. /\ Len(s) \in Nat /\ Len(t) \in Nat
      /\ \A n \in 1..Len(s) : s[n] \in P
      /\ \A n \in 1..Len(t) : t[n] \in R
  BY <1>2
<1>4. s \in Seq(Instances) /\ t \in Seq(Instances)
  BY <1>2, SeqMonotonic, P \subseteq Instances, R \subseteq Instances DEF Instances
<1>5. /\ s \o t \in Seq(Instances) /\ Len(s \o t) = Len(s) + Len(t)
      /\ \A n \in 1..(Len(s) + Len(t)) :
            (s \o t)[n] = IF n <= Len(s) THEN s[n] ELSE t[n - Len(s)]
  BY <1>4, ConcatProperties
<1>6. \A x \in P, y \in R : x # y
  BY InstancesAssumption
<1>7. \A n \in 1..Len(s \o t) : Owner[(s \o t)[n]] = p
  BY <1>3, <1>5
<1>8. \A m, n \in 1..Len(s \o t) : (s \o t)[m] = (s \o t)[n] => m = n
  <2> SUFFICES ASSUME NEW m \in 1..Len(s \o t), NEW n \in 1..Len(s \o t),
                      (s \o t)[m] = (s \o t)[n]
               PROVE  m = n
    OBVIOUS
  <2>1. CASE m <= Len(s) /\ n <= Len(s)
    BY <2>1, <1>2, <1>3, <1>5
  <2>2. CASE m <= Len(s) /\ ~(n <= Len(s))
    BY <2>2, <1>3, <1>5, <1>6
  <2>3. CASE ~(m <= Len(s)) /\ n <= Len(s)
    BY <2>3, <1>3, <1>5, <1>6
  <2>4. CASE ~(m <= Len(s)) /\ ~(n <= Len(s))
    <3>1. /\ m - Len(s) \in 1..Len(t) /\ n - Len(s) \in 1..Len(t)
          /\ t[m - Len(s)] = t[n - Len(s)]
      BY <2>4, <1>3, <1>5
    <3>2. m - Len(s) = n - Len(s)
      BY <3>1, <1>2
    <3> QED
      BY <3>2, <1>3, <1>5
  <2> QED
    BY <2>1, <2>2, <2>3, <2>4
<1>9. \A i \in Instances : Owner[i] = p => \E n \in 1..Len(s \o t) : (s \o t)[n] = i
  <2> SUFFICES ASSUME NEW i \in Instances, Owner[i] = p
               PROVE  \E n \in 1..Len(s \o t) : (s \o t)[n] = i
    OBVIOUS
  <2>1. CASE i \in Postgres
    <3>1. PICK n \in 1..Len(s) : s[n] = i
      BY <2>1, <1>2
    <3> QED
      BY <3>1, <1>3, <1>5
  <2>2. CASE i \in Redis
    <3>1. PICK n \in 1..Len(t) : t[n] = i
      BY <2>2, <1>2
    <3>2. /\ n + Len(s) \in 1..Len(s \o t) /\ ~(n + Len(s) <= Len(s))
          /\ (n + Len(s)) - Len(s) = n
      BY <1>3, <1>5
    <3> QED
      BY <3>1, <3>2, <1>5
  <2> QED
    BY <2>1, <2>2 DEF Instances
<1>10. Included(p) = s \o t
  BY DEF Included, s, t
<1> QED
  BY <1>5, <1>7, <1>8, <1>9, <1>10

-----------------------------------------------------------------------------
(* The commands that take no step.                                           *)

\* A step of somebody else: what c could have dumped grows with the contents.
Grows(c) ==
    /\ pc'[c] = pc[c] /\ job'[c] = job[c] /\ dir'[c] = dir[c]
    /\ \A i \in Instances : seen[c][i] \subseteq seen'[c][i]
    /\ pc[c] # "idle" => /\ \A i \in Instances : data'[i] \in seen'[c][i]
                         /\ \A i \in Redis : rdb'[i] = rdb[i] \/ rdb'[i] \in seen'[c][i] \ {None}
    /\ dumps \subseteq dumps'

\* While the dumps and the contents only grow, the facts about a command stay true.
LEMMA Bystander ==
    ASSUME BackupInv, NEW c \in Commands, Grows(c)
    PROVE  CommandInv(c)'
<1> USE DEF Grows
<1>1. WorkInv(c)'
  BY DEF BackupInv, CommandInv, WorkInv, DumpsProject, DumpsInstance
<1>2. StagedInv(c)'
  BY DEF BackupInv, CommandInv, StagedInv, Pending, Dumped
<1>3. SeenInv(c)'
  <2>1. Current(c)' = Current(c)
    BY DEF Current
  <2>2. Redis \subseteq Instances
    BY DEF Instances
  <2>3. CASE pc[c] = "apply"
    <3>1. job[c].target \in Instances
      BY <2>3 DEF BackupInv, CommandInv, WorkInv, DumpsInstance
    <3> QED
      BY <2>3, <3>1 DEF BackupInv, CommandInv, SeenInv
  <2>4. CASE pc[c] # "apply"
    BY <2>1, <2>2, <2>4 DEF BackupInv, CommandInv, SeenInv, Dumped
  <2> QED
    BY <2>3, <2>4
<1> QED
  BY <1>1, <1>2, <1>3 DEF CommandInv

\* A step of c which writes no content.
Quiet(c) ==
    /\ \A d \in Commands \ {c} : UNCHANGED <<pc[d], job[d], dir[d], seen[d]>>
    /\ data' = data /\ (\A i \in Redis : rdb'[i] \in {rdb[i], data[i]})
    /\ dumps \subseteq dumps'

\* A quiet step of one command keeps the facts about the others.
LEMMA OnlyMover ==
    ASSUME BackupInv, NEW c \in Commands, Quiet(c), CommandInv(c)'
    PROVE  \A d \in Commands : CommandInv(d)'
<1> SUFFICES ASSUME NEW d \in Commands, d # c
             PROVE  CommandInv(d)'
  OBVIOUS
<1>1. pc[d] # "idle" => \A i \in Instances : data[i] \in seen[d][i]
  BY DEF BackupInv, CommandInv, SeenInv
<1>2. \A i \in Redis : data[i] # None /\ rdb[i] # None
  BY NothingElse DEF BackupInv, TypesInv, Instances
<1>3. Grows(d)
  BY <1>1, <1>2 DEF Quiet, Grows, Instances
<1> QED
  BY <1>3, Bystander

\* What no command holds.
LEMMA ApartFrame ==
    ASSUME BackupInv, dumps \subseteq dumps'
    PROVE  /\ UNCHANGED <<snapshots, taken>> => RepositoryInv' /\ SnapshotIsComplete'
           /\ UNCHANGED left => LeftInv'
           /\ UNCHANGED replaced => SafetyDumpExists'
<1>1. UNCHANGED <<snapshots, taken>> => RepositoryInv' /\ SnapshotIsComplete'
  BY DEF BackupInv, RepositoryInv, SnapshotIsComplete
<1>2. UNCHANGED left => LeftInv'
  BY DEF BackupInv, LeftInv, NoCompleteStagingLeft
<1>3. UNCHANGED replaced => SafetyDumpExists'
  BY DEF BackupInv, SafetyDumpExists
<1> QED
  BY <1>1, <1>2, <1>3

-----------------------------------------------------------------------------
(* Commands that begin and end.                                              *)

FirstJob(step, j) ==
    /\ j \in Jobs
    /\ \/ step = "prepare" /\ j.project \in Projects /\ j.todo = Included(j.project)
       \/ step = "forget" /\ j.project \in Projects /\ j.todo = <<>>
       \/ /\ step \in {"dump-to-file", "dump", "safety", "apply"}
          /\ j.project = None /\ j.todo = <<>> /\ j.target \in Instances
          /\ (step = "apply" => ~j.safe) /\ (step = "dump" => j.target \in Redis)

\* The start of a backup or a restore keeps the invariant.
LEMMA BeginKeeps ==
    ASSUME BackupInv, NEW c \in Commands, NEW step, NEW j, FirstJob(step, j),
           Begin(c, step, j), initialized' \in BOOLEAN,
           UNCHANGED <<data_, snapshots, taken, dumps, dir, left, replaced, faults>>
    PROVE  BackupInv'
<1> USE DEF data_
<1>1. /\ pc[c] = "idle" /\ pc'[c] = step /\ job'[c] = j /\ dir'[c] = None
      /\ seen'[c] = [i \in Instances |-> {data[i]}]
  BY DEF Begin, BackupInv, TypesInv, CommandInv, WorkInv
<1>2. TypesInv'
  <2>1. pc' \in [Commands -> Steps]
    BY DEF Begin, BackupInv, TypesInv, FirstJob, Steps
  <2>2. job' \in [Commands -> Jobs]
    BY DEF Begin, BackupInv, TypesInv, FirstJob
  <2>3. seen' \in [Commands -> [Instances -> SUBSET Contents]]
    BY DEF Begin, BackupInv, TypesInv
  <2>4. jobs' \in 0..MaxJobs
    BY BoundsAssumption DEF Begin, BackupInv, TypesInv
  <2> QED
    BY <2>1, <2>2, <2>3, <2>4 DEF BackupInv, TypesInv
<1>3. Quiet(c)
  BY DEF Quiet, Begin, BackupInv, TypesInv
<1> HIDE DEF Begin
<1>4. WorkInv(c)'
  BY <1>1 DEF FirstJob, WorkInv, DumpsInstance
<1>5. StagedInv(c)'
  <2>1. CASE step = "prepare"
    <3>1. j.project \in Projects /\ j.todo = Included(j.project)
      BY <2>1 DEF FirstJob
    <3> QED
      BY <1>1, <2>1, <3>1, IncludedLists DEF StagedInv
  <2>2. CASE step # "prepare"
    <3>1. j.todo = <<>> /\ step # "restic" /\ (step = "dump" => j.project = None)
      BY <2>2 DEF FirstJob
    <3>2. \A i \in Instances : Owner[i] # None
      BY InstancesAssumption, NothingElse
    <3> QED
      BY <1>1, <3>1, <3>2, step # "copy" DEF StagedInv, FirstJob
  <2> QED
    BY <2>1, <2>2
<1>6. SeenInv(c)'
  <2>1. \A i \in Instances : data'[i] \in seen'[c][i]
    BY <1>1
  <2>2. step # "copy" /\ (step = "apply" => ~j.safe)
    BY DEF FirstJob
  <2> QED
    BY <1>1, <2>1, <2>2 DEF SeenInv
<1>7. \A d \in Commands : CommandInv(d)'
  BY <1>3, <1>4, <1>5, <1>6, OnlyMover DEF CommandInv
<1> QED
  BY <1>2, <1>7, ApartFrame DEF BackupInv

\* Once it has returned nothing is known of a command but that it holds no directory.
LEMMA EndKeeps ==
    ASSUME BackupInv, NEW c \in Commands, End(c), UNCHANGED <<data_, initialized, jobs>>,
           dir' = [dir EXCEPT ![c] = None],
           dumps \subseteq dumps', dumps' \subseteq Instances \X Contents,
           taken' \in Nat, faults' \in 0..MaxFaults
    PROVE  TypesInv' /\ \A d \in Commands : CommandInv(d)'
<1> USE DEF End, Return, data_
<1>1. TypesInv'
  <2>1. pc' \in [Commands -> Steps]
    BY DEF BackupInv, TypesInv, Steps
  <2>2. job' \in [Commands -> Jobs] /\ seen' \in [Commands -> [Instances -> SUBSET Contents]]
    BY NothingElse DEF BackupInv, TypesInv
  <2> QED
    BY <2>1, <2>2 DEF BackupInv, TypesInv
<1>2. pc'[c] = "idle" /\ job'[c] = NoJob /\ dir'[c] = None
  BY DEF BackupInv, TypesInv
<1>3. Quiet(c)
  BY DEF Quiet, BackupInv, TypesInv
<1> HIDE DEF End, Return
<1>4. CommandInv(c)'
  BY <1>2 DEF CommandInv, WorkInv, StagedInv, SeenInv, NoJob
<1> QED
  BY <1>1, <1>3, <1>4, OnlyMover

-----------------------------------------------------------------------------
(* Steps in the middle of a backup.                                          *)

\* So does the new staging directory.
LEMMA MakeStagingKeeps ==
    ASSUME BackupInv, NEW c \in Commands, MakeStaging(c)
    PROVE  BackupInv'
<1> USE DEF data_, repo
<1> DEFINE todo == job[c].todo
           p == job[c].project
<1>1. /\ pc[c] = "prepare" /\ p \in Projects /\ dir[c] = None /\ todo = Included(p)
      /\ UNCHANGED <<data_, repo, dumps, left, replaced, jobs, faults, job, seen>>
  BY DEF MakeStaging, Goto, BackupInv, CommandInv, WorkInv
<1>2. /\ pc'[c] = (IF todo = <<>> THEN "restic" ELSE "dump")
      /\ dir'[c] = (IF todo = <<>> THEN None ELSE NothingDumped)
  BY DEF MakeStaging, Goto, BackupInv, TypesInv
<1>3. TypesInv'
  <2>1. pc' \in [Commands -> Steps]
    BY DEF MakeStaging, Goto, BackupInv, TypesInv, Steps
  <2>2. dir' \in [Commands -> Dirs \cup {None}]
    BY NothingElse DEF MakeStaging, BackupInv, TypesInv
  <2> QED
    BY <1>1, <2>1, <2>2 DEF BackupInv, TypesInv
<1>4. Quiet(c)
  BY <1>1 DEF Quiet, MakeStaging, Goto, BackupInv, TypesInv
<1>5. todo \in Seq(Instances)
  BY <1>1, IncludedLists
<1>6. WorkInv(c)'
  BY <1>1, <1>2, NothingElse DEF WorkInv, DumpsProject
<1>7. StagedInv(c)'
  <2>1. \A i \in Instances : Owner[i] = p => \E n \in 1..Len(todo) : todo[n] = i
    BY <1>1, IncludedLists
  <2>2. CASE todo = <<>>
    <3>1. \A i \in Instances : Owner[i] # p
      BY <2>1, <2>2
    <3> QED
      BY <1>1, <2>2, <3>1 DEF BackupInv, CommandInv, StagedInv
  <2>3. CASE todo # <<>>
    <3>1. \A i \in Instances : Owner[i] = p => Pending(c, i)'
      BY <1>1, <2>1 DEF Pending
    <3>2. dir'[c] \in Dirs /\ \A i \in Instances : dir'[c][i] = None
      BY <1>2, <2>3, NothingElse DEF NothingDumped
    <3> QED
      BY <1>1, <3>1, <3>2 DEF BackupInv, CommandInv, StagedInv
  <2> QED
    BY <2>2, <2>3
<1>8. SeenInv(c)'
  BY <1>1, <1>2 DEF BackupInv, CommandInv, SeenInv
<1>9. \A d \in Commands : CommandInv(d)'
  BY <1>4, <1>6, <1>7, <1>8, OnlyMover DEF CommandInv
<1> QED
  BY <1>1, <1>3, <1>9, ApartFrame DEF BackupInv

\* So does a dump added to it.
LEMMA StagedKeeps ==
    ASSUME BackupInv, NEW c \in Commands, NEW content \in Contents, DumpsProject(c),
           pc[c] \in {"dump", "copy"}, Dumped(c, Current(c), content), Staged(c, content),
           UNCHANGED <<data_, repo, dumps, left, replaced, jobs, faults>>
    PROVE  BackupInv'
<1> USE DEF data_, repo
<1> DEFINE todo == job[c].todo
           p == job[c].project
<1>1. /\ job[c] \in Jobs /\ p \in Projects /\ todo \in Seq(Instances) /\ todo # <<>>
      /\ dir[c] \in Dirs
  BY DEF BackupInv, TypesInv, DumpsProject, Jobs
<1> PICK i \in Instances : i = Head(todo)
  BY <1>1
<1>2. Current(c) = i /\ i = todo[1] /\ Len(todo) \in Nat /\ 1 \in 1..Len(todo)
  BY <1>1 DEF Current
<1>3. /\ Tail(todo) \in Seq(Instances) /\ Len(Tail(todo)) = Len(todo) - 1
      /\ \A n \in 1..Len(Tail(todo)) : Tail(todo)[n] = todo[n + 1] /\ n + 1 \in 1..Len(todo)
  BY <1>1, <1>2
<1>4. /\ job'[c].todo = Tail(todo) /\ job'[c].project = p /\ job' \in [Commands -> Jobs]
      /\ job'[c].refused = job[c].refused
      /\ dir'[c] = [dir[c] EXCEPT ![i] = content] /\ dir'[c] \in Dirs
      /\ dir' \in [Commands -> Dirs \cup {None}]
      /\ pc'[c] = (IF Tail(todo) = <<>> THEN "restic" ELSE "dump") /\ seen' = seen
      /\ pc' \in [Commands -> Steps]
  <2>1. /\ job'[c].todo = Tail(todo) /\ job'[c].project = p /\ job' \in [Commands -> Jobs]
        /\ job'[c].refused = job[c].refused
    BY <1>1, <1>3 DEF Staged, BackupInv, TypesInv, Jobs
  <2>2. dir'[c] = [dir[c] EXCEPT ![i] = content]
    BY <1>2 DEF Staged, BackupInv, TypesInv
  <2>3. dir'[c] \in Dirs
    BY <1>1, <2>2 DEF Dirs
  <2>4. dir' \in [Commands -> Dirs \cup {None}]
    BY <2>3 DEF Staged, BackupInv, TypesInv
  <2>5. /\ pc'[c] = (IF Tail(todo) = <<>> THEN "restic" ELSE "dump") /\ seen' = seen
        /\ pc' \in [Commands -> Steps]
    BY DEF Staged, BackupInv, TypesInv, Steps
  <2> QED
    BY <2>1, <2>2, <2>3, <2>4, <2>5
<1>5. Quiet(c)
  BY DEF Quiet, Staged, BackupInv, TypesInv
<1>6. TypesInv'
  BY <1>4 DEF BackupInv, TypesInv
<1>7. WorkInv(c)'
  BY <1>1, <1>4 DEF WorkInv, DumpsProject
<1>8. StagedInv(c)'
  <2>1. /\ \A n \in 1..Len(todo) : Owner[todo[n]] = p
        /\ \A m, n \in 1..Len(todo) : todo[m] = todo[n] => m = n
        /\ \A x \in Instances : Owner[x] = p =>
              IF Pending(c, x) THEN dir[c][x] = None ELSE Dumped(c, x, dir[c][x])
    BY DEF BackupInv, CommandInv, StagedInv
  <2>2. \A n \in 1..Len(Tail(todo)) : Owner[Tail(todo)[n]] = p
    BY <1>3, <2>1
  <2>3. \A m, n \in 1..Len(Tail(todo)) : Tail(todo)[m] = Tail(todo)[n] => m = n
    <3> SUFFICES ASSUME NEW m \in 1..Len(Tail(todo)), NEW n \in 1..Len(Tail(todo)),
                        Tail(todo)[m] = Tail(todo)[n]
                 PROVE  m = n
      OBVIOUS
    <3>1. m + 1 = n + 1
      BY <1>3, <2>1
    <3> QED
      BY <3>1
  <2>4. ~Pending(c, i)'
    <3> SUFFICES ASSUME \E n \in 1..Len(Tail(todo)) : Tail(todo)[n] = i
                 PROVE  FALSE
      BY <1>4 DEF Pending
    <3> PICK n \in 1..Len(Tail(todo)) : Tail(todo)[n] = i
      OBVIOUS
    <3>1. n + 1 = 1
      BY <1>2, <1>3, <2>1
    <3> QED
      BY <1>2, <1>3, <3>1
  <2>5. \A x \in Instances \ {i} : Pending(c, x)' <=> Pending(c, x)
    <3> SUFFICES ASSUME NEW x \in Instances \ {i}
                 PROVE  (\E n \in 1..Len(Tail(todo)) : Tail(todo)[n] = x)
                            <=> \E n \in 1..Len(todo) : todo[n] = x
      BY <1>4 DEF Pending
    <3>1. ASSUME NEW n \in 1..Len(todo), todo[n] = x
          PROVE  \E m \in 1..Len(Tail(todo)) : Tail(todo)[m] = x
      <4>1. n # 1
        BY <1>2, <3>1
      <4>2. n - 1 \in 1..Len(Tail(todo)) /\ (n - 1) + 1 = n
        BY <1>2, <1>3, <4>1
      <4> QED
        BY <1>3, <3>1, <4>2
    <3> QED
      BY <1>3, <3>1
  <2>6. \A x \in Instances : dir'[c][x] = IF x = i THEN content ELSE dir[c][x]
    <3>1. dir[c] \in [Instances -> Contents \cup {None}]
      BY <1>1 DEF Dirs
    <3>2. dir'[c] = [dir[c] EXCEPT ![i] = content]
      BY <1>4
    <3> QED
      BY <3>1, <3>2
  <2>7. Dumped(c, i, content)
    BY <1>2
  <2>8. \A x \in Instances : Owner[x] = p =>
            IF Pending(c, x)' THEN dir'[c][x] = None ELSE Dumped(c, x, dir[c][x])'
    BY <1>4, <2>1, <2>4, <2>5, <2>6, <2>7 DEF Dumped
  <2> QED
    BY <1>4, <2>2, <2>3, <2>8 DEF StagedInv
<1>9. SeenInv(c)'
  BY <1>4 DEF BackupInv, CommandInv, SeenInv
<1>10. \A d \in Commands : CommandInv(d)'
  BY <1>5, <1>7, <1>8, <1>9, OnlyMover DEF CommandInv
<1> QED
  BY <1>6, <1>10, ApartFrame DEF BackupInv

\* So does the Redis dump, and the one that is not made.
LEMMA SaveRedisKeeps ==
    ASSUME BackupInv, NEW c \in Commands, SaveRedis(c) \/ SaveRefused(c)
    PROVE  BackupInv'
<1> USE DEF data_, repo
<1> PICK i \in Instances : i = Current(c) /\ i \in Redis
  BY DEF SaveRedis, SaveRefused, Instances
<1>1. /\ pc[c] = "dump" /\ pc'[c] = "copy" /\ pc' \in [Commands -> Steps]
      /\ UNCHANGED <<data, writes, repo, dumps, dir, left, replaced, jobs, seen>>
      /\ rdb' \in [Redis -> Contents] /\ (\A x \in Redis : rdb'[x] \in {rdb[x], data[x]})
      /\ faults' \in 0..MaxFaults
  <2>1. CASE SaveRedis(c)
    BY <2>1 DEF SaveRedis, SavedRedis, Goto, BackupInv, TypesInv, Steps, Instances
  <2>2. CASE SaveRefused(c)
    BY <2>2, BoundsAssumption DEF SaveRefused, Fault, BackupInv, TypesInv, Steps
  <2> QED
    BY <2>1, <2>2
<1>2. /\ job' \in [Commands -> Jobs] /\ (\A d \in Commands \ {c} : job'[d] = job[d])
      /\ job'[c].project = job[c].project /\ job'[c].todo = job[c].todo
      /\ job'[c].target = job[c].target /\ job'[c].safe = job[c].safe
      /\ job[c].refused \subseteq job'[c].refused
      /\ rdb'[i] = data[i] \/ i \in job'[c].refused
  <2>1. CASE SaveRedis(c)
    BY <2>1 DEF SaveRedis, SavedRedis, Goto, BackupInv, TypesInv
  <2>2. CASE SaveRefused(c)
    <3>1. job[c] \in Jobs /\ job' = [job EXCEPT ![c] = [job[c] EXCEPT !.refused = @ \cup {i}]]
      BY <2>2 DEF SaveRefused, BackupInv, TypesInv
    <3>2. [job[c] EXCEPT !.refused = @ \cup {i}] \in Jobs
      BY <3>1 DEF Jobs
    <3> QED
      BY <3>1, <3>2 DEF BackupInv, TypesInv, Jobs
  <2> QED
    BY <2>1, <2>2
<1>3. Quiet(c)
  <2>1. \A d \in Commands \ {c} : UNCHANGED <<pc[d], dir[d], seen[d]>>
    BY <1>1 DEF SaveRedis, SaveRefused, Goto, BackupInv, TypesInv
  <2> QED
    BY <1>1, <1>2, <2>1 DEF Quiet
<1>4. CommandInv(c)'
  <2>1. Current(c)' = i
    BY <1>2 DEF Current
  <2>2. WorkInv(c)'
    BY <1>1, <1>2 DEF BackupInv, CommandInv, WorkInv, DumpsProject, DumpsInstance
  <2>3. StagedInv(c)'
    BY <1>1, <1>2 DEF BackupInv, CommandInv, StagedInv, Pending, Dumped
  <2>4. rdb'[i] # None /\ data[i] \in seen[c][i]
    BY <1>1, NothingElse DEF BackupInv, CommandInv, SeenInv
  <2>5. SeenInv(c)'
    BY <1>1, <1>2, <2>1, <2>4 DEF BackupInv, CommandInv, SeenInv, Dumped
  <2> QED
    BY <2>2, <2>3, <2>5 DEF CommandInv
<1>5. TypesInv'
  BY <1>1, <1>2 DEF BackupInv, TypesInv
<1> QED
  BY <1>1, <1>3, <1>4, <1>5, OnlyMover, ApartFrame DEF BackupInv

\* So does the safety dump before a restore.
LEMMA SafetyDumpKeeps ==
    ASSUME BackupInv, NEW c \in Commands, SafetyDump(c)
    PROVE  BackupInv'
<1> USE DEF data_, repo
<1> DEFINE d == <<job[c].target, data[job[c].target]>>
<1>1. /\ pc[c] = "safety" /\ pc'[c] = "apply" /\ dumps' = dumps \cup {d}
      /\ UNCHANGED <<data_, repo, dir, left, replaced, jobs, faults, job, seen>>
  BY DEF SafetyDump, Goto, BackupInv, TypesInv
<1>2. job[c].target \in Instances /\ DumpsInstance(c)
  BY <1>1 DEF BackupInv, CommandInv, WorkInv, DumpsInstance
<1>3. d \in Instances \X Contents /\ d[2] \in seen[c][d[1]]
  BY <1>1, <1>2 DEF BackupInv, TypesInv, CommandInv, SeenInv
<1>4. TypesInv'
  <2>1. pc' \in [Commands -> Steps]
    BY DEF SafetyDump, Goto, BackupInv, TypesInv, Steps
  <2> QED
    BY <1>1, <1>3, <2>1 DEF BackupInv, TypesInv
<1>5. Quiet(c)
  BY <1>1 DEF Quiet, SafetyDump, Goto, BackupInv, TypesInv
<1>6. CommandInv(c)'
  <2>1. WorkInv(c)' /\ StagedInv(c)'
    BY <1>1, <1>2 DEF BackupInv, CommandInv, WorkInv, StagedInv, DumpsInstance
  <2>2. SeenInv(c)'
    BY <1>1, <1>3 DEF BackupInv, CommandInv, SeenInv
  <2> QED
    BY <2>1, <2>2 DEF CommandInv
<1> QED
  BY <1>1, <1>4, <1>5, <1>6, OnlyMover, ApartFrame DEF BackupInv

-----------------------------------------------------------------------------
(* Writes, flushes and restores.                                             *)

\* Whoever is not counted out has seen the new content.
LEMMA BecomesSeen ==
    ASSUME BackupInv, NEW i \in Instances, NEW content \in Contents, NEW by,
           Becomes(i, content, by)
    PROVE  /\ data' \in [Instances -> Contents]
           /\ seen' \in [Commands -> [Instances -> SUBSET Contents]]
           /\ data'[i] = content
           /\ \A c \in Commands \ by :
                 /\ \A x \in Instances : seen[c][x] \subseteq seen'[c][x]
                 /\ pc[c] # "idle" => /\ content \in seen'[c][i]
                                      /\ \A x \in Instances : data'[x] \in seen'[c][x]
<1>1. /\ data \in [Instances -> Contents]
      /\ seen \in [Commands -> [Instances -> SUBSET Contents]]
  BY DEF BackupInv, TypesInv
<1>2. /\ data' = [data EXCEPT ![i] = content]
      /\ seen' = [c \in Commands |->
            IF c \in by THEN NotBegun
            ELSE IF pc[c] = "idle" THEN seen[c]
            ELSE [seen[c] EXCEPT ![i] = seen[c][i] \cup {content}]]
  BY DEF Becomes
<1>3. data' \in [Instances -> Contents] /\ data'[i] = content
  BY <1>1, <1>2
<1>4. ASSUME NEW c \in Commands
      PROVE  seen'[c] \in [Instances -> SUBSET Contents]
  BY <1>1, <1>2, NothingElse
<1>5. seen' \in [Commands -> [Instances -> SUBSET Contents]]
  BY <1>2, <1>4
<1>6. ASSUME NEW c \in Commands \ by
      PROVE  /\ \A x \in Instances : seen[c][x] \subseteq seen'[c][x]
             /\ pc[c] # "idle" => /\ content \in seen'[c][i]
                                  /\ \A x \in Instances : data'[x] \in seen'[c][x]
  <2>1. CASE pc[c] = "idle"
    BY <1>2, <2>1
  <2>2. CASE pc[c] # "idle"
    <3>1. seen'[c] = [seen[c] EXCEPT ![i] = seen[c][i] \cup {content}]
      BY <1>2, <2>2
    <3>2. \A x \in Instances : data[x] \in seen[c][x]
      BY <2>2 DEF BackupInv, CommandInv, SeenInv
    <3>3. \A x \in Instances : seen'[c][x] = IF x = i THEN seen[c][i] \cup {content} ELSE seen[c][x]
      BY <1>1, <3>1
    <3> QED
      BY <1>1, <1>2, <3>2, <3>3
  <2> QED
    BY <2>1, <2>2
<1> QED
  BY <1>3, <1>5, <1>6

\* An application's write, or a FLUSHALL, which nobody made his own.
LEMMA WriteKeeps ==
    ASSUME BackupInv, NEW i \in Instances, NEW content \in Contents, Becomes(i, content, {}),
           rdb' = rdb \/ (i \in Redis /\ content = Empty /\ rdb' = [rdb EXCEPT ![i] = Empty]),
           writes' \in 0..MaxWrites, jobs' \in 0..MaxJobs,
           UNCHANGED <<repo, dumps, pc, job, dir, left, replaced, faults>>
    PROVE  BackupInv'
<1> USE DEF repo
<1>1. ASSUME NEW c \in Commands
      PROVE  Grows(c)
  <2>1. /\ \A x \in Instances : seen[c][x] \subseteq seen'[c][x]
        /\ pc[c] # "idle" => \A x \in Instances : data'[x] \in seen'[c][x]
    BY BecomesSeen
  <2>2. ASSUME pc[c] # "idle", NEW x \in Redis
        PROVE  rdb'[x] = rdb[x] \/ rdb'[x] \in seen'[c][x] \ {None}
    <3>1. rdb'[x] = rdb[x] \/ (x = i /\ content = Empty /\ rdb'[x] = Empty)
      BY DEF BackupInv, TypesInv
    <3>2. data'[i] = content
      BY DEF Becomes, BackupInv, TypesInv
    <3> QED
      BY <2>1, <2>2, <3>1, <3>2, NothingElse
  <2> QED
    BY <2>1, <2>2 DEF Grows
<1>2. TypesInv'
  <2>1. rdb' \in [Redis -> Contents]
    BY NothingElse DEF BackupInv, TypesInv
  <2> QED
    BY <2>1, BecomesSeen DEF BackupInv, TypesInv
<1>3. \A c \in Commands : CommandInv(c)'
  BY <1>1, Bystander
<1> QED
  BY <1>2, <1>3, ApartFrame DEF BackupInv

\* So does the replacement of the live data.
LEMMA ReplaceKeeps ==
    ASSUME BackupInv, NEW c \in Commands, NEW content \in Contents, pc[c] = "apply",
           Replace(c, content), faults' \in 0..MaxFaults
    PROVE  BackupInv'
<1> USE DEF repo
<1>1. PICK i \in Instances : i = job[c].target
  BY DEF BackupInv, CommandInv, WorkInv, DumpsInstance
<1>2. Becomes(i, content, {c})
  BY <1>1 DEF Replace
<1>3. /\ pc' = [pc EXCEPT ![c] = "idle"] /\ job' = [job EXCEPT ![c] = NoJob]
      /\ UNCHANGED <<rdb, writes, repo, dumps, dir, left, jobs>>
  BY DEF Replace, Return
<1>4. dir[c] = None
  BY DEF BackupInv, CommandInv, WorkInv, DumpsInstance
<1>5. TypesInv'
  <2>1. pc' \in [Commands -> Steps] /\ job' \in [Commands -> Jobs]
    BY <1>3, NothingElse DEF BackupInv, TypesInv, Steps
  <2> QED
    BY <1>2, <1>3, <2>1, BecomesSeen DEF BackupInv, TypesInv
<1>6. ASSUME NEW d \in Commands, d # c
      PROVE  CommandInv(d)'
  <2>1. d \in Commands \ {c} /\ pc'[d] = pc[d] /\ job'[d] = job[d] /\ dir'[d] = dir[d]
    BY <1>3, <1>6 DEF BackupInv, TypesInv
  <2>2. /\ \A x \in Instances : seen[d][x] \subseteq seen'[d][x]
        /\ pc[d] # "idle" => \A x \in Instances : data'[x] \in seen'[d][x]
    BY <1>2, <2>1, BecomesSeen
  <2>3. Grows(d)
    BY <1>3, <2>1, <2>2 DEF Grows
  <2> QED
    BY <2>3, Bystander
<1>7. CommandInv(c)'
  <2>1. pc'[c] = "idle" /\ job'[c] = NoJob /\ dir'[c] = None
    BY <1>3, <1>4 DEF BackupInv, TypesInv
  <2> QED
    BY <2>1 DEF CommandInv, WorkInv, StagedInv, SeenInv, NoJob
<1>8. SafetyDumpExists'
  <2>1. CASE job[c].safe
    <3>1. PICK d \in dumps : d[1] = i /\ d[2] \in seen[c][i]
      BY <1>1, <2>1 DEF BackupInv, CommandInv, SeenInv
    <3>2. replaced' = replaced \cup {<<i, seen[c][i]>>}
      BY <1>1, <2>1 DEF Replace
    <3> QED
      BY <1>3, <3>1, <3>2 DEF BackupInv, SafetyDumpExists
  <2>2. CASE ~job[c].safe
    BY <1>3, <2>2 DEF Replace, BackupInv, SafetyDumpExists
  <2> QED
    BY <2>1, <2>2
<1> QED
  BY <1>3, <1>5, <1>6, <1>7, <1>8, ApartFrame DEF BackupInv

-----------------------------------------------------------------------------
(* Ends of a command that store, remove or leave something.                  *)

\* So does a run of restic.
LEMMA ResticKeeps ==
    ASSUME BackupInv, NEW c \in Commands, Restic(c)
    PROVE  BackupInv'
<1> USE DEF data_
<1> DEFINE s == [project |-> job[c].project, content |-> dir[c], seen |-> seen[c],
                 refused |-> job[c].refused, at |-> taken + 1]
<1>1. /\ pc[c] = "restic" /\ snapshots' = snapshots \cup {s} /\ taken' = taken + 1
      /\ End(c) /\ dir' = [dir EXCEPT ![c] = None]
      /\ UNCHANGED <<data_, initialized, dumps, replaced, jobs, faults, left>>
  BY DEF Restic, RemoveStaging
<1>2. /\ job[c].project \in Projects /\ job[c].todo = <<>> /\ dir[c] \in Dirs \cup {None}
      /\ taken \in Nat
  BY <1>1 DEF BackupInv, TypesInv, CommandInv, WorkInv
<1>3. \A i \in Instances : Owner[i] = job[c].project =>
          dir[c] # None /\ Dumped(c, i, dir[c][i])
  <2>1. \A i \in Instances : ~Pending(c, i)
    BY <1>2 DEF Pending
  <2> QED
    BY <1>1, <2>1, NothingElse DEF BackupInv, CommandInv, StagedInv
<1>4. TypesInv' /\ \A d \in Commands : CommandInv(d)'
  <2>1. /\ dumps' \subseteq Instances \X Contents /\ dumps \subseteq dumps'
        /\ faults' \in 0..MaxFaults /\ taken' \in Nat
    BY <1>1, <1>2 DEF BackupInv, TypesInv
  <2> HIDE DEF s
  <2> QED
    BY <1>1, <2>1, EndKeeps
<1>5. RepositoryInv'
  <2>1. s.project \in Projects /\ s.content \in Dirs \cup {None} /\ s.at \in 1..(taken + 1)
    BY <1>2
  <2>2. \A t \in snapshots : t.at \in 1..(taken + 1)
    BY <1>2 DEF BackupInv, RepositoryInv
  <2> QED
    BY <1>1, <2>1, <2>2 DEF BackupInv, RepositoryInv
<1>6. SnapshotIsComplete'
  BY <1>1, <1>3 DEF BackupInv, SnapshotIsComplete, Dumped
<1> QED
  BY <1>1, <1>4, <1>5, <1>6, ApartFrame DEF BackupInv

\* So does a dump that fails.
LEMMA DumpFailsKeeps ==
    ASSUME BackupInv, NEW c \in Commands, DumpFails(c)
    PROVE  BackupInv'
<1> USE DEF data_, repo
<1>1. /\ pc[c] \in {"dump", "copy"} /\ job[c].todo # <<>>
      /\ End(c) /\ dir' = [dir EXCEPT ![c] = None] /\ left' = left \cup {<<job[c].project, dir[c]>>}
      /\ faults < MaxFaults /\ faults' = faults + 1
      /\ UNCHANGED <<data_, repo, dumps, replaced, jobs>>
  BY DEF DumpFails, AfterFailedDump, Fault
<1>2. job[c].project \in Projects /\ dir[c] \in Dirs /\ job[c].todo \in Seq(Instances)
  BY <1>1 DEF BackupInv, TypesInv, CommandInv, WorkInv, DumpsProject, DumpsInstance, Jobs
<1>3. \E i \in Instances : Owner[i] = job[c].project /\ dir[c][i] = None
  <2> DEFINE i == job[c].todo[1]
  <2>1. 1 \in 1..Len(job[c].todo) /\ i \in Instances
    BY <1>1, <1>2
  <2>2. Owner[i] = job[c].project /\ Pending(c, i)
    BY <2>1 DEF BackupInv, CommandInv, StagedInv, Pending
  <2> QED
    BY <1>1, <2>1, <2>2 DEF BackupInv, CommandInv, StagedInv
<1>4. TypesInv' /\ \A d \in Commands : CommandInv(d)'
  <2>1. dumps' \subseteq Instances \X Contents /\ faults' \in 0..MaxFaults /\ taken' \in Nat
    BY <1>1, BoundsAssumption DEF BackupInv, TypesInv
  <2> QED
    BY <1>1, <2>1, EndKeeps
<1>5. LeftInv'
  <2>1. NoCompleteStagingLeft'
    BY <1>1, <1>3 DEF BackupInv, LeftInv, NoCompleteStagingLeft
  <2> QED
    BY <1>1, <1>2, <2>1 DEF BackupInv, LeftInv
<1> QED
  BY <1>1, <1>4, <1>5, ApartFrame DEF BackupInv

\* So does the retention.
LEMMA ForgetKeeps ==
    ASSUME BackupInv, NEW c \in Commands, Forget(c)
    PROVE  BackupInv'
<1> USE DEF data_
<1>1. /\ pc[c] = "forget" /\ snapshots' \subseteq snapshots /\ End(c)
      /\ UNCHANGED <<data_, initialized, taken, dumps, dir, left, replaced, jobs, faults>>
  BY DEF Forget
<1>2. dir' = [dir EXCEPT ![c] = None]
  BY <1>1 DEF BackupInv, TypesInv, CommandInv, WorkInv
<1>3. TypesInv' /\ \A d \in Commands : CommandInv(d)'
  <2>1. dumps' \subseteq Instances \X Contents /\ faults' \in 0..MaxFaults /\ taken' \in Nat
    BY <1>1 DEF BackupInv, TypesInv
  <2> QED
    BY <1>1, <1>2, <2>1, EndKeeps
<1>4. RepositoryInv' /\ SnapshotIsComplete'
  BY <1>1 DEF BackupInv, RepositoryInv, SnapshotIsComplete
<1> QED
  BY <1>1, <1>3, <1>4, ApartFrame DEF BackupInv

\* A dump that is written to a file of its own.
LEMMA FileDumpKeeps ==
    ASSUME BackupInv, NEW c \in Commands, DumpToFile(c) \/ CopyRedisToFile(c)
    PROVE  BackupInv'
<1> USE DEF data_, repo
<1>1. /\ pc[c] \in {"dump-to-file", "copy"} /\ job[c].todo = <<>> /\ End(c)
      /\ dumps' = dumps \cup {<<job[c].target, data[job[c].target]>>}
         \/ (dumps' = dumps \cup {<<job[c].target, rdb[job[c].target]>>} /\ pc[c] = "copy")
      /\ UNCHANGED <<data_, repo, dir, left, replaced, jobs, faults>>
  BY DEF DumpToFile, CopyRedisToFile, BackupInv, CommandInv, WorkInv, DumpsInstance
<1>2. /\ DumpsInstance(c) /\ dir[c] = None /\ job[c].target \in Instances
      /\ pc[c] = "copy" => job[c].target \in Redis
  BY <1>1 DEF BackupInv, CommandInv, WorkInv, DumpsProject, DumpsInstance
<1>3. dir' = [dir EXCEPT ![c] = None]
  BY <1>1, <1>2 DEF BackupInv, TypesInv
<1>4. dumps' \subseteq Instances \X Contents
  BY <1>1, <1>2 DEF BackupInv, TypesInv
<1>5. TypesInv' /\ \A d \in Commands : CommandInv(d)'
  <2>1. faults' \in 0..MaxFaults /\ taken' \in Nat /\ dumps \subseteq dumps'
    BY <1>1 DEF BackupInv, TypesInv
  <2> QED
    BY <1>1, <1>3, <1>4, <2>1, EndKeeps
<1> QED
  BY <1>1, <1>5, ApartFrame DEF BackupInv

-----------------------------------------------------------------------------
(* The theorems.                                                             *)

\* The invariant holds at the start.
LEMMA InitBackup == Init => BackupInv
<1> SUFFICES ASSUME Init PROVE BackupInv
  OBVIOUS
<1> USE DEF Init
<1>1. TypesInv
  <2>1. {0} \subseteq 0..MaxWrites /\ {0} \subseteq 0..MaxJobs /\ {0} \subseteq 0..MaxFaults
    BY BoundsAssumption
  <2>2. /\ data \in [Instances -> Contents] /\ rdb \in [Redis -> Contents]
        /\ pc \in [Commands -> Steps] /\ dir \in [Commands -> Dirs \cup {None}]
    BY NothingElse DEF Steps
  <2>3. job \in [Commands -> Jobs] /\ seen \in [Commands -> [Instances -> SUBSET Contents]]
    BY NothingElse
  <2> QED
    BY <2>1, <2>2, <2>3 DEF TypesInv
<1>2. ASSUME NEW c \in Commands
      PROVE  CommandInv(c)
  BY DEF CommandInv, WorkInv, StagedInv, SeenInv, NoJob
<1> QED
  BY <1>1, <1>2 DEF BackupInv, RepositoryInv, SnapshotIsComplete, LeftInv,
                    NoCompleteStagingLeft, SafetyDumpExists

\* And every step keeps it.
LEMMA StepBackup == BackupInv /\ [Next]_vars => BackupInv'
<1> SUFFICES ASSUME BackupInv, [Next]_vars
             PROVE  BackupInv'
  OBVIOUS
<1> USE DEF data_, repo
<1>1. CASE \E i \in Instances : Write(i)
  <2>1. PICK i \in Instances : Write(i)
    BY <1>1
  <2>2. /\ writes' \in 0..MaxWrites /\ writes' \in Contents /\ jobs' \in 0..MaxJobs
    BY <2>1, BoundsAssumption DEF Write, BackupInv, TypesInv, Contents
  <2> QED
    BY <2>1, <2>2, WriteKeeps DEF Write
<1>2. ASSUME NEW c \in Commands, Flush(c)
      PROVE  BackupInv'
  <2>1. PICK i \in Redis : Becomes(i, Empty, {}) /\ rdb' \in {rdb, [rdb EXCEPT ![i] = Empty]}
    BY <1>2 DEF Flush
  <2>2. writes' \in 0..MaxWrites /\ jobs' \in 0..MaxJobs /\ i \in Instances /\ Empty \in Contents
    BY <1>2, BoundsAssumption, NothingElse DEF Flush, BackupInv, TypesInv, Instances
  <2>3. rdb' = rdb \/ rdb' = [rdb EXCEPT ![i] = Empty]
    BY <2>1
  <2> QED
    BY <1>2, <2>1, <2>2, <2>3, WriteKeeps DEF Flush
<1>3. ASSUME NEW c \in Commands, Create(c) \/ Prune(c) \/ BackupInstance(c) \/ Restore(c)
      PROVE  BackupInv'
  <2>1. initialized \in BOOLEAN /\ <<>> \in Seq(Instances)
    BY DEF BackupInv, TypesInv
  <2>2. CASE Create(c)
    <3>1. PICK p \in Projects, init \in BOOLEAN :
             /\ Begin(c, "prepare", [NoJob EXCEPT !.project = p, !.todo = Included(p)])
             /\ initialized' = (initialized \/ init)
      BY <2>2 DEF Create
    <3>2. PICK j : j = [NoJob EXCEPT !.project = p, !.todo = Included(p)]
      OBVIOUS
    <3>3. j = [project |-> p, todo |-> Included(p), target |-> None, safe |-> TRUE,
         refused |-> {}]
      BY <3>2 DEF NoJob
    <3>4. FirstJob("prepare", j)
      BY <3>3, IncludedLists DEF FirstJob, Jobs
    <3>5. initialized' \in BOOLEAN
      BY <2>1, <3>1
    <3> QED
      BY <2>2, <3>1, <3>2, <3>4, <3>5, BeginKeeps DEF Create
  <2>3. CASE Prune(c)
    <3>1. PICK p \in Projects : Begin(c, "forget", [NoJob EXCEPT !.project = p])
      BY <2>3 DEF Prune
    <3>2. PICK j : j = [NoJob EXCEPT !.project = p]
      OBVIOUS
    <3>3. j = [project |-> p, todo |-> <<>>, target |-> None, safe |-> TRUE,
         refused |-> {}]
      BY <3>2 DEF NoJob
    <3>4. FirstJob("forget", j)
      BY <2>1, <3>3 DEF FirstJob, Jobs
    <3> QED
      BY <2>1, <2>3, <3>1, <3>2, <3>4, BeginKeeps DEF Prune
  <2>4. CASE BackupInstance(c)
    <3>1. PICK i, step, j :
             /\ i \in Instances
             /\ step = IF i \in Postgres THEN "dump-to-file" ELSE "dump"
             /\ j = [NoJob EXCEPT !.target = i]
             /\ Begin(c, step, j)
      BY <2>4 DEF BackupInstance
    <3>2. j = [project |-> None, todo |-> <<>>, target |-> i, safe |-> TRUE,
         refused |-> {}]
      BY <3>1 DEF NoJob
    <3>3. FirstJob(step, j)
      <4>1. i \in Instances /\ i \in Postgres \cup Redis
        BY <3>1 DEF Instances
      <4>2. j \in Jobs
        BY <2>1, <3>2, <4>1 DEF Jobs
      <4> QED
        BY <3>1, <3>2, <4>1, <4>2 DEF FirstJob
    <3> QED
      BY <2>1, <2>4, <3>1, <3>3, BeginKeeps DEF BackupInstance
  <2>5. CASE Restore(c)
    <3>1. PICK i \in Postgres :
             \/ Begin(c, "safety", [NoJob EXCEPT !.target = i, !.safe = TRUE])
             \/ Begin(c, "apply", [NoJob EXCEPT !.target = i, !.safe = FALSE])
      <4>1. PICK i \in Postgres, safe \in BOOLEAN :
               Begin(c, IF safe THEN "safety" ELSE "apply",
                     [NoJob EXCEPT !.target = i, !.safe = safe])
        BY <2>5 DEF Restore
      <4>2. CASE safe = TRUE
        BY <4>1, <4>2
      <4>3. CASE safe = FALSE
        BY <4>1, <4>3
      <4> QED
        BY <4>2, <4>3
    <3>2. PICK step, j :
             /\ \/ step = "safety" /\ j = [NoJob EXCEPT !.target = i, !.safe = TRUE]
                \/ step = "apply" /\ j = [NoJob EXCEPT !.target = i, !.safe = FALSE]
             /\ Begin(c, step, j)
      BY <3>1
    <3>3. FirstJob(step, j)
      <4>1. i \in Instances
        BY DEF Instances
      <4>2. CASE step = "safety" /\ j = [NoJob EXCEPT !.target = i, !.safe = TRUE]
        <5>1. j = [project |-> None, todo |-> <<>>, target |-> i, safe |-> TRUE,
         refused |-> {}]
          BY <4>2 DEF NoJob
        <5>2. j \in Jobs
          BY <2>1, <4>1, <5>1 DEF Jobs
        <5>3. step = "safety"
          BY <4>2
        <5> QED
          BY <4>1, <5>1, <5>2, <5>3 DEF FirstJob
      <4>3. CASE step = "apply" /\ j = [NoJob EXCEPT !.target = i, !.safe = FALSE]
        <5>1. j = [project |-> None, todo |-> <<>>, target |-> i, safe |-> FALSE,
         refused |-> {}]
          BY <4>3 DEF NoJob
        <5>2. j \in Jobs
          BY <2>1, <4>1, <5>1 DEF Jobs
        <5>3. step = "apply"
          BY <4>3
        <5> QED
          BY <4>1, <5>1, <5>2, <5>3 DEF FirstJob
      <4> QED
        BY <3>2, <4>2, <4>3
    <3> QED
      BY <2>1, <2>5, <3>2, <3>3, BeginKeeps, SMTT(30) DEF Restore
  <2> QED
    BY <1>3, <2>2, <2>3, <2>4, <2>5
<1>4. ASSUME NEW c \in Commands, DumpPostgres(c) \/ CopyRedis(c)
      PROVE  BackupInv'
  <2>1. PICK content : /\ Staged(c, content)
                       /\ \/ /\ pc[c] = "dump" /\ content = data[Current(c)]
                             /\ Current(c) \in Postgres
                          \/ /\ pc[c] = "copy" /\ content = rdb[Current(c)]
                             /\ job[c].todo # <<>>
                       /\ UNCHANGED <<data_, repo, dumps, left, replaced, jobs, faults>>
    BY <1>4 DEF DumpPostgres, CopyRedis
  <2>2. DumpsProject(c)
    <3>1. DumpsProject(c) \/ (DumpsInstance(c) /\ job[c].target \in Redis)
      BY <2>1 DEF BackupInv, CommandInv, WorkInv
    <3>2. ~DumpsInstance(c) \/ job[c].target \notin Redis
      BY <2>1, InstancesAssumption DEF DumpsInstance, Current
    <3> QED
      BY <3>1, <3>2
  <2>3. content \in Contents /\ Dumped(c, Current(c), content)
    <3>1. CASE pc[c] = "dump"
      BY <2>1, <3>1, NothingElse DEF Dumped, BackupInv, TypesInv, CommandInv, SeenInv, Instances
    <3>2. CASE pc[c] = "copy"
      BY <2>1, <3>2 DEF BackupInv, TypesInv, CommandInv, SeenInv
    <3> QED
      BY <2>1, <3>1, <3>2
  <2> QED
    BY <2>1, <2>2, <2>3, StagedKeeps
<1>5. ASSUME NEW c \in Commands,
             ResticFails(c) \/ ForgetFails(c) \/ BackupInstanceFails(c) \/ SafetyFails(c)
                 \/ NoInput(c) \/ Die(c)
      PROVE  BackupInv'
  <2>1. /\ End(c) /\ UNCHANGED <<data_, repo, dumps, left, replaced, jobs>>
        /\ faults' = faults \/ (faults < MaxFaults /\ faults' = faults + 1)
    BY <1>5 DEF ResticFails, RemoveStaging, ForgetFails, BackupInstanceFails, SafetyFails,
                AfterFailedSafety, NoInput, Die, Fault
  <2>2. dir' = [dir EXCEPT ![c] = None]
    <3>1. CASE ResticFails(c) \/ Die(c)
      BY <3>1 DEF ResticFails, Die
    <3>2. CASE ForgetFails(c) \/ BackupInstanceFails(c) \/ SafetyFails(c) \/ NoInput(c)
      <4>1. /\ dir' = dir
            /\ pc[c] \in {"forget", "dump-to-file", "safety", "apply"}
               \/ (pc[c] \in {"dump", "copy"} /\ job[c].todo = <<>>)
        BY <3>2 DEF ForgetFails, BackupInstanceFails, SafetyFails, AfterFailedSafety, NoInput
      <4>2. dir[c] = None
        BY <4>1 DEF BackupInv, CommandInv, WorkInv, DumpsProject, DumpsInstance
      <4> QED
        BY <4>1, <4>2 DEF BackupInv, TypesInv
    <3> QED
      BY <1>5, <3>1, <3>2
  <2>3. /\ dumps' \subseteq Instances \X Contents /\ dumps \subseteq dumps'
        /\ faults' \in 0..MaxFaults /\ taken' \in Nat
    BY <2>1, BoundsAssumption DEF BackupInv, TypesInv
  <2>4. TypesInv' /\ \A d \in Commands : CommandInv(d)'
    BY <2>1, <2>2, <2>3, EndKeeps
  <2> QED
    BY <2>1, <2>4, ApartFrame DEF BackupInv
<1>6. ASSUME NEW c \in Commands, Apply(c) \/ ApplyFails(c)
      PROVE  BackupInv'
  <2>1. PICK content \in Contents : pc[c] = "apply" /\ Replace(c, content)
    BY <1>6, NothingElse DEF Apply, ApplyFails, BackupInv, TypesInv
  <2>2. faults' \in 0..MaxFaults
    BY <1>6, BoundsAssumption DEF Apply, ApplyFails, Fault, BackupInv, TypesInv
  <2> QED
    BY <2>1, <2>2, ReplaceKeeps
<1>7. CASE UNCHANGED vars
  <2>1. \A c \in Commands : Quiet(c) /\ Grows(c)
    BY <1>7 DEF vars, Quiet, Grows, BackupInv, CommandInv, SeenInv
  <2>2. \A c \in Commands : CommandInv(c)'
    BY <2>1, Bystander
  <2>3. TypesInv'
    BY <1>7 DEF vars, BackupInv, TypesInv
  <2> QED
    BY <1>7, <2>2, <2>3, ApartFrame DEF vars, BackupInv
<1> QED
  BY <1>1, <1>2, <1>3, <1>4, <1>5, <1>6, <1>7, MakeStagingKeeps, SaveRedisKeeps,
     DumpFailsKeeps, ResticKeeps, ForgetKeeps, FileDumpKeeps, SafetyDumpKeeps DEF Next

\* The invariant holds throughout: what commands hold and have seen, in any interleaving
\* of commands, writes, failures and deaths.
THEOREM BackupInvariance == Spec => []BackupInv
BY InitBackup, StepBackup, PTL DEF Spec

\* Types are kept (every variable of Backup).
THEOREM BackupTypes == Spec => []TypeOK
<1>1. BackupInv => TypeOK
  <2> SUFFICES ASSUME BackupInv PROVE TypeOK
    OBVIOUS
  <2>1. ASSUME NEW c \in Commands
        PROVE  /\ pc[c] = "idle" => job[c] = NoJob /\ dir[c] = None
               /\ pc[c] = "restic" <=> pc[c] # "idle" /\ job[c].project # None
                                       /\ job[c].todo = <<>> /\ pc[c] \notin {"forget", "prepare"}
    <3>1. WorkInv(c) /\ pc[c] \in Steps
      BY DEF BackupInv, TypesInv, CommandInv
    <3> QED
      BY <3>1, NothingElse DEF WorkInv, DumpsProject, DumpsInstance, Steps
  <2> QED
    BY <2>1 DEF TypeOK, BackupInv, TypesInv, RepositoryInv, LeftInv
<1> QED
  BY <1>1, BackupInvariance, PTL

\* Every snapshot holds a dump of each instance of its project, with a content the
\* instance had while the command ran, unless it is a Redis that answered the command's
\* SAVE with an error.  (prepareBackupStaging.)
THEOREM SnapshotsComplete == Spec => []SnapshotIsComplete
<1>1. BackupInv => SnapshotIsComplete
  BY DEF BackupInv
<1> QED
  BY <1>1, BackupInvariance, PTL

\* What a restore with its safety dump replaced is in a dump.  (postgres restore.)
THEOREM SafetyDumps == Spec => []SafetyDumpExists
<1>1. BackupInv => SafetyDumpExists
  BY DEF BackupInv
<1> QED
  BY <1>1, BackupInvariance, PTL

\* No staging directory that a command leaves behind is complete.  (backup create.)
THEOREM StagingIsRemoved == Spec => []NoCompleteStagingLeft
<1>1. BackupInv => NoCompleteStagingLeft
  BY DEF BackupInv, LeftInv
<1> QED
  BY <1>1, BackupInvariance, PTL

\* Whoever prunes whatever, a project's newest snapshot stays: no snapshot with its paths
\* is newer, and a retention keeps at least one of each set of paths.  (RetentionArguments.)
THEOREM NewestStays == Spec => PruneKeepsNewest
<1>1. ASSUME BackupInv, [Next]_vars
      PROVE  \A p \in Projects : Newest(p) \subseteq snapshots'
  <2> SUFFICES ASSUME NEW p \in Projects, NEW s \in Newest(p)
               PROVE  s \in snapshots'
    OBVIOUS
  <2>1. /\ s \in snapshots /\ s.project = p
        /\ \A t \in snapshots : t.project = p => t.at <= s.at
    BY DEF Newest
  <2>2. ASSUME NEW c \in Commands, Forget(c)
        PROVE  s \in snapshots'
    <3>1. job[c].project \in Projects
      BY <1>1, <2>2 DEF Forget, BackupInv, CommandInv, WorkInv
    <3> PICK q \in Projects : q = job[c].project
      BY <3>1
    <3>2. {t \in snapshots : t.at > s.at /\ Tagged(t, q) /\ SamePaths(s, t)} = {}
      <4> SUFFICES ASSUME NEW t \in snapshots, t.at > s.at, SamePaths(s, t)
                   PROVE  FALSE
        OBVIOUS
      <4>1. t.at \in Nat /\ s.at \in Nat
        BY <1>1, <2>1 DEF BackupInv, TypesInv, RepositoryInv
      <4>2. t.at <= s.at
        BY <2>1, <4>1 DEF SamePaths
      <4> QED
        BY <4>1, <4>2
    <3>3. Keep(q) \in Nat \ {0}
      BY InstancesAssumption DEF Keep
    <3>4. ~Expired(q, s)
      BY <3>2, <3>3, FS_EmptySet DEF Expired
    <3>5. snapshots' = {t \in snapshots : ~Expired(q, t)}
      BY <2>2 DEF Forget
    <3> QED
      BY <2>1, <3>4, <3>5
  <2>3. CASE \A c \in Commands : ~Forget(c)
    <3>1. snapshots \subseteq snapshots'
      BY <1>1, <2>3, ZenonT(60) DEF Next, vars, repo, Write, Create, MakeStaging, DumpPostgres, SaveRedis,
         SaveRefused, CopyRedis,
         DumpFails, Restic, ResticFails, Prune, ForgetFails, BackupInstance, DumpToFile,
         CopyRedisToFile, BackupInstanceFails, Flush, Restore, SafetyDump, SafetyFails, Apply,
         ApplyFails, Replace, NoInput, Die
    <3> QED
      BY <2>1, <3>1
  <2> QED
    BY <2>2, <2>3
<1>2. BackupInv /\ [Next]_vars => [\A p \in Projects : Newest(p) \subseteq snapshots']_vars
  BY <1>1
<1> QED
  BY <1>2, BackupInvariance, PTL DEF Spec, PruneKeepsNewest
=============================================================================
