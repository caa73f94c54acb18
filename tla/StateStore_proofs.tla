---------------------------- MODULE StateStore_proofs ----------------------------
(***************************************************************************)
(* Proofs about StateStore, for any number of processes, owners and        *)
(* targets, any range of host ports and any hash of keys into it.          *)
(***************************************************************************)
EXTENDS StateStore, TLAPS, WellFoundedInduction

-----------------------------------------------------------------------------
(* The inductive invariant.                                                  *)

\* The steps p takes inside its write transaction.
InTxn(p) ==
    \/ pc[p] \in {"migrate", "delete_row", "delete_ports", "commit"}
    \/ pc[p] \in {"lookup", "used", "assign"} /\ req[p].kind = "allocate"

\* Only the process that holds the lock is inside of a write transaction.
LockInv == \A p \in Procs : InTxn(p) => lock = p

\* A process is only at steps of its operation, and has no result before the end.
KindOf(p) ==
    /\ pc[p] \in {"migrate_begin", "migrate"} => req[p].kind # "plan"
    /\ pc[p] = "row" => req[p].kind \in {"put", "setStatus"}
    /\ pc[p] \in {"begin", "commit"} => req[p].kind \in {"allocate", "delete"}
    /\ pc[p] \in {"lookup", "used", "assign"} => req[p].kind \in {"allocate", "plan"}
    /\ pc[p] \in {"delete_row", "delete_ports"} => req[p].kind = "delete"
    /\ pc[p] = "idle" => req[p] = Nil
    /\ pc[p] \notin {"idle", "done"} => req[p].result = "none"

KindInv == \A p \in Procs : KindOf(p)

\* Both copies of the database have the tables of their version and no port twice.
SchemaInv == \A db \in {disk, work} : db.tables = TablesOf(db.version) /\ Injective(db.ports)

\* What an open transaction at step l of a request r may have changed, in its
\* copy w of the database d.  An allocation knows at least the ports it sees, only
\* has to find ports for new targets, and assigns nothing that was not asked for.
TxnAt(l, r, w, d) ==
    /\ l = "used" => \A t \in r.want : r.got[t] = w.ports[r.owner, t]
    /\ l = "assign" => /\ UsedPorts(w) \subseteq r.used /\ r.todo \subseteq r.want
                       /\ \A t \in r.todo : w.ports[r.owner, t] = Nil
    /\ l \in {"migrate", "delete_row", "lookup", "used"} => w.ports = d.ports /\ w.rows = d.rows
    /\ l = "delete_ports" => w.ports = d.ports
    /\ l = "commit" /\ r.kind = "delete" =>
         w.ports = [k \in Keys |-> IF k[1] = r.owner THEN Nil ELSE d.ports[k]]
    /\ l \in {"delete_ports", "commit"} /\ r.kind = "delete" =>
         w.rows = [d.rows EXCEPT ![r.owner] = Nil]
    /\ l = "commit" /\ r.kind = "allocate" => r.todo = {}
    /\ l \in {"assign", "commit"} /\ r.kind = "allocate" =>
         /\ w.rows = d.rows
         /\ \A k \in Keys : (k \notin {r.owner} \X r.want \/ d.ports[k] # Nil)
                             => w.ports[k] = d.ports[k]
         /\ \A t \in r.want \ r.todo : w.ports[r.owner, t] # Nil

TxnOf(p) == TxnAt(pc[p], req[p], work, disk)

TxnInv == \A p \in Procs : InTxn(p) => TxnOf(p)

\* The results of an operation are those the two properties allow.
ResultOf(p) ==
    req[p] # Nil =>
        /\ req[p].result # "conflict"
        /\ req[p].result = "exhausted" => req[p].used = HostPorts

ResultInv == \A p \in Procs : ResultOf(p)

IInv == TypeOK /\ LockInv /\ KindInv /\ SchemaInv /\ TxnInv /\ ResultInv

-----------------------------------------------------------------------------
(* The choice of a port.                                                     *)

\* A set of natural numbers has a smallest element: what First returns, and the
\* probe NextAvailable stops at.
LEMMA LeastElement ==
    ASSUME NEW S, S \subseteq Nat, S # {}
    PROVE  \E t \in S : \A u \in S : t <= u
<1> DEFINE Less == {ss \in Nat \X Nat : ss[1] < ss[2]}
<1>1. IsWellFoundedOn(Less, Nat)
  BY NatLessThanWellFounded DEF OpToRel
<1> HIDE DEF Less
<1>2. PICK t \in S : \A u \in S : ~ (<<u, t>> \in Less)
  BY <1>1, WFMin
<1>3. \A u \in S : ~ (u < t)
  BY <1>2 DEF Less
<1> QED
  BY <1>3

\* First returns an element of a set of targets.
LEMMA FirstIsElement ==
    ASSUME NEW S \in SUBSET Targets, S # {}
    PROVE  First(S) \in S
<1>1. \E t \in S : \A u \in S : t <= u
  BY LeastElement, TargetsAssumption
<1> QED
  BY <1>1 DEF First

\* A probe stays in the managed range.
LEMMA ProbeInRange ==
    ASSUME NEW c \in HostPorts, NEW i \in 0..(PortEnd - PortStart)
    PROVE  Probe(c, i) \in HostPorts
  BY RangeAssumption DEF Probe, HostPorts

\* Every port of the range is one of the probes.
LEMMA ProbesCoverRange ==
    ASSUME NEW c \in HostPorts, NEW h \in HostPorts
    PROVE  \E i \in 0..(PortEnd - PortStart) : Probe(c, i) = h
<1>1. CASE h >= c
  <2>1. h - c \in 0..(PortEnd - PortStart) /\ Probe(c, h - c) = h
    BY <1>1, RangeAssumption DEF Probe, HostPorts
  <2> QED
    BY <2>1
<1>2. CASE h < c
  <2> DEFINE i == h - c + (PortEnd - PortStart + 1)
  <2>1. i \in 0..(PortEnd - PortStart) /\ Probe(c, i) = h
    BY <1>2, RangeAssumption DEF Probe, HostPorts
  <2> QED
    BY <2>1
<1> QED
  BY <1>1, <1>2, RangeAssumption DEF HostPorts

\* NextAvailable returns a free port of the range, or Nil when none is free.
LEMMA NextAvailableIsFree ==
    ASSUME NEW c \in HostPorts, NEW used \in SUBSET HostPorts
    PROVE  /\ NextAvailable(c, used) \in (HostPorts \ used) \cup {Nil}
           /\ NextAvailable(c, used) = Nil => used = HostPorts
<1> DEFINE F == FreeProbes(c, used)
<1>1. F \subseteq 0..(PortEnd - PortStart)
  BY DEF FreeProbes
<1>2. CASE F = {}
  <2>1. \A h \in HostPorts : h \in used
    <3> SUFFICES ASSUME NEW h \in HostPorts PROVE h \in used
      OBVIOUS
    <3>1. PICK i \in 0..(PortEnd - PortStart) : Probe(c, i) = h
      BY ProbesCoverRange
    <3> QED
      BY <3>1, <1>2 DEF FreeProbes
  <2> QED
    BY <2>1, <1>2 DEF NextAvailable
<1>3. CASE F # {}
  <2> DEFINE i == CHOOSE i \in F : \A j \in F : i <= j
  <2>1. F \subseteq Nat
    BY <1>1, RangeAssumption
  <2>2. i \in F
    BY <2>1, <1>3, LeastElement
  <2>3. NextAvailable(c, used) = Probe(c, i)
    BY <1>3 DEF NextAvailable
  <2>4. Probe(c, i) \in HostPorts \ used
    BY <2>2, ProbeInRange DEF FreeProbes
  <2>5. Nil \notin HostPorts
    BY NilAssumption
  <2> QED
    BY <2>3, <2>4, <2>5
<1> QED
  BY <1>2, <1>3

-----------------------------------------------------------------------------
(* Type correctness.                                                         *)

\* A process in the middle of an operation has its request.
LEMMA RequestType ==
    ASSUME TypeOK, NEW p \in Procs, pc[p] # "idle"
    PROVE  req[p] \in Requests
  BY DEF TypeOK

\* The initial databases are well typed.
LEMMA InitTypeOK == Init => TypeOK
<1> SUFFICES ASSUME Init PROVE TypeOK
  OBVIOUS
<1>1. PICK v \in 0..1, f \in [Keys -> HostPorts \cup {Nil}] :
        disk = [version |-> v, tables |-> TablesOf(v), ports |-> f, rows |-> [o \in Owners |-> Nil]]
  BY DEF Init
<1>2. disk \in Databases
  BY <1>1 DEF Databases, TablesOf, schemaVersion
<1> QED
  BY <1>2 DEF Init, TypeOK, Steps

\* Every step keeps the types.
LEMMA NextTypeOK == TypeOK /\ [Next]_vars => TypeOK'
<1> SUFFICES ASSUME TypeOK, [Next]_vars PROVE TypeOK'
  OBVIOUS
<1>1. CASE UNCHANGED vars
  BY <1>1 DEF vars, TypeOK
<1> USE DEF At, Goto, Finish, RollBack
<1>2. ASSUME NEW p \in Procs, NEW kind \in {"allocate", "plan", "put", "setStatus", "delete"},
             NEW o \in Owners, NEW W \in SUBSET Targets, Start(p, kind, o, W)
      PROVE  TypeOK'
  <2>1. [kind |-> kind, owner |-> o, want |-> W, todo |-> {},
         got |-> [t \in Targets |-> Nil], used |-> {}, result |-> "none"] \in Requests
    BY DEF Requests
  <2>2. req' \in [Procs -> Requests \cup {Nil}] /\ req'[p] # Nil
    BY <1>2, <2>1, NilAssumption DEF Start, TypeOK
  <2> QED
    BY <1>2, <2>2 DEF Start, TypeOK, Steps
<1>3. ASSUME NEW p \in Procs, NEW r \in {"ok", "busy", "conflict", "exhausted", "missing", "unsupported"},
             Finish(p, r), pc[p] # "idle"
      PROVE  /\ pc' \in [Procs -> Steps]
             /\ req' \in [Procs -> Requests \cup {Nil}]
             /\ \A q \in Procs : pc'[q] # "idle" => req'[q] # Nil
  <2>1. [req[p] EXCEPT !.result = r] \in Requests
    BY <1>3, RequestType DEF Requests
  <2> QED
    BY <1>3, <2>1, NilAssumption DEF TypeOK, Steps
<1>4. ASSUME NEW p \in Procs, NEW l \in Steps \ {"idle"}, Goto(p, l), pc[p] # "idle", UNCHANGED req
      PROVE  /\ pc' \in [Procs -> Steps]
             /\ \A q \in Procs : pc'[q] # "idle" => req'[q] # Nil
  BY <1>4 DEF TypeOK
<1>6. ASSUME NEW p \in Procs, Opening(p)
      PROVE  TypeOK'
  <2>1. Opened(p) \in Steps \ {"idle"}
    <3>1. req[p] \in Requests
      BY <1>6, RequestType DEF Opening, OpenStore, BeginMigration, Migrate, Begin
    <3> QED
      BY <3>1 DEF Opened, Steps, Requests
  <2>2. CASE OpenStore(p)
    <3>1. pc[p] # "idle" /\ UNCHANGED <<disk, work, lock>>
      BY <2>2 DEF OpenStore
    <3>2. \/ Finish(p, "unsupported")
          \/ \E l \in Steps \ {"idle"} : Goto(p, l) /\ UNCHANGED req
      BY <2>1, <2>2 DEF OpenStore, Steps
    <3> QED
      BY <3>1, <3>2, <1>3, <1>4 DEF TypeOK
  <2>3. CASE BeginMigration(p)
    <3>1. pc[p] # "idle" /\ "migrate" \in Steps \ {"idle"} /\ BeginImmediate(p, "migrate")
      BY <2>3 DEF BeginMigration, Steps
    <3> QED
      BY <3>1, <1>3, <1>4 DEF BeginImmediate, TypeOK
  <2>4. CASE Begin(p)
    <3>1. PICK next \in Steps \ {"idle"} : pc[p] # "idle" /\ BeginImmediate(p, next)
      BY <2>4 DEF Begin, Steps
    <3> QED
      BY <3>1, <1>3, <1>4 DEF BeginImmediate, TypeOK
  <2>5. CASE Migrate(p)
    <3>1. CASE work.version = schemaVersion
      BY <2>5, <3>1, <2>1, <1>4 DEF Migrate, TypeOK, Steps
    <3>2. CASE work.version # schemaVersion
      <4>1. CASE pc[p] # "idle" /\ RollBack(p, "conflict")
        BY <4>1, <1>3 DEF TypeOK
      <4>2. ASSUME NEW table \in Tables,
                   work' = [work EXCEPT !.tables = @ \cup {table}, !.version = @ + 1],
                   UNCHANGED <<disk, lock, pc, req>>
            PROVE  TypeOK'
        <5>1. work.version + 1 \in 0..schemaVersion
          BY <3>2 DEF TypeOK, Databases, schemaVersion
        <5>2. work.tables \cup {table} \in SUBSET Tables
          BY DEF TypeOK, Databases
        <5>3. work' \in Databases
          BY <4>2, <5>1, <5>2 DEF TypeOK, Databases
        <5> QED
          BY <4>2, <5>3 DEF TypeOK
      <4> DEFINE table == IF work.version = 0 THEN "gateway_ports" ELSE "deployments"
      <4>3. table \in Tables
        BY DEF Tables
      <4>4. \/ pc[p] # "idle" /\ RollBack(p, "conflict")
            \/ /\ work' = [work EXCEPT !.tables = @ \cup {table}, !.version = @ + 1]
               /\ UNCHANGED <<disk, lock, pc, req>>
        BY <2>5, <3>2 DEF Migrate
      <4> HIDE DEF table
      <4> QED
        BY <4>1, <4>2, <4>3, <4>4
    <3> QED
      BY <3>1, <3>2
  <2> QED
    BY <1>6, <2>2, <2>3, <2>4, <2>5 DEF Opening
<1>7. ASSUME NEW p \in Procs, Allocating(p)
      PROVE  TypeOK'
  <2> DEFINE r == req[p]
  <2>1. r \in Requests
    BY <1>7, RequestType DEF Allocating, Lookup, ReadUsed, Assign, Assigned
  <2>2. View(p) \in Databases
    BY DEF View, TypeOK
  <2>3. CASE Lookup(p)
    <3> DEFINE got == [t \in Targets |-> IF t \in r.want THEN View(p).ports[r.owner, t] ELSE Nil]
    <3>1. got \in [Targets -> HostPorts \cup {Nil}]
      BY <2>1, <2>2 DEF Requests, Databases, Keys
    <3>2. [r EXCEPT !.got = got] \in Requests
      BY <2>1, <3>1 DEF Requests
    <3> QED
      BY <2>3, <3>2, NilAssumption DEF Lookup, TypeOK, Steps
  <2>4. CASE ReadUsed(p)
    <3>1. UsedPorts(View(p)) \in SUBSET HostPorts
      BY <2>2 DEF UsedPorts, Databases
    <3>2. [r EXCEPT !.used = UsedPorts(View(p)), !.todo = {t \in r.want : r.got[t] = Nil}] \in Requests
      BY <2>1, <3>1 DEF Requests
    <3> QED
      BY <2>4, <3>2, NilAssumption DEF ReadUsed, TypeOK, Steps
  <2>5. CASE Assign(p)
    <3> DEFINE t == First(r.todo)
               port == NextAvailable(Candidate[r.owner, t], r.used)
               assigned == [r EXCEPT !.got = [r.got EXCEPT ![t] = port],
                                     !.used = r.used \cup {port},
                                     !.todo = r.todo \ {t}]
    <3>1. t \in Targets /\ <<r.owner, t>> \in Keys
      BY <2>1, <2>5, FirstIsElement DEF Assign, Requests, Keys
    <3>2. port \in HostPorts \cup {Nil}
      BY <2>1, <3>1, NextAvailableIsFree, CandidateAssumption DEF Requests
    <3>3. CASE port = Nil
      <4>1. pc[p] # "idle" /\ Finish(p, "exhausted") /\ UNCHANGED <<disk, work>> /\ lock' \in {lock, Nil}
        BY <2>5, <3>3 DEF Assign
      <4> QED
        BY <4>1, <1>3 DEF TypeOK
    <3>4. CASE port # Nil
      <4>1. assigned \in Requests
        BY <2>1, <3>1, <3>2, <3>4 DEF Requests
      <4>2. [work EXCEPT !.ports = [@ EXCEPT ![<<r.owner, t>>] = port]] \in Databases
        BY <3>1, <3>2 DEF TypeOK, Databases
      <4>3. CASE req' = [req EXCEPT ![p] = assigned] /\ UNCHANGED <<disk, lock, pc>>
                   /\ work' \in Databases
        BY <4>1, <4>3, NilAssumption DEF TypeOK
      <4>4. CASE RollBack(p, "conflict") /\ pc[p] # "idle"
        BY <4>4, <1>3 DEF TypeOK
      <4> QED
        BY <2>5, <3>4, <4>2, <4>3, <4>4 DEF Assign, TypeOK
    <3> QED
      BY <3>3, <3>4
  <2>6. CASE Assigned(p)
    BY <2>6, <1>3, <1>4 DEF Assigned, TypeOK, Steps
  <2> QED
    BY <1>7, <2>3, <2>4, <2>5, <2>6 DEF Allocating
<1>8. ASSUME NEW p \in Procs, Commit(p)
      PROVE  TypeOK'
  BY <1>8, <1>3 DEF Commit, TypeOK
<1>9. ASSUME NEW p \in Procs, WriteRow(p)
      PROVE  TypeOK'
  <2>1. req[p] \in Requests
    BY <1>9, RequestType DEF WriteRow
  <2>2. \A st \in Statuses : [disk EXCEPT !.rows = [@ EXCEPT ![req[p].owner] = st]] \in Databases
    BY DEF TypeOK, Databases
  <2> QED
    BY <1>9, <2>2, <1>3, StatusesAssumption DEF WriteRow, TypeOK
<1>10. ASSUME NEW p \in Procs, Deleting(p)
       PROVE  TypeOK'
  <2>1. CASE DeleteRow(p)
    <3>1. [work EXCEPT !.rows = [@ EXCEPT ![req[p].owner] = Nil]] \in Databases
      BY DEF TypeOK, Databases
    <3> QED
      BY <2>1, <3>1, <1>4 DEF DeleteRow, TypeOK, Steps
  <2>2. CASE DeletePorts(p)
    <3>1. [work EXCEPT !.ports = [k \in Keys |-> IF k[1] = req[p].owner THEN Nil ELSE work.ports[k]]]
            \in Databases
      BY DEF TypeOK, Databases
    <3> QED
      BY <2>2, <3>1, <1>4 DEF DeletePorts, TypeOK, Steps
  <2> QED
    BY <1>10, <2>1, <2>2 DEF Deleting
<1>11. ASSUME NEW p \in Procs, Abort(p) \/ Return(p)
       PROVE  TypeOK'
  BY <1>11 DEF Abort, Return, TypeOK, Steps
<1> QED
  BY <1>1, <1>2, <1>6, <1>7, <1>8, <1>9, <1>10, <1>11 DEF Next, Step, Starting

-----------------------------------------------------------------------------
(* The steps a process takes.                                                *)

\* A step of one process leaves the others where they are.
LEMMA StepFrame ==
    ASSUME TypeOK, NEW p \in Procs, Step(p), NEW q \in Procs \ {p}
    PROVE  pc'[q] = pc[q] /\ req'[q] = req[q]
<1> USE DEF TypeOK, At, Goto, Finish, RollBack, BeginImmediate
<1>1. CASE Starting(p)
  BY <1>1 DEF Starting, Start
<1>2. CASE Opening(p)
  BY <1>2 DEF Opening, OpenStore, BeginMigration, Migrate, Begin
<1>3. CASE Allocating(p)
  BY <1>3 DEF Allocating, Lookup, ReadUsed, Assign, Assigned
<1>4. CASE Commit(p) \/ WriteRow(p) \/ Deleting(p)
  BY <1>4 DEF Commit, WriteRow, Deleting, DeleteRow, DeletePorts
<1>5. CASE Abort(p) \/ Return(p)
  BY <1>5 DEF Abort, Return
<1> QED
  BY <1>1, <1>2, <1>3, <1>4, <1>5 DEF Step

\* The port the next target of p may get, and the step that grants it.
NextPort(p) == NextAvailable(Candidate[req[p].owner, First(req[p].todo)], req[p].used)

Granted(p) ==
    LET r == req[p]
        t == First(r.todo)
    IN  /\ NextPort(p) \in HostPorts \ r.used
        /\ req'[p] \in Requests
        /\ req'[p].kind = r.kind /\ req'[p].owner = r.owner /\ req'[p].want = r.want
        /\ req'[p].result = r.result
        /\ req'[p].used = r.used \cup {NextPort(p)}
        /\ req'[p].got = [r.got EXCEPT ![t] = NextPort(p)]
        /\ t \in r.todo /\ req'[p].todo = r.todo \ {t}
        /\ UNCHANGED <<disk, lock, pc>>

\* An Assign step finds the range full, meets a conflict, or grants a free port.
LEMMA AssignCases ==
    ASSUME TypeOK, NEW p \in Procs, Assign(p)
    PROVE  /\ pc[p] = "assign" /\ req[p] \in Requests
           /\ <<req[p].owner, First(req[p].todo)>> \in Keys
           /\ \/ Finish(p, "exhausted") /\ req[p].used = HostPorts /\ UNCHANGED <<disk, work>>
              \/ Finish(p, "conflict") /\ UNCHANGED <<disk, work>>
                 /\ ~Planning(p) /\ NextPort(p) \in HostPorts \ req[p].used
                 /\ NextPort(p) \in UsedPorts(work)
              \/ Granted(p) /\ Planning(p) /\ work' = work
              \/ /\ Granted(p) /\ ~Planning(p) /\ NextPort(p) \notin UsedPorts(work)
                 /\ work' = [work EXCEPT !.ports =
                               [@ EXCEPT ![<<req[p].owner, First(req[p].todo)>>] = NextPort(p)]]
<1> DEFINE r == req[p]
           t == First(r.todo)
           assigned == [r EXCEPT !.got = [r.got EXCEPT ![t] = NextPort(p)],
                                 !.used = r.used \cup {NextPort(p)},
                                 !.todo = r.todo \ {t}]
<1>1. pc[p] = "assign" /\ r \in Requests
  BY RequestType DEF Assign, At
<1>2. t \in r.todo /\ t \in Targets /\ <<r.owner, t>> \in Keys
  BY <1>1, FirstIsElement DEF Assign, Requests, Keys
<1>3. /\ NextPort(p) \in (HostPorts \ r.used) \cup {Nil}
      /\ NextPort(p) = Nil => r.used = HostPorts
  BY <1>1, <1>2, NextAvailableIsFree, CandidateAssumption DEF Requests, NextPort
<1>4. CASE NextPort(p) = Nil
  BY <1>1, <1>2, <1>3, <1>4 DEF Assign, NextPort, RollBack
<1>5. CASE NextPort(p) # Nil
  <2> DEFINE write == [work EXCEPT !.ports = [@ EXCEPT ![<<r.owner, t>>] = NextPort(p)]]
  <2>1. \/ RollBack(p, "conflict") /\ ~Planning(p) /\ NextPort(p) \in UsedPorts(work)
        \/ /\ req' = [req EXCEPT ![p] = assigned] /\ UNCHANGED <<disk, lock, pc>>
           /\ \/ Planning(p) /\ work' = work
              \/ ~Planning(p) /\ NextPort(p) \notin UsedPorts(work) /\ work' = write
    BY <1>5 DEF Assign, NextPort
  <2>2. ASSUME req' = [req EXCEPT ![p] = assigned], UNCHANGED <<disk, lock, pc>>
        PROVE  Granted(p)
    <3>1. assigned \in Requests
      BY <1>1, <1>2, <1>3, <1>5 DEF Requests
    <3>2. /\ assigned.kind = r.kind /\ assigned.owner = r.owner /\ assigned.want = r.want
          /\ assigned.result = r.result /\ assigned.used = r.used \cup {NextPort(p)}
          /\ assigned.todo = r.todo \ {t} /\ assigned.got = [r.got EXCEPT ![t] = NextPort(p)]
      BY <1>1 DEF Requests
    <3>3. req'[p] = assigned
      BY <2>2 DEF TypeOK
    <3> HIDE DEF assigned
    <3> QED
      BY <1>2, <1>3, <1>5, <2>2, <3>1, <3>2, <3>3 DEF Granted
  <2> HIDE DEF assigned
  <2> QED
    BY <1>1, <1>2, <1>3, <1>5, <2>1, <2>2 DEF RollBack
<1> QED
  BY <1>4, <1>5

\* The next step of a process belongs to its operation.
LEMMA StepKind ==
    ASSUME TypeOK, NEW p \in Procs, KindOf(p), Step(p)
    PROVE  KindOf(p)'
<1> USE DEF At, Goto, Finish, RollBack, BeginImmediate, KindOf
<1>1. CASE Starting(p)
  BY <1>1 DEF TypeOK, Starting, Start
<1>2. CASE Opening(p)
  <2>1. req[p] \in Requests
    BY <1>2, RequestType DEF Opening, OpenStore, BeginMigration, Migrate, Begin
  <2>2. CASE OpenStore(p)
    BY <2>1, <2>2 DEF TypeOK, OpenStore, Opened, Planning, Requests
  <2>3. CASE Migrate(p)
    BY <2>1, <2>3 DEF TypeOK, Migrate, Opened, Requests
  <2>4. CASE BeginMigration(p) \/ Begin(p)
    BY <2>1, <2>4 DEF TypeOK, BeginMigration, Begin, Requests
  <2> QED
    BY <1>2, <2>2, <2>3, <2>4 DEF Opening
<1>3. CASE Allocating(p)
  <2>1. req[p] \in Requests
    BY <1>3, RequestType DEF Allocating, Lookup, ReadUsed, Assign, Assigned
  <2>2. CASE Lookup(p)
    BY <2>1, <2>2 DEF TypeOK, Lookup, Requests
  <2>3. CASE ReadUsed(p)
    BY <2>1, <2>3 DEF TypeOK, ReadUsed, Requests
  <2>5. CASE Assign(p)
    <3>1. CASE Finish(p, "exhausted") \/ Finish(p, "conflict")
      BY <3>1 DEF TypeOK
    <3>2. CASE Granted(p)
      BY <2>5, <3>2 DEF Granted, Assign
    <3> QED
      BY <2>5, <3>1, <3>2, AssignCases
  <2>4. CASE Assigned(p)
    BY <2>1, <2>4 DEF TypeOK, Assigned, Planning, Requests
  <2> QED
    BY <1>3, <2>2, <2>3, <2>4, <2>5 DEF Allocating
<1>4. CASE Commit(p) \/ WriteRow(p) \/ Deleting(p)
  BY <1>4 DEF TypeOK, Commit, WriteRow, Deleting, DeleteRow, DeletePorts
<1>5. CASE Abort(p) \/ Return(p)
  BY <1>5 DEF TypeOK, Abort, Return
<1> QED
  BY <1>1, <1>2, <1>3, <1>4, <1>5 DEF Step

\* Every process stays on the path of the operation it runs.
LEMMA NextKindInv == TypeOK /\ KindInv /\ [Next]_vars => KindInv'
<1> SUFFICES ASSUME TypeOK, KindInv, [Next]_vars, NEW q \in Procs
             PROVE  KindOf(q)'
  BY DEF KindInv
<1>1. CASE UNCHANGED vars
  BY <1>1 DEF vars, KindInv, KindOf
<1>2. ASSUME NEW p \in Procs, Step(p), p # q
      PROVE  KindOf(q)'
  BY <1>2, StepFrame DEF KindInv, KindOf
<1>3. ASSUME Step(q)
      PROVE  KindOf(q)'
  BY <1>3, StepKind DEF KindInv
<1> QED
  BY <1>1, <1>2, <1>3 DEF Next

-----------------------------------------------------------------------------
(* The write transactions.                                                   *)

\* A process that does not hold the lock, while another does, changes neither
\* the database nor the transaction that is open.
LEMMA Exclusion ==
    ASSUME TypeOK, LockInv, KindInv, NEW p \in Procs, Step(p), lock \notin {Nil, p}
    PROVE  UNCHANGED <<disk, work, lock>>
<1> USE DEF At, BeginImmediate, RollBack
<1>1. ~ InTxn(p)
  BY DEF LockInv
<1>2. CASE Starting(p) \/ Abort(p) \/ Return(p)
  BY <1>2 DEF Starting, Start, Abort, Return
<1>3. CASE Opening(p)
  BY <1>1, <1>3 DEF Opening, OpenStore, BeginMigration, Migrate, Begin, InTxn
<1>4. CASE Allocating(p)
  BY <1>1, <1>4 DEF Allocating, Lookup, ReadUsed, Assign, Assigned, InTxn, Planning, KindInv, KindOf
<1>5. CASE Commit(p) \/ Deleting(p) \/ WriteRow(p)
  BY <1>1, <1>5 DEF Commit, Deleting, DeleteRow, DeletePorts, WriteRow, InTxn
<1> QED
  BY <1>2, <1>3, <1>4, <1>5 DEF Step

\* The lock passes only from and to the process that takes the step, which holds
\* it as long as it is inside of its transaction.
LEMMA LockStep ==
    ASSUME TypeOK, LockInv, KindInv, NEW p \in Procs, Step(p)
    PROVE  InTxn(p)' => lock' = p
<1> USE DEF At, Goto, Finish, RollBack, BeginImmediate, InTxn
<1>1. CASE Starting(p)
  BY <1>1 DEF Starting, Start, TypeOK
<1>2. CASE Opening(p)
  <2>1. req[p] \in Requests
    BY <1>2, RequestType DEF Opening, OpenStore, BeginMigration, Migrate, Begin
  <2>2. CASE OpenStore(p)
    BY <2>1, <2>2 DEF TypeOK, OpenStore, Opened, Planning, Requests
  <2>3. CASE Migrate(p)
    BY <2>1, <2>3 DEF TypeOK, Migrate, Opened, Requests, LockInv, KindInv, KindOf
  <2>4. CASE BeginMigration(p) \/ Begin(p)
    BY <2>1, <2>4 DEF TypeOK, BeginMigration, Begin, Requests
  <2> QED
    BY <1>2, <2>2, <2>3, <2>4 DEF Opening
<1>3. CASE Allocating(p)
  <2>1. req[p] \in Requests
    BY <1>3, RequestType DEF Allocating, Lookup, ReadUsed, Assign, Assigned
  <2>2. CASE Lookup(p)
    BY <2>1, <2>2 DEF TypeOK, Lookup, Requests, LockInv
  <2>3. CASE ReadUsed(p)
    BY <2>1, <2>3 DEF TypeOK, ReadUsed, Requests, LockInv
  <2>4. CASE Assign(p)
    <3>1. CASE Finish(p, "exhausted") \/ Finish(p, "conflict")
      BY <3>1 DEF TypeOK
    <3>2. CASE Granted(p)
      BY <2>4, <3>2 DEF Granted, Assign, LockInv
    <3> QED
      BY <2>4, <3>1, <3>2, AssignCases
  <2>5. CASE Assigned(p)
    BY <2>1, <2>5 DEF TypeOK, Assigned, Planning, Requests, LockInv, KindInv, KindOf
  <2> QED
    BY <1>3, <2>2, <2>3, <2>4, <2>5 DEF Allocating
<1>4. CASE Commit(p) \/ WriteRow(p) \/ Deleting(p)
  BY <1>4 DEF TypeOK, Commit, WriteRow, Deleting, DeleteRow, DeletePorts, LockInv
<1>5. CASE Abort(p) \/ Return(p)
  BY <1>5 DEF TypeOK, Abort, Return
<1> QED
  BY <1>1, <1>2, <1>3, <1>4, <1>5 DEF Step

\* The write lock keeps belonging to the one process inside of a transaction.
LEMMA NextLockInv == TypeOK /\ LockInv /\ KindInv /\ [Next]_vars => LockInv'
<1> SUFFICES ASSUME TypeOK, LockInv, KindInv, [Next]_vars, NEW q \in Procs, InTxn(q)'
             PROVE  lock' = q
  BY DEF LockInv
<1>1. CASE UNCHANGED vars
  BY <1>1 DEF vars, LockInv, InTxn
<1>2. ASSUME NEW p \in Procs, Step(p), p # q
      PROVE  lock' = q
  <2>1. InTxn(q)
    BY <1>2, StepFrame DEF InTxn
  <2>2. lock = q
    BY <2>1 DEF LockInv
  <2> QED
    BY <1>2, <2>2, Exclusion, NilAssumption
<1>3. ASSUME Step(q)
      PROVE  lock' = q
  BY <1>3, LockStep
<1> QED
  BY <1>1, <1>2, <1>3 DEF Next

\* A port that no key has keeps an assignment injective.
LEMMA InjectiveExtends ==
    ASSUME NEW f \in [Keys -> HostPorts \cup {Nil}], Injective(f),
           NEW k \in Keys, NEW h \in HostPorts, \A l \in Keys : f[l] # h
    PROVE  Injective([f EXCEPT ![k] = h])
  BY DEF Injective

\* Releasing the keys of an owner keeps it injective.
LEMMA InjectiveReleases ==
    ASSUME NEW f \in [Keys -> HostPorts \cup {Nil}], Injective(f), NEW o
    PROVE  Injective([k \in Keys |-> IF k[1] = o THEN Nil ELSE f[k]])
  BY DEF Injective

\* A step of one process keeps both copies of the database sound.
LEMMA SchemaStep ==
    ASSUME TypeOK, SchemaInv, NEW p \in Procs, Step(p)
    PROVE  SchemaInv'
<1> DEFINE Good(db) == db.tables = TablesOf(db.version) /\ Injective(db.ports)
<1>1. Good(disk) /\ Good(work) /\ disk \in Databases /\ work \in Databases
  BY DEF SchemaInv, TypeOK
<1>2. CASE disk' \in {disk, work} /\ work' \in {disk, work}
  BY <1>1, <1>2 DEF SchemaInv
<1>3. ASSUME Good(disk'), Good(work')
      PROVE  SchemaInv'
  BY <1>3 DEF SchemaInv
<1> HIDE DEF Good
<1> USE DEF At, BeginImmediate, RollBack
<1>4. CASE Starting(p) \/ Abort(p) \/ Return(p) \/ Commit(p)
  BY <1>2, <1>4 DEF Starting, Start, Abort, Return, Commit
<1>5. CASE Opening(p)
  <2>1. CASE OpenStore(p) \/ BeginMigration(p) \/ Begin(p)
    BY <1>2, <2>1 DEF OpenStore, BeginMigration, Begin
  <2>2. CASE Migrate(p)
    <3> DEFINE table == IF work.version = 0 THEN "gateway_ports" ELSE "deployments"
               migrated == [work EXCEPT !.tables = @ \cup {table}, !.version = @ + 1]
    <3>1. CASE disk' \in {disk, work} /\ work' = work
      BY <1>2, <3>1
    <3>2. CASE disk' = disk /\ work' = migrated /\ work.version # schemaVersion
      <4>1. /\ migrated.tables = work.tables \cup {table} /\ migrated.version = work.version + 1
            /\ migrated.ports = work.ports
        BY <1>1 DEF Databases
      <4>2. work.version \in {0, 1}
        BY <1>1, <3>2 DEF Databases, schemaVersion
      <4>3. work.tables = TablesOf(work.version)
        BY <1>1 DEF Good
      <4>4. TablesOf(work.version) \cup {table} = TablesOf(work.version + 1)
        BY <4>2 DEF TablesOf, Tables
      <4> HIDE DEF migrated
      <4>5. Good(migrated)
        BY <1>1, <4>1, <4>3, <4>4 DEF Good
      <4> QED
        BY <1>1, <1>3, <3>2, <4>5
    <3> QED
      BY <2>2, <3>1, <3>2 DEF Migrate
  <2> QED
    BY <1>5, <2>1, <2>2 DEF Opening
<1>6. CASE Allocating(p)
  <2>1. CASE Lookup(p) \/ ReadUsed(p) \/ Assigned(p)
    BY <1>2, <2>1 DEF Lookup, ReadUsed, Assigned
  <2>2. CASE Assign(p)
    <3> DEFINE key == <<req[p].owner, First(req[p].todo)>>
               granted == [work EXCEPT !.ports = [@ EXCEPT ![key] = NextPort(p)]]
    <3>1. CASE UNCHANGED <<disk, work>>
      BY <1>2, <3>1
    <3>2. CASE Granted(p) /\ NextPort(p) \notin UsedPorts(work) /\ work' = granted
      <4>1. granted.ports = [work.ports EXCEPT ![key] = NextPort(p)] /\ granted.tables = work.tables
            /\ granted.version = work.version
        BY <1>1 DEF Databases
      <4>2. NextPort(p) \in HostPorts /\ disk' = disk
        BY <3>2 DEF Granted
      <4>3. \A l \in Keys : work.ports[l] # NextPort(p)
        BY <3>2, <4>2, NilAssumption DEF UsedPorts
      <4>4. key \in Keys
        BY <2>2, AssignCases
      <4> HIDE DEF key
      <4>5. work.ports \in [Keys -> HostPorts \cup {Nil}] /\ Injective(work.ports)
        BY <1>1 DEF Databases, Good
      <4>6. Injective(granted.ports)
        BY <4>1, <4>2, <4>3, <4>4, <4>5, InjectiveExtends
      <4> HIDE DEF granted
      <4>7. Good(granted)
        BY <1>1, <4>1, <4>6 DEF Good
      <4> QED
        BY <1>1, <1>3, <3>2, <4>2, <4>7
    <3> QED
      BY <2>2, <3>1, <3>2, AssignCases DEF Granted
  <2> QED
    BY <1>6, <2>1, <2>2 DEF Allocating
<1>7. CASE WriteRow(p)
  <2>1. \A rows : /\ [disk EXCEPT !.rows = rows].ports = disk.ports
                 /\ [disk EXCEPT !.rows = rows].tables = disk.tables
                 /\ [disk EXCEPT !.rows = rows].version = disk.version
    BY <1>1 DEF Databases
  <2>2. \A rows : Good([disk EXCEPT !.rows = rows])
    BY <1>1, <2>1 DEF Good
  <2>3. Good(disk') /\ work' = work
    BY <1>1, <1>7, <2>2 DEF WriteRow
  <2> QED
    BY <1>1, <1>3, <2>3
<1>8. CASE Deleting(p)
  <2>1. CASE DeleteRow(p)
    <3>1. work'.ports = work.ports /\ work'.tables = work.tables /\ work'.version = work.version
      BY <1>1, <2>1 DEF DeleteRow, Databases
    <3> QED
      BY <1>1, <1>3, <2>1, <3>1 DEF DeleteRow, Good
  <2>2. CASE DeletePorts(p)
    <3> DEFINE f == [k \in Keys |-> IF k[1] = req[p].owner THEN Nil ELSE work.ports[k]]
    <3>1. work'.ports = f /\ work'.tables = work.tables /\ work'.version = work.version
      BY <1>1, <2>2 DEF DeletePorts, Databases
    <3>2. Injective(f)
      BY <1>1, InjectiveReleases DEF Databases, Good
    <3> QED
      BY <1>1, <1>3, <2>2, <3>1, <3>2 DEF DeletePorts, Good
  <2> QED
    BY <1>8, <2>1, <2>2 DEF Deleting
<1> QED
  BY <1>4, <1>5, <1>6, <1>7, <1>8 DEF Step

\* A transaction has changed what its operation is meant to change, and no more.
LEMMA TxnStep ==
    ASSUME TypeOK, KindInv, TxnInv, NEW p \in Procs, Step(p), InTxn(p)'
    PROVE  TxnOf(p)'
<1> USE DEF At, Goto, Finish
<1>1. /\ disk \in Databases /\ work \in Databases
      /\ KindOf(p) /\ (InTxn(p) => TxnOf(p))
  BY DEF TypeOK, KindInv, TxnInv
<1>2. ~ (Starting(p) \/ OpenStore(p) \/ Commit(p) \/ WriteRow(p) \/ Abort(p) \/ Return(p))
  <2>1. ~ (Starting(p) \/ Commit(p) \/ WriteRow(p) \/ Abort(p) \/ Return(p))
    BY DEF TypeOK, InTxn, Starting, Start, Commit, WriteRow, Abort, Return
  <2>2. ASSUME OpenStore(p) PROVE FALSE
    <3>1. req[p] \in Requests
      BY <2>2, RequestType DEF OpenStore
    <3> QED
      BY <2>2, <3>1 DEF TypeOK, InTxn, OpenStore, Opened, Planning, Requests
  <2> QED
    BY <2>1, <2>2
<1>3. CASE BeginMigration(p)
  BY <1>3 DEF TypeOK, BeginMigration, BeginImmediate, InTxn, TxnOf, TxnAt
<1>4. CASE Begin(p)
  <2>1. work' = disk /\ disk' = disk /\ pc'[p] \in {"delete_row", "lookup"}
    BY <1>4 DEF TypeOK, Begin, BeginImmediate, InTxn
  <2> QED
    BY <2>1 DEF TxnOf, TxnAt
<1>5. CASE Migrate(p)
  <2>1. req[p] \in Requests
    BY <1>5, RequestType DEF Migrate
  <2>2. pc[p] = "migrate" /\ pc' = pc /\ disk' = disk
    BY <1>5, <2>1, <1>1 DEF TypeOK, Migrate, RollBack, InTxn, Opened, Requests, KindOf
  <2>3. work'.ports = work.ports /\ work'.rows = work.rows
    BY <1>5, <2>2, <1>1 DEF Migrate, RollBack, Databases
  <2> QED
    BY <1>1, <2>2, <2>3 DEF InTxn, TxnOf, TxnAt
<1>6. CASE Lookup(p)
  <2>1. req[p] \in Requests
    BY <1>6, RequestType DEF Lookup
  <2>2. /\ pc[p] = "lookup" /\ pc'[p] = "used" /\ UNCHANGED <<disk, work>>
        /\ req'[p].kind = req[p].kind /\ req'[p].owner = req[p].owner
        /\ req'[p].want = req[p].want
    BY <1>6, <2>1 DEF TypeOK, Lookup, Requests
  <2>3. View(p) = work
    BY <1>1, <2>2 DEF InTxn, View, Planning, KindOf
  <2>4. \A t \in req[p].want : req'[p].got[t] = work.ports[req[p].owner, t]
    <3> DEFINE got == [t \in Targets |-> IF t \in req[p].want THEN work.ports[req[p].owner, t] ELSE Nil]
    <3>1. req'[p].got = got
      BY <1>6, <2>1, <2>3 DEF TypeOK, Lookup, Requests
    <3> QED
      BY <2>1, <3>1 DEF Requests
  <2>5. work.ports = disk.ports /\ work.rows = disk.rows
    BY <1>1, <2>2 DEF InTxn, TxnOf, TxnAt
  <2> QED
    BY <2>2, <2>4, <2>5 DEF TxnOf, TxnAt
<1>7. CASE ReadUsed(p)
  <2>1. req[p] \in Requests
    BY <1>7, RequestType DEF ReadUsed
  <2>2. /\ pc[p] = "used" /\ pc'[p] = "assign" /\ UNCHANGED <<disk, work>>
        /\ req'[p].kind = req[p].kind /\ req'[p].used = UsedPorts(View(p))
        /\ req'[p].owner = req[p].owner /\ req'[p].want = req[p].want
        /\ req'[p].todo = {t \in req[p].want : req[p].got[t] = Nil}
    BY <1>7, <2>1 DEF TypeOK, ReadUsed, Requests
  <2>3. req[p].kind = "allocate" /\ View(p) = work
    BY <2>2 DEF InTxn, View, Planning
  <2>4. /\ work.ports = disk.ports /\ work.rows = disk.rows
        /\ \A t \in req[p].want : req[p].got[t] = work.ports[req[p].owner, t]
    BY <1>1, <2>2, <2>3 DEF InTxn, TxnOf, TxnAt
  <2>5. \A t \in req[p].want \ req'[p].todo : work.ports[req[p].owner, t] # Nil
    BY <2>2, <2>4
  <2> QED
    BY <2>2, <2>3, <2>4, <2>5 DEF TxnOf, TxnAt
<1>8. CASE Assign(p)
  <2>1. Granted(p) /\ pc[p] = "assign" /\ pc'[p] = "assign" /\ disk' = disk
    BY <1>8, AssignCases DEF TypeOK, InTxn, Granted
  <2> DEFINE key == <<req[p].owner, First(req[p].todo)>>
  <2>2. ~Planning(p)
    BY <2>1, <1>8 DEF InTxn, Planning, Granted
  <2>3. /\ work' = [work EXCEPT !.ports = [@ EXCEPT ![key] = NextPort(p)]]
        /\ key \in Keys
    BY <1>8, <2>1, <2>2, AssignCases DEF TypeOK, InTxn
  <2>4. work'.ports = [work.ports EXCEPT ![key] = NextPort(p)] /\ key[1] = req[p].owner
    BY <1>1, <2>3 DEF Databases
  <2>5. req[p].kind = "allocate" /\ req'[p].kind = "allocate" /\ req'[p].owner = req[p].owner
        /\ req'[p].used = req[p].used \cup {NextPort(p)}
    BY <1>1, <2>1, <2>2 DEF Granted, KindOf, Planning
  <2>6. TxnOf(p)
    BY <1>1, <2>1, <2>5 DEF InTxn
  <2>7. NextPort(p) \notin req[p].used /\ UsedPorts(work) \subseteq req[p].used
    BY <2>1, <2>6 DEF Granted, TxnOf, TxnAt
  <2>8. work.ports \in [Keys -> HostPorts \cup {Nil}]
    BY <1>1 DEF Databases
  <2> HIDE DEF key
  <2>9. UsedPorts(work') \subseteq req'[p].used
    BY <2>3, <2>4, <2>5, <2>7, <2>8 DEF UsedPorts
  <2>11. work.ports[key] = Nil
    BY <2>1, <2>6 DEF Granted, TxnOf, TxnAt, key
  <2>10. \A k \in Keys : (k \notin {req[p].owner} \X req[p].want \/ disk.ports[k] # Nil)
                          => work'.ports[k] = disk.ports[k]
    <3> SUFFICES ASSUME NEW k \in Keys,
                        k \notin {req[p].owner} \X req[p].want \/ disk.ports[k] # Nil
                 PROVE  work'.ports[k] = disk.ports[k]
      OBVIOUS
    <3>1. work.ports[k] = disk.ports[k]
      BY <2>1, <2>5, <2>6 DEF TxnOf, TxnAt
    <3>2. key \in {req[p].owner} \X req[p].want
      BY <2>1, <2>6 DEF Granted, TxnOf, TxnAt, key
    <3>3. k # key
      BY <2>11, <3>1, <3>2
    <3> QED
      BY <2>4, <2>8, <3>1, <3>3
  <2>12. \A t \in req'[p].todo : work'.ports[req[p].owner, t] = Nil
    <3> SUFFICES ASSUME NEW t \in req'[p].todo PROVE work'.ports[req[p].owner, t] = Nil
      OBVIOUS
    <3>1. t \in req[p].todo /\ t # First(req[p].todo)
      BY <2>1 DEF Granted
    <3>2. work.ports[req[p].owner, t] = Nil
      BY <2>1, <2>6, <3>1 DEF TxnOf, TxnAt
    <3>3. <<req[p].owner, t>> \in Keys
      BY <1>8, <3>1, AssignCases DEF Requests, Keys
    <3> QED
      BY <2>4, <2>8, <3>1, <3>2, <3>3 DEF key
  <2>13. \A t \in req[p].want \ req'[p].todo : work'.ports[req[p].owner, t] # Nil
    <3> SUFFICES ASSUME NEW t \in req[p].want \ req'[p].todo
                 PROVE  work'.ports[req[p].owner, t] # Nil
      OBVIOUS
    <3>1. NextPort(p) # Nil
      BY <2>1, NilAssumption DEF Granted
    <3>2. t = First(req[p].todo) \/ work.ports[req[p].owner, t] # Nil
      BY <2>1, <2>5, <2>6 DEF Granted, TxnOf, TxnAt
    <3>3. <<req[p].owner, t>> \in Keys
      BY <1>8, AssignCases DEF Requests, Keys
    <3> QED
      BY <2>4, <2>8, <3>1, <3>2, <3>3 DEF key
  <2>14. work'.rows = disk.rows /\ req'[p].todo \subseteq req'[p].want /\ req'[p].want = req[p].want
    <3>1. work'.rows = work.rows
      BY <1>1, <2>3 DEF Databases
    <3> QED
      BY <2>1, <2>5, <2>6, <3>1 DEF Granted, TxnOf, TxnAt
  <2> QED
    BY <2>1, <2>5, <2>9, <2>10, <2>12, <2>13, <2>14 DEF TxnOf, TxnAt
<1>9. CASE Assigned(p)
  <2>1. /\ ~Planning(p) /\ pc[p] = "assign" /\ pc'[p] = "commit" /\ UNCHANGED <<disk, work, req>>
        /\ req[p].todo = {}
    BY <1>9 DEF TypeOK, Assigned, InTxn
  <2> QED
    BY <1>1, <2>1 DEF InTxn, TxnOf, TxnAt, Planning, KindOf
<1>10. CASE DeleteRow(p)
  <2>1. pc[p] = "delete_row" /\ pc'[p] = "delete_ports" /\ UNCHANGED <<disk, req>>
    BY <1>10 DEF TypeOK, DeleteRow
  <2>2. req[p] \in Requests
    BY <2>1, RequestType
  <2>3. work'.ports = work.ports /\ work'.rows = [work.rows EXCEPT ![req[p].owner] = Nil]
    BY <1>1, <1>10, <2>2 DEF DeleteRow, Databases, Requests
  <2>4. work.ports = disk.ports /\ work.rows = disk.rows
    BY <1>1, <2>1 DEF InTxn, TxnOf, TxnAt
  <2> QED
    BY <2>1, <2>3, <2>4 DEF TxnOf, TxnAt
<1>11. CASE DeletePorts(p)
  <2>1. pc[p] = "delete_ports" /\ pc'[p] = "commit" /\ UNCHANGED <<disk, req>>
    BY <1>11 DEF TypeOK, DeletePorts
  <2>2. /\ work.ports = disk.ports /\ work.rows = [disk.rows EXCEPT ![req[p].owner] = Nil]
        /\ req[p].kind = "delete"
    BY <1>1, <2>1 DEF InTxn, TxnOf, TxnAt, KindOf
  <2>3. /\ work'.ports = [k \in Keys |-> IF k[1] = req[p].owner THEN Nil ELSE work.ports[k]]
        /\ work'.rows = work.rows
    BY <1>1, <1>11 DEF DeletePorts, Databases
  <2> QED
    BY <2>1, <2>2, <2>3 DEF TxnOf, TxnAt
<1> QED
  BY <1>2, <1>3, <1>4, <1>5, <1>6, <1>7, <1>8, <1>9, <1>10, <1>11
     DEF Step, Opening, Allocating, Deleting

\* No step of another process disturbs what a transaction has read and written.
LEMMA NextTxnInv == TypeOK /\ LockInv /\ KindInv /\ TxnInv /\ [Next]_vars => TxnInv'
<1> SUFFICES ASSUME TypeOK, LockInv, KindInv, TxnInv, [Next]_vars, NEW q \in Procs, InTxn(q)'
             PROVE  TxnOf(q)'
  BY DEF TxnInv
<1>1. CASE UNCHANGED vars
  BY <1>1 DEF vars, TxnInv, TxnOf, InTxn
<1>2. ASSUME NEW p \in Procs, Step(p), p # q
      PROVE  TxnOf(q)'
  <2>1. pc'[q] = pc[q] /\ req'[q] = req[q]
    BY <1>2, StepFrame
  <2>2. InTxn(q) /\ TxnOf(q) /\ lock = q
    BY <2>1 DEF InTxn, TxnInv, LockInv
  <2>3. UNCHANGED <<disk, work>>
    BY <1>2, <2>2, Exclusion, NilAssumption
  <2> QED
    BY <2>1, <2>2, <2>3 DEF TxnOf
<1>3. ASSUME Step(q)
      PROVE  TxnOf(q)'
  BY <1>3, TxnStep
<1> QED
  BY <1>1, <1>2, <1>3 DEF Next

\* No step reports a conflict, or a range that is exhausted and is not.
LEMMA ResultStep ==
    ASSUME TypeOK, KindInv, SchemaInv, TxnInv, ResultInv, NEW p \in Procs, Step(p)
    PROVE  ResultOf(p)'
<1> USE DEF At, Goto, RollBack
<1>1. KindOf(p)' /\ KindOf(p) /\ ResultOf(p) /\ (InTxn(p) => TxnOf(p))
  BY StepKind DEF KindInv, ResultInv, TxnInv
<1>2. CASE pc'[p] # "done"
  <2>1. req'[p] # Nil => req'[p].result = "none"
    BY <1>1, <1>2 DEF KindOf
  <2> QED
    BY <2>1 DEF ResultOf
<1>3. ASSUME NEW r \in {"ok", "busy", "missing", "unsupported"}, Finish(p, r), pc[p] # "idle"
      PROVE  ResultOf(p)'
  <2>1. req[p] \in Requests
    BY <1>3, RequestType
  <2>2. req'[p].result = r
    BY <1>3, <2>1 DEF TypeOK, Finish, Requests
  <2> QED
    BY <2>2 DEF ResultOf
<1>4. CASE Assign(p)
  <2>1. CASE Finish(p, "exhausted") /\ req[p].used = HostPorts
    <3>1. req[p] \in Requests
      BY <1>4, AssignCases
    <3>2. req'[p].result = "exhausted" /\ req'[p].used = HostPorts
      BY <2>1, <3>1 DEF TypeOK, Finish, Requests
    <3> QED
      BY <3>2 DEF ResultOf
  <2>2. CASE ~Planning(p) /\ NextPort(p) \in HostPorts \ req[p].used /\ NextPort(p) \in UsedPorts(work)
    <3>1. pc[p] = "assign" /\ req[p].kind = "allocate"
      BY <1>1, <1>4, <2>2 DEF Assign, Planning, KindOf
    <3>2. UsedPorts(work) \subseteq req[p].used
      BY <1>1, <3>1 DEF InTxn, TxnOf, TxnAt
    <3> QED
      BY <2>2, <3>2
  <2>3. CASE Granted(p)
    BY <1>1, <1>4, <2>3 DEF Granted, Assign, KindOf, ResultOf
  <2> QED
    BY <1>4, <2>1, <2>2, <2>3, AssignCases
<1>5. CASE Migrate(p) /\ pc'[p] = "done"
  <2> DEFINE table == IF work.version = 0 THEN "gateway_ports" ELSE "deployments"
  <2>1. req[p] \in Requests
    BY <1>5, RequestType DEF Migrate
  <2>2. work.version # schemaVersion /\ table \in work.tables
    BY <1>5, <2>1, <1>1 DEF Migrate, TypeOK, Opened, Requests, KindOf
  <2>3. work.version \in {0, 1} /\ work.tables = TablesOf(work.version)
    BY <2>2 DEF TypeOK, Databases, schemaVersion, SchemaInv
  <2> QED
    BY <2>2, <2>3 DEF TablesOf
<1>6. CASE pc'[p] = "done" /\ ~Assign(p) /\ ~Migrate(p)
  <2>1. \E r \in {"ok", "busy", "missing", "unsupported"} : Finish(p, r) /\ pc[p] # "idle"
    <3>1. CASE OpenStore(p)
      <4>1. Opened(p) # "done"
        BY <3>1, RequestType DEF Opened, OpenStore, Requests
      <4> QED
        BY <1>6, <3>1, <4>1 DEF OpenStore, TypeOK
    <3>2. CASE BeginMigration(p) \/ Begin(p)
      BY <1>6, <3>2 DEF BeginMigration, Begin, BeginImmediate, TypeOK
    <3>3. CASE Lookup(p) \/ ReadUsed(p) \/ Assigned(p)
      BY <1>6, <3>3 DEF Lookup, ReadUsed, Assigned, TypeOK
    <3>4. CASE Commit(p) \/ WriteRow(p)
      BY <1>6, <3>4 DEF Commit, WriteRow, TypeOK
    <3>5. CASE Deleting(p) \/ Starting(p) \/ Abort(p) \/ Return(p)
      BY <1>6, <3>5 DEF Deleting, DeleteRow, DeletePorts, Starting, Start, Abort, Return, TypeOK
    <3> QED
      BY <1>6, <3>1, <3>2, <3>3, <3>4, <3>5 DEF Step, Opening, Allocating
  <2> QED
    BY <2>1, <1>3
<1> QED
  BY <1>2, <1>4, <1>5, <1>6

\* What an operation has returned stays true of what it has read.
LEMMA NextResultInv ==
    TypeOK /\ KindInv /\ SchemaInv /\ TxnInv /\ ResultInv /\ [Next]_vars => ResultInv'
<1> SUFFICES ASSUME TypeOK, KindInv, SchemaInv, TxnInv, ResultInv, [Next]_vars, NEW q \in Procs
             PROVE  ResultOf(q)'
  BY DEF ResultInv
<1>1. CASE UNCHANGED vars
  BY <1>1 DEF vars, ResultInv, ResultOf
<1>2. ASSUME NEW p \in Procs, Step(p), p # q
      PROVE  ResultOf(q)'
  BY <1>2, StepFrame DEF ResultInv, ResultOf
<1>3. ASSUME Step(q)
      PROVE  ResultOf(q)'
  BY <1>3, ResultStep
<1> QED
  BY <1>1, <1>2, <1>3 DEF Next

-----------------------------------------------------------------------------
(* The theorems.                                                             *)

\* The inductive invariant holds of a new file and of a database to migrate.
LEMMA InitIInv == Init => IInv
<1> SUFFICES ASSUME Init PROVE IInv
  OBVIOUS
<1>1. TypeOK
  BY InitTypeOK
<1>2. LockInv /\ KindInv /\ TxnInv /\ ResultInv
  BY DEF Init, LockInv, KindInv, KindOf, TxnInv, InTxn, ResultInv, ResultOf
<1>3. SchemaInv
  <2>1. PICK v \in 0..1, f \in [Keys -> HostPorts \cup {Nil}] :
          /\ Injective(f)
          /\ disk = [version |-> v, tables |-> TablesOf(v), ports |-> f, rows |-> [o \in Owners |-> Nil]]
    BY DEF Init
  <2>2. disk.tables = TablesOf(disk.version) /\ disk.ports = f
    BY <2>1
  <2>3. work = disk
    BY DEF Init
  <2> QED
    BY <2>1, <2>2, <2>3 DEF SchemaInv
<1> QED
  BY <1>1, <1>2, <1>3 DEF IInv

\* Every step keeps the inductive invariant.
LEMMA NextIInv == IInv /\ [Next]_vars => IInv'
<1> SUFFICES ASSUME IInv, [Next]_vars PROVE IInv'
  OBVIOUS
<1>1. SchemaInv'
  <2>1. CASE UNCHANGED vars
    BY <2>1 DEF vars, IInv, SchemaInv
  <2>2. CASE Next
    BY <2>2, SchemaStep DEF IInv, Next
  <2> QED
    BY <2>1, <2>2
<1> QED
  BY <1>1, NextTypeOK, NextLockInv, NextKindInv, NextTxnInv, NextResultInv DEF IInv

\* The inductive invariant holds throughout.
THEOREM Invariance == Spec => []IInv
  BY InitIInv, NextIInv, PTL DEF Spec

\* The database, the locks and the requests keep their types.
THEOREM TypeCorrect == Spec => []TypeOK
<1>1. IInv => TypeOK
  BY DEF IInv
<1> QED
  BY <1>1, Invariance, PTL

\* Whatever number of processes allocates, deletes and migrates, and wherever they
\* are aborted, no two keys ever have the same host port (state-v1.md:28-29).
THEOREM PortsUnique == Spec => []UniqueHostPorts
<1>1. IInv => UniqueHostPorts
  BY DEF IInv, SchemaInv, UniqueHostPorts
<1> QED
  BY <1>1, Invariance, PTL

\* A statement of a transaction never meets a row or a table it did not expect.
THEOREM ConflictNever == Spec => []NoConflict
<1>1. IInv => NoConflict
  BY DEF IInv, ResultInv, ResultOf, NoConflict
<1> QED
  BY <1>1, Invariance, PTL

\* The probe gives up only after it has seen every port of the range taken.
THEOREM ExhaustionIsReal == Spec => []ExhaustedOnlyWhenFull
<1>1. IInv => ExhaustedOnlyWhenFull
  BY DEF IInv, ResultInv, ResultOf, ExhaustedOnlyWhenFull
<1> QED
  BY <1>1, Invariance, PTL

\* A commit of an allocation assigns all it asked for, and nothing else.
Grants(p) ==
    /\ pc[p] = "commit" /\ req[p].kind = "allocate" /\ Finish(p, "ok")
    /\ disk'.rows = disk.rows
    /\ \A t \in req[p].want : disk'.ports[req[p].owner, t] # Nil
    /\ \A k \in Keys : (k \notin {req[p].owner} \X req[p].want \/ disk.ports[k] # Nil)
                        => disk'.ports[k] = disk.ports[k]

\* A commit of a deletion takes away all the owner has, and nothing else.
Releases(p) ==
    /\ pc[p] = "commit" /\ req[p].kind = "delete" /\ Finish(p, "ok")
    /\ disk'.rows = [disk.rows EXCEPT ![req[p].owner] = Nil]
    /\ disk'.ports = [k \in Keys |-> IF k[1] = req[p].owner THEN Nil ELSE disk.ports[k]]

\* A statement on the deployments table writes the owner's row.
Records(p) ==
    /\ pc[p] = "row" /\ req[p].kind \in {"put", "setStatus"} /\ Finish(p, "ok")
    /\ req[p].kind = "setStatus" => disk.rows[req[p].owner] # Nil
    /\ disk'.ports = disk.ports
    /\ \E st \in Statuses : disk'.rows = [disk.rows EXCEPT ![req[p].owner] = st]

\* What a step makes of the committed assignments and rows: nothing, or one of those.
LEMMA DiskStep ==
    ASSUME IInv, NEW p \in Procs, Step(p)
    PROVE  \/ disk'.ports = disk.ports /\ disk'.rows = disk.rows
           \/ req[p] \in Requests /\ (Grants(p) \/ Releases(p) \/ Records(p))
<1> USE DEF At, BeginImmediate, RollBack
<1>1. CASE Starting(p) \/ Allocating(p) \/ Deleting(p) \/ Abort(p) \/ Return(p)
  <2>1. Assign(p) => disk' = disk
    BY AssignCases DEF IInv, Granted
  <2> QED
    BY <1>1, <2>1 DEF Starting, Start, Allocating, Lookup, ReadUsed, Assigned, Deleting, DeleteRow,
                      DeletePorts, Abort, Return
<1>2. CASE Opening(p)
  <2>1. CASE OpenStore(p) \/ BeginMigration(p) \/ Begin(p)
    BY <2>1 DEF OpenStore, BeginMigration, Begin
  <2>2. CASE Migrate(p)
    <3>1. work.ports = disk.ports /\ work.rows = disk.rows
      BY <2>2 DEF Migrate, IInv, TxnInv, InTxn, TxnOf, TxnAt
    <3> QED
      BY <2>2, <3>1 DEF Migrate
  <2> QED
    BY <1>2, <2>1, <2>2 DEF Opening
<1>3. CASE Commit(p)
  <2>1. req[p] \in Requests
    BY <1>3, RequestType DEF Commit, IInv
  <2>2. pc[p] = "commit" /\ disk' = work /\ Finish(p, "ok") /\ req[p].kind \in {"allocate", "delete"}
    BY <1>3 DEF Commit, IInv, KindInv, KindOf
  <2>3. TxnOf(p)
    BY <2>2 DEF IInv, TxnInv, InTxn
  <2>4. CASE req[p].kind = "allocate"
    <3>1. /\ work.rows = disk.rows /\ \A t \in req[p].want : work.ports[req[p].owner, t] # Nil
          /\ \A k \in Keys : (k \notin {req[p].owner} \X req[p].want \/ disk.ports[k] # Nil)
                              => work.ports[k] = disk.ports[k]
      BY <2>2, <2>3, <2>4 DEF TxnOf, TxnAt
    <3> QED
      BY <2>1, <2>2, <2>4, <3>1 DEF Grants
  <2>5. CASE req[p].kind = "delete"
    BY <2>1, <2>2, <2>3, <2>5 DEF TxnOf, TxnAt, Releases
  <2> QED
    BY <2>2, <2>4, <2>5
<1>4. CASE WriteRow(p)
  <2>1. \A st : /\ [disk EXCEPT !.rows = [@ EXCEPT ![req[p].owner] = st]].ports = disk.ports
                /\ [disk EXCEPT !.rows = [@ EXCEPT ![req[p].owner] = st]].rows
                     = [disk.rows EXCEPT ![req[p].owner] = st]
    BY DEF IInv, TypeOK, Databases
  <2>2. req[p] \in Requests /\ pc[p] = "row" /\ req[p].kind \in {"put", "setStatus"}
    BY <1>4, RequestType DEF WriteRow, IInv, KindInv, KindOf
  <2>3. CASE disk' = disk
    BY <2>3
  <2>4. CASE disk' # disk
    <3>1. PICK st \in Statuses :
            /\ req[p].kind = "setStatus" => disk.rows[req[p].owner] # Nil
            /\ disk' = [disk EXCEPT !.rows = [@ EXCEPT ![req[p].owner] = st]]
            /\ Finish(p, "ok")
      BY <1>4, <2>4, StatusesAssumption DEF WriteRow
    <3> QED
      BY <2>1, <2>2, <3>1 DEF Records
  <2> QED
    BY <2>3, <2>4
<1> QED
  BY <1>1, <1>2, <1>3, <1>4 DEF Step

\* A deletion takes an owner's assignments and its deployment away in one step, and
\* nothing else ever changes a committed assignment (state-v1.md:33, 51-53).
THEOREM AssignmentsStable == Spec => StableUntilDeleted
<1> DEFINE Stable ==
      \A k \in Keys : (disk.ports[k] # Nil /\ disk'.ports[k] # disk.ports[k])
                        => /\ disk'.rows[k[1]] = Nil
                           /\ \A t \in Targets : disk'.ports[k[1], t] = Nil
<1>1. IInv /\ [Next]_vars => [Stable]_vars
  <2> SUFFICES ASSUME IInv, NEW p \in Procs, Step(p) PROVE Stable
    BY DEF Next
  <2> DEFINE o == req[p].owner
  <2>1. CASE Releases(p) /\ o \in Owners
    <3>1. /\ disk'.ports = [k \in Keys |-> IF k[1] = o THEN Nil ELSE disk.ports[k]]
          /\ disk'.rows = [disk.rows EXCEPT ![o] = Nil]
      BY <2>1 DEF Releases
    <3>2. disk'.rows[o] = Nil
      BY <2>1, <3>1 DEF IInv, TypeOK, Databases
    <3> SUFFICES ASSUME NEW k \in Keys, disk'.ports[k] # disk.ports[k]
                 PROVE  /\ disk'.rows[k[1]] = Nil
                        /\ \A t \in Targets : disk'.ports[k[1], t] = Nil
      OBVIOUS
    <3>3. k[1] = o
      BY <3>1
    <3>4. \A t \in Targets : <<o, t>> \in Keys
      BY <2>1 DEF Keys
    <3> QED
      BY <3>1, <3>2, <3>3, <3>4
  <2>2. CASE Grants(p) \/ Records(p) \/ disk'.ports = disk.ports
    BY <2>2 DEF Grants, Records
  <2>3. req[p] \in Requests => o \in Owners
    BY DEF Requests
  <2> QED
    BY <2>1, <2>2, <2>3, DiskStep
<1> QED
  BY <1>1, Invariance, PTL DEF Spec, StableUntilDeleted

\* A step of a process leaves its operation and its arguments as they are, unless it
\* begins or ends.
LEMMA StepRequest ==
    ASSUME TypeOK, NEW p \in Procs, Step(p), req'[p] # Nil, pc[p] # "idle"
    PROVE  /\ req[p] \in Requests /\ req'[p].kind = req[p].kind /\ req'[p].owner = req[p].owner
           /\ req'[p].want = req[p].want
<1> USE DEF At, Goto, Finish, RollBack, BeginImmediate
<1>1. req[p] \in Requests
  BY RequestType
<1>2. ASSUME NEW r, req' = [req EXCEPT ![p].result = r]
      PROVE  /\ req'[p].kind = req[p].kind /\ req'[p].owner = req[p].owner
             /\ req'[p].want = req[p].want
  BY <1>1, <1>2 DEF TypeOK, Requests
<1>3. CASE Starting(p) \/ Abort(p) \/ Return(p)
  BY <1>3 DEF TypeOK, Starting, Start, Abort, Return
<1>4. CASE Opening(p)
  <2>1. req' = req \/ \E r : req' = [req EXCEPT ![p].result = r]
    BY <1>4 DEF Opening, OpenStore, BeginMigration, Migrate, Begin
  <2> QED
    BY <1>1, <1>2, <2>1
<1>5. CASE Lookup(p)
  BY <1>1, <1>5 DEF TypeOK, Lookup, Requests
<1>6. CASE ReadUsed(p)
  BY <1>1, <1>6 DEF TypeOK, ReadUsed, Requests
<1>7. CASE Assign(p)
  <2>1. CASE Granted(p)
    BY <1>1, <2>1 DEF Granted
  <2> QED
    BY <1>1, <1>2, <1>7, <2>1, AssignCases
<1>8. CASE Assigned(p) \/ Commit(p) \/ WriteRow(p) \/ Deleting(p)
  <2>1. req' = req \/ \E r : req' = [req EXCEPT ![p].result = r]
    BY <1>8 DEF Assigned, Commit, WriteRow, Deleting, DeleteRow, DeletePorts
  <2> QED
    BY <1>1, <1>2, <2>1
<1> QED
  BY <1>3, <1>4, <1>5, <1>6, <1>7, <1>8 DEF Step, Allocating

\* What a process waits for stays as it is, is answered, or is asked for anew.
LEMMA AskedStep ==
    ASSUME IInv, NEW p \in Procs, Step(p)
    PROVE  \/ AskedBy(p)' \in {AskedBy(p), {}}
           \/ AskedBy(p) = {} /\ AskedBy(p)' \in Abstract!Requests
<1>1. TypeOK /\ KindOf(p)
  BY DEF IInv, KindInv
<1>2. CASE req'[p] = Nil
  BY <1>2 DEF AskedBy
<1>3. CASE req'[p] # Nil /\ pc[p] = "idle"
  <2>1. Starting(p)
    BY <1>3 DEF Step, Opening, OpenStore, BeginMigration, Migrate, Begin, Allocating, Lookup, ReadUsed,
                Assign, Assigned, Commit, WriteRow, Deleting, DeleteRow, DeletePorts, Abort, Return, At
  <2>2. PICK o \in Owners, W \in SUBSET Targets :
          \E kind \in {"allocate", "plan", "put", "setStatus", "delete"} : Start(p, kind, o, W)
    BY <2>1 DEF Starting
  <2>3. req'[p].owner = o /\ req'[p].want = W
    BY <1>1, <2>2 DEF Start, TypeOK
  <2>4. AskedBy(p)' \in {{o} \X W, {}}
    BY <2>3 DEF AskedBy
  <2>5. {o} \X W \in Abstract!Requests
    BY DEF Abstract!Requests
  <2>6. AskedBy(p) = {}
    BY <1>1, <1>3 DEF KindOf, AskedBy
  <2> QED
    BY <2>4, <2>5, <2>6
<1>4. CASE req'[p] # Nil /\ pc[p] = "done"
  <2>1. Return(p)
    BY <1>4 DEF Step, Starting, Start, Opening, OpenStore, BeginMigration, Migrate, Begin, Allocating,
                Lookup, ReadUsed, Assign, Assigned, Commit, WriteRow, Deleting, DeleteRow, DeletePorts,
                Abort, At
  <2> QED
    BY <1>1, <1>4, <2>1 DEF Return, TypeOK
<1>5. CASE req'[p] # Nil /\ pc[p] \notin {"idle", "done"}
  <2>1. /\ req'[p].kind = req[p].kind /\ req'[p].owner = req[p].owner /\ req'[p].want = req[p].want
        /\ req[p] # Nil /\ req[p].result = "none"
    BY <1>1, <1>5, StepRequest, NilAssumption DEF KindOf
  <2> QED
    BY <1>5, <2>1 DEF AskedBy
<1> QED
  BY <1>2, <1>3, <1>4, <1>5

\* The database implements PortTable: its commits grant all that was asked for or
\* release all that an owner has, and its other steps ask, refuse, record or stutter.
THEOREM Implements == Spec => AbstractSpec
<1> DEFINE recorded == {o \in Owners : disk.rows[o] # Nil}
           asked == [p \in Procs |-> AskedBy(p)]
<1>1. Init => Abstract!Init
  <2> SUFFICES ASSUME Init PROVE Abstract!Init
    OBVIOUS
  <2>1. PICK v \in 0..1, f \in [Keys -> HostPorts \cup {Nil}] :
          /\ Injective(f)
          /\ disk = [version |-> v, tables |-> TablesOf(v), ports |-> f, rows |-> [o \in Owners |-> Nil]]
    BY DEF Init
  <2>2. disk.ports = f /\ disk.rows = [o \in Owners |-> Nil]
    BY <2>1
  <2>3. recorded = {}
    BY <2>2
  <2>4. \A p \in Procs : AskedBy(p) = {}
    BY DEF Init, AskedBy
  <2> QED
    BY <2>1, <2>2, <2>3, <2>4 DEF Abstract!Init, Abstract!Injective, Abstract!Keys, Injective, Keys
<1>2. IInv /\ IInv' /\ [Next]_vars => [Abstract!Next]_<<disk.ports, recorded, asked>>
  <2>1. CASE UNCHANGED vars
    BY <2>1 DEF vars, AskedBy
  <2> SUFFICES ASSUME IInv, IInv', NEW p \in Procs, Step(p)
               PROVE  Abstract!Next \/ UNCHANGED <<disk.ports, recorded, asked>>
    BY <2>1 DEF Next
  <2> DEFINE r == req[p]
  <2>10. \A q \in Procs \ {p} : AskedBy(q)' = AskedBy(q)
    BY StepFrame DEF IInv, AskedBy
  <2>2. asked' = [asked EXCEPT ![p] = AskedBy(p)']
    BY <2>10
  <2>3. r \in Requests => r.owner \in Owners
    BY DEF Requests
  <2>4. /\ disk.rows \in [Owners -> Statuses \cup {Nil}]
        /\ disk'.ports \in [Keys -> HostPorts \cup {Nil}] /\ Injective(disk'.ports)
    BY DEF IInv, TypeOK, SchemaInv, Databases
  <2>5. CASE disk'.ports = disk.ports /\ disk'.rows = disk.rows
    <3>1. recorded' = recorded
      BY <2>5
    <3>2. CASE AskedBy(p)' = AskedBy(p)
      BY <2>2, <2>5, <3>1, <3>2
    <3>3. CASE AskedBy(p)' = {}
      <4>1. Abstract!Refuse(p)
        BY <2>2, <2>5, <3>1, <3>3 DEF Abstract!Refuse
      <4> QED
        BY <4>1 DEF Abstract!Next
    <3>4. CASE AskedBy(p) = {} /\ AskedBy(p)' \in Abstract!Requests
      <4>1. Abstract!Ask(p)
        BY <2>2, <2>5, <3>1, <3>4 DEF Abstract!Ask
      <4> QED
        BY <4>1 DEF Abstract!Next
    <3> QED
      BY <3>2, <3>3, <3>4, AskedStep
  <2>6. ASSUME r \in Requests, Finish(p, "ok")
        PROVE  /\ req'[p].result = "ok" /\ req'[p].kind = r.kind
               /\ AskedBy(p)' = {}
    BY <2>6 DEF Finish, IInv, TypeOK, Requests, AskedBy
  <2>7. CASE r \in Requests /\ Grants(p)
    <3>1. AskedBy(p) = {r.owner} \X r.want
      BY <2>7, NilAssumption DEF Grants, AskedBy, IInv, KindInv, KindOf
    <3>2. recorded' = recorded
      BY <2>7 DEF Grants
    <3>3. \A k \in AskedBy(p) : disk'.ports[k] # Nil
      <4> SUFFICES ASSUME NEW t \in r.want PROVE disk'.ports[<<r.owner, t>>] # Nil
        BY <3>1
      <4> QED
        BY <2>7 DEF Grants
    <3>4. asked[p] = AskedBy(p) /\ asked' = [asked EXCEPT ![p] = {}]
      BY <2>2, <2>6, <2>7 DEF Grants
    <3>5. \A k \in Keys : (k \notin AskedBy(p) \/ disk.ports[k] # Nil) => disk'.ports[k] = disk.ports[k]
      BY <2>7, <3>1 DEF Grants
    <3>6. /\ disk'.ports \in [Abstract!Keys -> HostPorts \cup {Nil}]
          /\ Abstract!Injective(disk'.ports)
      BY <2>4 DEF Abstract!Injective, Abstract!Keys, Injective, Keys
    <3>7. \A k \in asked[p] : disk'.ports[k] # Nil
      BY <3>3, <3>4
    <3>8. \A k \in Abstract!Keys : (k \notin asked[p] \/ disk.ports[k] # Nil)
                                   => disk'.ports[k] = disk.ports[k]
      BY <3>4, <3>5 DEF Abstract!Keys, Keys
    <3>9. Abstract!Grant(p)
      BY <3>2, <3>4, <3>6, <3>7, <3>8, ZenonT(40) DEF Abstract!Grant
    <3> QED
      BY <3>9 DEF Abstract!Next
  <2>8. CASE r \in Requests /\ Releases(p)
    <3>1. AskedBy(p) = {} /\ AskedBy(p)' = {}
      BY <2>6, <2>8 DEF Releases, AskedBy
    <3>2. recorded' = recorded \ {r.owner}
      BY <2>3, <2>4, <2>8 DEF Releases
    <3>3. asked' = asked
      BY <2>10, <3>1
    <3>4. PICK o \in Owners : o = r.owner
      BY <2>3, <2>8
    <3>5. Abstract!Release(o)
      BY <2>8, <3>2, <3>3, <3>4 DEF Releases, Abstract!Release, Abstract!Keys, Keys
    <3> QED
      BY <3>5 DEF Abstract!Next
  <2>9. CASE r \in Requests /\ Records(p)
    <3>1. AskedBy(p) = {} /\ AskedBy(p)' = {}
      BY <2>6, <2>9 DEF Records, AskedBy
    <3>2. PICK st \in Statuses : disk'.rows = [disk.rows EXCEPT ![r.owner] = st]
      BY <2>9 DEF Records
    <3>3. recorded' = recorded \cup {r.owner}
      BY <2>3, <2>4, <2>9, <3>2, NilAssumption
    <3>4. asked' = asked
      BY <2>10, <3>1
    <3>5. PICK o \in Owners : o = r.owner
      BY <2>3, <2>9
    <3>6. Abstract!Record(o)
      BY <2>9, <3>3, <3>4, <3>5 DEF Records, Abstract!Record
    <3> QED
      BY <3>6 DEF Abstract!Next
  <2> QED
    BY <2>5, <2>7, <2>8, <2>9, DiskStep
<1> QED
  BY <1>1, <1>2, Invariance, PTL DEF Spec, AbstractSpec, Abstract!Spec

-----------------------------------------------------------------------------
(* The rows of the deployments table.                                        *)

\* A row comes into being by the one statement of a put.
LEMMA RowAppears ==
    ASSUME IInv, NEW p \in Procs, Step(p),
           NEW o \in Owners, disk.rows[o] = Nil, disk'.rows[o] # Nil
    PROVE  pc[p] = "row" /\ pc'[p] = "done" /\ req[p].kind = "put" /\ req[p].owner = o
<1>1. disk.rows \in [Owners -> Statuses \cup {Nil}] /\ pc \in [Procs -> Steps]
  BY DEF IInv, TypeOK, Databases
<1>2. req[p] \in Requests /\ Records(p)
  BY <1>1, DiskStep DEF Grants, Releases
<1>3. PICK st \in Statuses : disk'.rows = [disk.rows EXCEPT ![req[p].owner] = st]
  BY <1>2 DEF Records
<1>4. req[p].owner = o
  BY <1>1, <1>3
<1> QED
  BY <1>1, <1>2, <1>4 DEF Records, Finish, Goto

\* The row of a deleted project comes back only by a new deployment: no restart or
\* stop that was under way revives it (PutDeployment, SetDeploymentStatus, DeleteProject).
THEOREM DeletedStaysForgotten == Spec => OnlyPutRecords
<1> DEFINE Recorded ==
      \A o \in Owners :
          (disk.rows[o] = Nil /\ disk'.rows[o] # Nil)
            => \E p \in Procs : /\ pc[p] = "row" /\ pc'[p] = "done"
                                /\ req[p].kind = "put" /\ req[p].owner = o
<1>1. IInv /\ [Next]_vars => [Recorded]_vars
  <2> SUFFICES ASSUME IInv, NEW p \in Procs, Step(p) PROVE Recorded
    BY DEF Next
  <2> QED
    BY RowAppears
<1> QED
  BY <1>1, Invariance, PTL DEF Spec, OnlyPutRecords

-----------------------------------------------------------------------------
(* Plans.                                                                    *)

\* What has a port keeps it.
Kept == \A k \in Keys : disk.ports[k] # Nil => disk'.ports[k] = disk.ports[k]

\* The ports of a plan are those the database has, as far as it has read them, and
\* new ones from outside of all it has read and planned.
PlanAt(l, r, d) ==
    /\ l = "used" => \A t \in r.want : r.got[t] # Nil => d.ports[r.owner, t] = r.got[t]
    /\ l = "assign" => \A t \in r.want \ r.todo : r.got[t] \in r.used
    /\ l = "assign" => \A t, u \in r.want \ r.todo : t # u => r.got[t] # r.got[u]
    /\ l = "done" /\ r.result = "ok" => \A t, u \in r.want : t # u => r.got[t] # r.got[u]

PlanOf(p) == req[p] # Nil /\ req[p].kind = "plan" => PlanAt(pc[p], req[p], disk)

PlanInv == \A p \in Procs : PlanOf(p) /\ (req[p] # Nil => req[p].kind \in Ops)

\* A step of a plan.
LEMMA PlanStep ==
    ASSUME IInv, PlanInv, NEW p \in Procs, Step(p), req'[p] # Nil, req'[p].kind = "plan", Kept
    PROVE  PlanAt(pc[p], req[p], disk)'
<1> USE DEF At, Goto, Finish
<1>1. TypeOK /\ SchemaInv /\ disk \in Databases
  BY DEF IInv, TypeOK
<1>2. CASE pc[p] = "idle"
  <2>1. Starting(p)
    BY <1>2 DEF Step, Opening, OpenStore, BeginMigration, Migrate, Begin, Allocating, Lookup,
                ReadUsed, Assign, Assigned, Commit, WriteRow, Deleting, DeleteRow, DeletePorts,
                Abort, Return
  <2>2. pc'[p] = "open"
    BY <1>1, <2>1 DEF Starting, Start, TypeOK
  <2> QED
    BY <2>2 DEF PlanAt
<1> DEFINE r == req[p]
           o == r.owner
<1>3. CASE pc[p] # "idle"
  <2>1. /\ r \in Requests /\ r.kind = "plan" /\ req'[p].kind = r.kind /\ req'[p].owner = o
        /\ req'[p].want = r.want
    BY <1>1, <1>3, StepRequest
  <2>2. PlanAt(pc[p], r, disk) /\ KindOf(p) /\ Planning(p)
    BY <1>1, <1>3, <2>1 DEF PlanInv, PlanOf, TypeOK, IInv, KindInv, Planning
  <2>3. CASE Starting(p) \/ Abort(p) \/ Return(p)
    BY <1>1, <1>3, <2>3 DEF Starting, Start, Abort, Return, TypeOK
  <2>4. CASE Opening(p)
    <3>1. OpenStore(p)
      BY <2>1, <2>2, <2>4 DEF Opening, BeginMigration, Migrate, Begin, KindOf
    <3>2. pc'[p] = "lookup" \/ (pc'[p] = "done" /\ req'[p].result = "unsupported")
      BY <1>1, <2>1, <2>2, <3>1 DEF OpenStore, Opened, TypeOK, Planning, Requests
    <3> QED
      BY <3>2 DEF PlanAt
  <2>5. CASE Lookup(p)
    <3> DEFINE got == [t \in Targets |-> IF t \in r.want THEN disk.ports[o, t] ELSE Nil]
    <3>1. req'[p].got = got /\ pc'[p] = "used" /\ disk' = disk
      BY <1>1, <2>1, <2>2, <2>5 DEF Lookup, View, TypeOK, Requests
    <3>2. \A t \in r.want : got[t] = disk.ports[o, t]
      BY <2>1 DEF Requests
    <3> QED
      BY <2>1, <3>1, <3>2 DEF PlanAt
  <2>6. CASE ReadUsed(p)
    <3>1. /\ req'[p].used = UsedPorts(disk) /\ req'[p].got = r.got
          /\ req'[p].todo = {t \in r.want : r.got[t] = Nil}
          /\ pc[p] = "used" /\ pc'[p] = "assign" /\ disk' = disk
      BY <1>1, <2>1, <2>2, <2>6 DEF ReadUsed, View, TypeOK, Requests
    <3>2. \A t \in r.want \ req'[p].todo : /\ <<o, t>> \in Keys /\ r.got[t] # Nil
                                           /\ disk.ports[<<o, t>>] = r.got[t]
      BY <2>1, <2>2, <3>1 DEF PlanAt, Requests, Keys
    <3>3. \A t \in r.want \ req'[p].todo : r.got[t] \in UsedPorts(disk)
      BY <3>2 DEF UsedPorts
    <3>4. \A t, u \in r.want \ req'[p].todo : t # u => r.got[t] # r.got[u]
      <4> SUFFICES ASSUME NEW t \in r.want \ req'[p].todo, NEW u \in r.want \ req'[p].todo, t # u
                   PROVE  r.got[t] # r.got[u]
        OBVIOUS
      <4>1. <<o, t>> # <<o, u>> /\ Injective(disk.ports)
        BY <1>1 DEF SchemaInv
      <4> QED
        BY <3>2, <4>1 DEF Injective
    <3> QED
      BY <2>1, <3>1, <3>3, <3>4 DEF PlanAt
  <2>7. CASE Assign(p)
    <3>1. CASE Finish(p, "exhausted")
      <4>1. pc'[p] = "done" /\ req'[p].result = "exhausted"
        BY <1>1, <2>1, <3>1 DEF TypeOK, Requests
      <4> QED
        BY <4>1 DEF PlanAt
    <3>2. CASE Granted(p)
      <4> DEFINE t == First(r.todo)
                 port == NextPort(p)
      <4>1. /\ pc[p] = "assign" /\ pc'[p] = "assign" /\ port \notin r.used /\ t \in r.todo
            /\ req'[p].got = [r.got EXCEPT ![t] = port] /\ req'[p].used = r.used \cup {port}
            /\ req'[p].todo = r.todo \ {t}
        BY <1>1, <2>7, <3>2, AssignCases DEF Granted
      <4>2. r.want \in SUBSET Targets /\ r.got \in [Targets -> HostPorts \cup {Nil}]
        BY <2>1 DEF Requests
      <4> HIDE DEF t, port
      <4>3. \A u \in r.want \ req'[p].todo : /\ u = t \/ u \in r.want \ r.todo
                                             /\ req'[p].got[u] = IF u = t THEN port ELSE r.got[u]
        BY <4>1, <4>2
      <4>4. \A u \in r.want \ r.todo : r.got[u] \in r.used
        BY <2>2, <4>1 DEF PlanAt
      <4>5. \A u, v \in r.want \ r.todo : u # v => r.got[u] # r.got[v]
        BY <2>2, <4>1 DEF PlanAt
      <4>6. \A u \in r.want \ req'[p].todo : req'[p].got[u] \in req'[p].used
        BY <4>1, <4>3, <4>4
      <4>7. \A u, v \in r.want \ req'[p].todo : u # v => req'[p].got[u] # req'[p].got[v]
        BY <4>1, <4>3, <4>4, <4>5
      <4> QED
        BY <2>1, <4>1, <4>6, <4>7 DEF PlanAt
    <3> QED
      BY <1>1, <2>2, <2>7, <3>1, <3>2, AssignCases
  <2>8. CASE Assigned(p)
    <3>1. pc[p] = "assign" /\ pc'[p] = "done" /\ req'[p].got = r.got /\ r.todo = {}
      BY <1>1, <2>1, <2>2, <2>8 DEF Assigned, TypeOK, Requests
    <3> QED
      BY <2>1, <2>2, <3>1 DEF PlanAt
  <2>9. CASE Commit(p) \/ WriteRow(p) \/ Deleting(p)
    BY <2>1, <2>2, <2>9 DEF Commit, WriteRow, Deleting, DeleteRow, DeletePorts, KindOf
  <2> QED
    BY <2>3, <2>4, <2>5, <2>6, <2>7, <2>8, <2>9 DEF Step, Allocating
<1> QED
  BY <1>2, <1>3

\* Others may allocate between the two readings of a plan, but what it has read stays.
LEMMA NextPlanInv ==
    ASSUME "delete" \notin Ops, IInv, PlanInv, [Next]_vars
    PROVE  PlanInv'
<1> SUFFICES ASSUME NEW q \in Procs PROVE PlanOf(q)' /\ (req'[q] # Nil => req'[q].kind \in Ops)
  BY DEF PlanInv
<1>1. CASE UNCHANGED vars
  BY <1>1 DEF vars, PlanInv, PlanOf
<1>2. ASSUME NEW p \in Procs, Step(p) PROVE PlanOf(q)' /\ (req'[q] # Nil => req'[q].kind \in Ops)
  <2>1. TypeOK
    BY DEF IInv
  <2>2. Kept
    <3>1. CASE req[p] # Nil
      <4>1. req[p].kind # "delete"
        BY <3>1 DEF PlanInv
      <4> QED
        BY <1>2, <4>1, DiskStep DEF Kept, Grants, Releases, Records
    <3>2. CASE req[p] = Nil
      <4>1. pc[p] = "idle"
        BY <2>1, <3>2 DEF TypeOK
      <4>2. disk' = disk
        BY <1>2, <4>1 DEF Step, Starting, Start, Opening, OpenStore, BeginMigration, Migrate, Begin,
                Allocating, Lookup, ReadUsed, Assign, Assigned, Commit, WriteRow, Deleting,
                DeleteRow, DeletePorts, Abort, Return, At
      <4> QED
        BY <4>2 DEF Kept
    <3> QED
      BY <3>1, <3>2
  <2>3. CASE p = q
    <3>1. req'[q] # Nil => req'[q].kind \in Ops
      <4>1. CASE pc[q] # "idle"
        BY <1>2, <2>1, <2>3, <4>1, StepRequest DEF PlanInv, TypeOK
      <4>2. CASE pc[q] = "idle"
        <5>1. Starting(q)
          BY <1>2, <2>3, <4>2 DEF Step, Opening, OpenStore, BeginMigration, Migrate, Begin,
                Allocating, Lookup, ReadUsed, Assign, Assigned, Commit, WriteRow, Deleting,
                DeleteRow, DeletePorts, Abort, Return, At
        <5> QED
          BY <2>1, <5>1 DEF Starting, Start, TypeOK
      <4> QED
        BY <4>1, <4>2
    <3> QED
      BY <1>2, <2>2, <2>3, <3>1, PlanStep DEF PlanOf
  <2>4. CASE p # q
    <3>1. pc'[q] = pc[q] /\ req'[q] = req[q]
      BY <1>2, <2>1, <2>4, StepFrame
    <3>2. ASSUME req[q] # Nil, req[q].kind = "plan" PROVE PlanAt(pc[q], req[q], disk)'
      <4>1. PlanAt(pc[q], req[q], disk) /\ req[q] \in Requests
        BY <2>1, <3>2 DEF PlanInv, PlanOf, TypeOK
      <4>2. \A t \in req[q].want : <<req[q].owner, t>> \in Keys
        BY <4>1 DEF Requests, Keys
      <4>3. \A t \in req[q].want : disk.ports[req[q].owner, t] # Nil
                                    => disk'.ports[req[q].owner, t] = disk.ports[req[q].owner, t]
        BY <2>2, <4>2 DEF Kept
      <4>4. pc[q] = "used" => \A t \in req[q].want : req[q].got[t] # Nil
                                => disk'.ports[req[q].owner, t] = req[q].got[t]
        BY <4>1, <4>3 DEF PlanAt
      <4> QED
        BY <3>1, <4>1, <4>4 DEF PlanAt
    <3> QED
      BY <3>1, <3>2 DEF PlanOf, PlanInv
  <2> QED
    BY <2>3, <2>4
<1> QED
  BY <1>1, <1>2 DEF Next

\* A plan that was made without a lock shows no port twice, as long as nothing is
\* deleted meanwhile (PlanGatewayPorts).
THEOREM PlansDistinct ==
    ASSUME "delete" \notin Ops
    PROVE  Spec => []PlannedPortsDistinct
<1>1. Init => PlanInv
  BY DEF Init, PlanInv, PlanOf
<1>2. IInv /\ PlanInv /\ [Next]_vars => PlanInv'
  BY NextPlanInv
<1>3. IInv /\ PlanInv => PlannedPortsDistinct
  <2> SUFFICES ASSUME IInv, PlanInv, NEW p \in Procs, req[p] # Nil, req[p].kind = "plan",
                      req[p].result = "ok"
               PROVE  \A t, u \in req[p].want : t # u => req[p].got[t] # req[p].got[u]
    BY DEF PlannedPortsDistinct
  <2>1. pc[p] = "done"
    BY DEF IInv, KindInv, KindOf
  <2> QED
    BY <2>1 DEF PlanInv, PlanOf, PlanAt
<1> QED
  BY <1>1, <1>2, <1>3, Invariance, PTL DEF Spec

=============================================================================
