----------------------------- MODULE Webhook_proofs -----------------------------
(***************************************************************************)
(* Proofs about Webhook, for any number of handlers and deliveries, any    *)
(* skew, retention and length of time, any number of crashes and of failed *)
(* writes.                                                                 *)
(***************************************************************************)
EXTENDS Webhook, TLAPS

-----------------------------------------------------------------------------
(* The inductive invariant.                                                  *)

\* Whoever deploys holds the deployment lock; a dead process serves nobody.
LockInv ==
    /\ \A h \in Handlers : pc[h] \in {"deploy", "deployed", "failed"} => deployM = h
    /\ ~up => crashes > 0 /\ \A h \in Handlers : pc[h] = "idle"

\* No two handlers serve the same delivery.
UniqueInv ==
    \A g, h \in Handlers :
        (pc[g] # "idle" /\ pc[h] # "idle" /\ req[g].id = req[h].id) => g = h

\* The entry e[r.id] of a guard lasts as long as the timestamp of r is accepted.
Outdated(r) == r.ts + Skew <= now
Shields(e, r) == Outdated(r) \/ r.ts + Skew <= e[r.id]

\* The reservation of a request under way has not expired and shields the request.
ReservedInv ==
    \A h \in Handlers : pc[h] # "idle" =>
        /\ now < entries[req[h].id]
        /\ req[h].ts + Skew <= entries[req[h].id]

\* The steps at which a request has not been deployed.
Before == {"decode", "lock", "deploy", "failed", "release"}

\* An acknowledged request is shielded by the guard, and by the file for the next life
\* of the server; a handler that may release its delivery serves another request of it.
AckedInv ==
    \A r \in acked :
        /\ Shields(file, r)
        /\ up => Shields(entries, r)
        /\ \A h \in Handlers : (pc[h] \in Before /\ req[h].id = r.id) => Outdated(r)

\* The same of a request that is deployed, in the first life of the server.
OnceInv ==
    /\ \A r \in Requests : deployed[r] < 2
    /\ \A r \in Requests : deployed[r] > 0 =>
         /\ Shields(entries, r)
         /\ \A h \in Handlers : (pc[h] \in Before /\ req[h].id = r.id) => Outdated(r)
    /\ \A h \in Handlers : pc[h] \in Before => deployed[req[h]] = 0

\* Whatever is in the guard is being served or was deployed.
TruthInv ==
    /\ \A h \in Handlers : pc[h] \in {"deployed", "commit", "write"} => deployed[req[h]] > 0
    /\ \A d \in Deliveries : entries[d] > 0 =>
         \/ \E h \in Handlers : pc[h] # "idle" /\ req[h].id = d
         \/ \E r \in Requests : r.id = d /\ deployed[r] > 0

IInv == /\ TypeOK /\ LockInv /\ UniqueInv /\ ReservedInv /\ AckedInv
        /\ crashes = 0 => OnceInv /\ TruthInv

-----------------------------------------------------------------------------
(* Types.                                                                    *)

\* A handler under way serves a request.
LEMMA RequestType ==
    ASSUME TypeOK, NEW h \in Handlers, pc[h] # "idle"
    PROVE  req[h] \in Requests /\ req[h].id \in Deliveries /\ req[h].ts \in Nat
  BY DEF TypeOK, Requests

\* An empty guard is one, and so is any clean one.
LEMMA GuardTypes ==
    ASSUME TypeOK, NEW e \in Guards
    PROVE  /\ Absent \in Guards /\ Unexpired(e) \in Guards
           /\ Expiry \in 0..(MaxTime + Retention) /\ 0 \in 0..(MaxTime + Retention)
  BY TimeAssumption DEF TypeOK, Absent, Guards, Unexpired, Expiry

\* The server starts with the right types.
LEMMA InitTypeOK == Init => TypeOK
<1> SUFFICES ASSUME Init PROVE TypeOK
  OBVIOUS
<1>1. Absent \in Guards
  BY TimeAssumption DEF Absent, Guards
<1>2. entries \in Guards /\ file \in Guards
  BY <1>1 DEF Init
<1>3. deployed \in [Requests -> 0..2] /\ acked \subseteq Requests
  BY DEF Init
<1>4. pc \in [Handlers -> Steps] /\ req \in [Handlers -> Requests \cup {None}]
  BY DEF Init, Steps
<1>5. \A h \in Handlers : pc[h] = "idle"
  BY DEF Init
<1>6. now \in 0..MaxTime /\ crashes \in 0..MaxCrashes /\ faults \in 0..MaxFaults
  BY TimeAssumption, BoundsAssumption DEF Init
<1>7. /\ up \in BOOLEAN /\ torn \in BOOLEAN
      /\ guardMu \in Handlers \cup {None} /\ deployM \in Handlers \cup {None}
  BY DEF Init
<1> QED
  BY <1>2, <1>3, <1>4, <1>5, <1>6, <1>7 DEF TypeOK

\* A step of a handler keeps the types.
LEMMA HandlerTypeOK ==
    ASSUME TypeOK, NEW h \in Handlers, Receive(h) \/ Handle(h)
    PROVE  TypeOK'
<1> USE DEF TypeOK, At, Goto, Answer, Steps
<1>1. ASSUME NEW r \in Requests, Reserve(h, r)
      PROVE  TypeOK'
  <2>1. entries' \in Guards
    BY <1>1, GuardTypes DEF Reserve, Guards, Requests
  <2> QED
    BY <1>1, <2>1, NoneAssumption DEF Reserve
<1>2. ASSUME NEW r \in Requests, Refuse(h, r)
      PROVE  TypeOK'
  BY <1>2, GuardTypes DEF Refuse
<1>3. CASE Decode(h)
  BY <1>3 DEF Decode
<1>4. CASE Lock(h)
  BY <1>4 DEF Lock
<1>5. CASE Deploy(h)
  <2>1. req[h] \in Requests
    BY <1>5, RequestType DEF Deploy
  <2>2. deployed' \in [Requests -> 0..2]
    BY <1>5, <2>1 DEF Deploy
  <2> QED
    BY <1>5, <2>2 DEF Deploy
<1>6. CASE Unlock(h)
  BY <1>6 DEF Unlock
<1>7. CASE Release(h)
  <2>1. entries' \in Guards
    BY <1>7, GuardTypes DEF Release, Guards
  <2> QED
    BY <1>7, <2>1 DEF Release
<1>8. CASE Commit(h)
  <2>1. entries' \in Guards
    BY <1>8, GuardTypes DEF Commit, Guards
  <2> QED
    BY <1>8, <2>1 DEF Commit
<1>9. CASE Write(h)
  <2>1. req[h] \in Requests
    BY <1>9, RequestType DEF Write
  <2> QED
    BY <1>9, <2>1 DEF Write
<1>10. CASE WriteFails(h)
  BY <1>10, BoundsAssumption DEF WriteFails
<1> QED
  BY <1>1, <1>2, <1>3, <1>4, <1>5, <1>6, <1>7, <1>8, <1>9, <1>10 DEF Receive, Handle

\* Every step keeps the types.
LEMMA NextTypeOK == TypeOK /\ [Next]_vars => TypeOK'
<1> SUFFICES ASSUME TypeOK, [Next]_vars PROVE TypeOK'
  OBVIOUS
<1>1. CASE UNCHANGED vars
  BY <1>1 DEF vars, TypeOK
<1>2. CASE Crash
  <2>1. entries' \in Guards
    BY <1>2, TimeAssumption DEF Crash, Absent, Guards
  <2>2. pc' \in [Handlers -> Steps] /\ req' \in [Handlers -> Requests \cup {None}]
    BY <1>2 DEF Crash, Steps
  <2>3. \A h \in Handlers : pc'[h] = "idle"
    BY <1>2 DEF Crash
  <2>4. crashes' \in 0..MaxCrashes
    BY <1>2, BoundsAssumption DEF Crash, TypeOK
  <2> QED
    BY <1>2, <2>1, <2>2, <2>3, <2>4 DEF Crash, TypeOK
<1>3. CASE Restart
  BY <1>3, GuardTypes DEF Restart, TypeOK
<1>4. CASE Tick
  BY <1>4, TimeAssumption DEF Tick, TypeOK
<1> QED
  BY <1>1, <1>2, <1>3, <1>4, HandlerTypeOK DEF Next

-----------------------------------------------------------------------------
(* The locks and the reservations.                                           *)

\* A handler that takes a step changes neither the step nor the request of another.
LEMMA StepFrame ==
    ASSUME TypeOK, NEW h \in Handlers, Receive(h) \/ Handle(h), NEW g \in Handlers \ {h}
    PROVE  pc'[g] = pc[g] /\ req'[g] = req[g]
<1> USE DEF TypeOK, Goto, Answer
<1>1. CASE Receive(h)
  BY <1>1 DEF Receive, Reserve, Refuse
<1>2. CASE Handle(h)
  BY <1>2 DEF Handle, Decode, Lock, Deploy, Unlock, Release, Commit, Write, WriteFails
<1> QED
  BY <1>1, <1>2

\* Every step keeps the deployment lock with the one who deploys.
LEMMA NextLockInv == TypeOK /\ LockInv /\ [Next]_vars => LockInv'
<1> SUFFICES ASSUME TypeOK, LockInv, [Next]_vars PROVE LockInv'
  OBVIOUS
<1> DEFINE Holds == {"deploy", "deployed", "failed"}
<1>1. ASSUME NEW h \in Handlers, Receive(h) \/ Handle(h)
      PROVE  LockInv'
  <2>1. up /\ up'
    BY <1>1 DEF Receive, Reserve, Refuse, Handle, Decode, Lock, Deploy, Unlock, Release,
                Commit, Write, WriteFails, At
  <2>2. pc'[h] \in Holds => deployM' = h
    <3> USE DEF TypeOK, LockInv, At, Goto, Answer
    <3>1. CASE Receive(h)
      BY <3>1 DEF Receive, Reserve, Refuse
    <3>2. CASE Lock(h) \/ Deploy(h) \/ Unlock(h)
      BY <3>2 DEF Lock, Deploy, Unlock
    <3>3. CASE Decode(h) \/ Release(h) \/ Commit(h) \/ Write(h) \/ WriteFails(h)
      BY <3>3 DEF Decode, Release, Commit, Write, WriteFails
    <3> QED
      BY <1>1, <3>1, <3>2, <3>3 DEF Handle
  <2>3. ASSUME NEW g \in Handlers \ {h}, pc'[g] \in Holds
        PROVE  deployM' = g
    <3>1. pc[g] \in Holds /\ deployM = g
      BY <1>1, <2>3, StepFrame DEF LockInv
    <3>2. deployM' = deployM
      BY <1>1, <2>3, <3>1, NoneAssumption
         DEF Receive, Reserve, Refuse, Handle, Decode, Lock, Deploy, Unlock, Release, Commit,
             Write, WriteFails, At, LockInv
    <3> QED
      BY <3>1, <3>2
  <2> QED
    BY <2>1, <2>2, <2>3 DEF LockInv
<1>2. CASE UNCHANGED vars \/ Restart \/ Tick
  BY <1>2 DEF vars, Restart, Tick, LockInv
<1>3. CASE Crash
  <2>1. crashes' > 0
    BY <1>3, BoundsAssumption DEF Crash, TypeOK
  <2> QED
    BY <1>3, <2>1 DEF Crash, LockInv
<1> QED
  BY <1>1, <1>2, <1>3 DEF Next

\* What a step of a handler does to the guard: it drops what has expired, reserves
\* a delivery that nobody serves, forgets the one it served, or leaves it alone.
LEMMA EntriesStep ==
    ASSUME TypeOK, ReservedInv, NEW h \in Handlers, Receive(h) \/ Handle(h)
    PROVE  \/ /\ entries' \in {entries, Unexpired(entries)}
              /\ pc'[h] # "idle" => pc[h] # "idle" /\ req'[h] = req[h]
              /\ pc'[h] \in Before => pc[h] \in Before
              /\ pc'[h] = "idle" => pc[h] \in {"idle", "write"}
           \/ /\ pc[h] = "release" /\ pc'[h] = "idle"
              /\ entries' = [entries EXCEPT ![req[h].id] = 0]
           \/ /\ pc[h] = "idle" /\ pc'[h] = "decode" /\ req'[h] \in Requests
              /\ Fresh(req'[h].ts) /\ entries[req'[h].id] <= now
              /\ entries' = [Unexpired(entries) EXCEPT ![req'[h].id] = Expiry]
<1> USE DEF TypeOK, At, Goto, Answer, Before
<1>1. ASSUME NEW r \in Requests, Reserve(h, r)
      PROVE  /\ pc[h] = "idle" /\ pc'[h] = "decode" /\ req'[h] = r
             /\ Fresh(r.ts) /\ entries[r.id] <= now
             /\ entries' = [Unexpired(entries) EXCEPT ![r.id] = Expiry]
  BY <1>1 DEF Reserve, Unexpired, Guards, Requests
<1>2. ASSUME NEW r \in Requests, Refuse(h, r)
      PROVE  entries' = Unexpired(entries) /\ pc[h] = "idle" /\ pc'[h] = "idle"
  BY <1>2 DEF Refuse
<1>3. CASE Decode(h) \/ Lock(h) \/ Deploy(h) \/ Unlock(h)
  BY <1>3 DEF Decode, Lock, Deploy, Unlock
<1>4. CASE Release(h)
  BY <1>4 DEF Release
<1>5. CASE Commit(h)
  <2>1. pc[h] # "idle" /\ pc'[h] = "write" /\ req'[h] = req[h]
    BY <1>5 DEF Commit
  <2>2. Unexpired(entries)[req[h].id] # 0
    BY <2>1, RequestType DEF ReservedInv, Unexpired, Guards
  <2> QED
    BY <1>5, <2>1, <2>2 DEF Commit
<1>6. CASE Write(h) \/ WriteFails(h)
  BY <1>6 DEF Write, WriteFails
<1> QED
  BY <1>1, <1>2, <1>3, <1>4, <1>5, <1>6 DEF Receive, Handle

\* What a step of a handler does to the rest: it may acknowledge its request, with
\* the guard in the file, or deploy it.
LEMMA HistoryStep ==
    ASSUME TypeOK, NEW h \in Handlers, Receive(h) \/ Handle(h)
    PROVE  /\ now' = now /\ up /\ up' /\ crashes' = crashes
           /\ \/ file' = file /\ acked' = acked
              \/ pc[h] = "write" /\ file' = entries /\ acked' = acked \cup {req[h]}
           /\ \/ /\ deployed' = deployed
                 /\ pc'[h] \in {"deployed", "commit", "write"} =>
                      pc[h] \in {"deployed", "commit", "write"}
              \/ /\ pc[h] = "deploy" /\ pc'[h] = "deployed" /\ req'[h] = req[h]
                 /\ deployed' = [deployed EXCEPT ![req[h]] = IF @ < 2 THEN @ + 1 ELSE @]
<1> USE DEF TypeOK, At, Goto, Answer
<1>1. CASE Receive(h)
  BY <1>1 DEF Receive, Reserve, Refuse
<1>2. CASE Decode(h) \/ Lock(h) \/ Deploy(h) \/ Unlock(h)
  BY <1>2 DEF Decode, Lock, Deploy, Unlock
<1>3. CASE Release(h) \/ Commit(h) \/ Write(h) \/ WriteFails(h)
  BY <1>3 DEF Release, Commit, Write, WriteFails
<1> QED
  BY <1>1, <1>2, <1>3 DEF Handle

\* Dropping what has expired keeps every other entry.
LEMMA UnexpiredKeeps ==
    ASSUME TypeOK, NEW e \in Guards, NEW d \in Deliveries
    PROVE  /\ now < e[d] => Unexpired(e)[d] = e[d]
           /\ ~(now < e[d]) => Unexpired(e)[d] = 0
           /\ e[d] \in Nat
  BY TimeAssumption DEF Unexpired, Guards

\* Reservations stay apart and outlast their requests.
LEMMA HandlerReserved ==
    ASSUME TypeOK, UniqueInv, ReservedInv, NEW h \in Handlers, Receive(h) \/ Handle(h)
    PROVE  UniqueInv' /\ ReservedInv'
<1> DEFINE Kept(g) == pc[g] # "idle" /\ req'[g] = req[g]
<1>1. now' = now /\ TypeOK'
  BY HistoryStep, HandlerTypeOK
<1>2. \A g \in Handlers \ {h} : pc'[g] # "idle" => Kept(g)
  BY StepFrame
<1>3. \A g \in Handlers : pc[g] # "idle" =>
        /\ req[g].id \in Deliveries /\ req[g].ts \in Nat
        /\ now < entries[req[g].id] /\ req[g].ts + Skew <= entries[req[g].id]
  BY RequestType DEF ReservedInv
<1>4. entries \in Guards
  BY DEF TypeOK
<1>5. CASE /\ entries' \in {entries, Unexpired(entries)}
           /\ pc'[h] # "idle" => Kept(h)
  <2>1. \A g \in Handlers : pc'[g] # "idle" => Kept(g)
    BY <1>2, <1>5
  <2>2. \A g \in Handlers : pc[g] # "idle" => entries'[req[g].id] = entries[req[g].id]
    BY <1>3, <1>4, <1>5, UnexpiredKeeps
  <2> QED
    BY <1>1, <1>3, <2>1, <2>2 DEF UniqueInv, ReservedInv
<1>6. CASE /\ pc[h] = "release" /\ pc'[h] = "idle"
           /\ entries' = [entries EXCEPT ![req[h].id] = 0]
  <2>1. \A g \in Handlers : pc'[g] # "idle" => g # h /\ Kept(g)
    BY <1>2, <1>6
  <2>2. \A g \in Handlers : pc'[g] # "idle" => entries'[req[g].id] = entries[req[g].id]
    BY <1>3, <1>4, <1>6, <2>1 DEF UniqueInv, Guards
  <2> QED
    BY <1>1, <1>3, <2>1, <2>2 DEF UniqueInv, ReservedInv
<1>7. CASE /\ pc[h] = "idle" /\ pc'[h] = "decode" /\ req'[h] \in Requests
           /\ Fresh(req'[h].ts) /\ entries[req'[h].id] <= now
           /\ entries' = [Unexpired(entries) EXCEPT ![req'[h].id] = Expiry]
  <2> DEFINE d == req'[h].id
  <2>1. d \in Deliveries /\ req'[h].ts \in Nat /\ now \in Nat
    BY <1>7 DEF Requests, TypeOK
  <2>2. entries'[d] = now + Retention
    BY <1>7, <2>1 DEF Expiry, Unexpired
  <2>3. now < now + Retention /\ req'[h].ts + Skew <= now + Retention
    BY <1>7, <2>1, TimeAssumption DEF Fresh
  <2>4. ASSUME NEW g \in Handlers \ {h}, pc'[g] # "idle"
        PROVE  Kept(g) /\ req[g].id # d /\ entries'[req[g].id] = entries[req[g].id]
    <3>1. Kept(g) /\ now < entries[req[g].id] /\ req[g].id \in Deliveries
      BY <1>2, <1>3, <2>4
    <3>2. req[g].id # d
      BY <1>4, <1>7, <2>1, <3>1, UnexpiredKeeps
    <3>3. Unexpired(entries)[req[g].id] = entries[req[g].id]
      BY <1>4, <3>1, UnexpiredKeeps
    <3> QED
      BY <1>7, <3>1, <3>2, <3>3 DEF Unexpired
  <2>5. UniqueInv'
    BY <2>4 DEF UniqueInv
  <2>6. ReservedInv'
    BY <1>1, <1>3, <2>2, <2>3, <2>4 DEF ReservedInv
  <2> QED
    BY <2>5, <2>6
<1> QED
  BY <1>5, <1>6, <1>7, EntriesStep

\* Every step keeps reservations apart, and longer than their requests are accepted.
LEMMA NextReserved ==
    TypeOK /\ LockInv /\ UniqueInv /\ ReservedInv /\ [Next]_vars => UniqueInv' /\ ReservedInv'
<1> SUFFICES ASSUME TypeOK, LockInv, UniqueInv, ReservedInv, [Next]_vars
             PROVE  UniqueInv' /\ ReservedInv'
  OBVIOUS
<1>1. CASE UNCHANGED vars
  BY <1>1 DEF vars, UniqueInv, ReservedInv
<1>2. CASE Crash
  BY <1>2 DEF Crash, UniqueInv, ReservedInv
<1>3. CASE Restart
  BY <1>3 DEF Restart, LockInv, UniqueInv, ReservedInv
<1>4. CASE Tick
  BY <1>4 DEF Tick, UniqueInv, ReservedInv
<1> QED
  BY <1>1, <1>2, <1>3, <1>4, HandlerReserved DEF Next

-----------------------------------------------------------------------------
(* Acknowledged requests.                                                    *)

\* A step of a handler takes the shield from no request, unless it forgets the
\* delivery of one that is outdated.
LEMMA ShieldStep ==
    ASSUME TypeOK, ReservedInv, NEW h \in Handlers, Receive(h) \/ Handle(h),
           NEW r \in Requests, Shields(entries, r),
           (pc[h] \in Before /\ req[h].id = r.id) => Outdated(r)
    PROVE  Shields(entries', r)
<1>1. /\ r.id \in Deliveries /\ r.ts \in Nat /\ now \in Nat
      /\ Skew \in Nat /\ Retention \in Nat /\ entries \in Guards
  BY TimeAssumption DEF Requests, TypeOK
<1> SUFFICES ASSUME ~Outdated(r) PROVE r.ts + Skew <= entries'[r.id]
  BY DEF Shields
<1>2. r.ts + Skew <= entries[r.id] /\ now < r.ts + Skew
  BY <1>1 DEF Shields, Outdated
<1>3. now < entries[r.id] /\ entries[r.id] \in Nat
  BY <1>1, <1>2, UnexpiredKeeps
<1>4. Unexpired(entries)[r.id] = entries[r.id]
  BY <1>1, <1>3, UnexpiredKeeps
<1>5. CASE entries' \in {entries, Unexpired(entries)}
  BY <1>2, <1>4, <1>5
<1>6. CASE pc[h] = "release" /\ entries' = [entries EXCEPT ![req[h].id] = 0]
  <2>1. req[h].id # r.id
    BY <1>6 DEF Before
  <2> QED
    BY <1>1, <1>2, <1>6, <2>1 DEF Guards
<1>7. CASE /\ req'[h] \in Requests /\ entries[req'[h].id] <= now
           /\ entries' = [Unexpired(entries) EXCEPT ![req'[h].id] = Expiry]
  <2>1. req'[h].id # r.id
    BY <1>1, <1>3, <1>7
  <2> QED
    BY <1>1, <1>2, <1>4, <1>7, <2>1 DEF Unexpired
<1> QED
  BY <1>5, <1>6, <1>7, EntriesStep

\* A handler that has begun with a delivery found it absent from the guard.
LEMMA BeforeStep ==
    ASSUME TypeOK, ReservedInv, NEW h \in Handlers, Receive(h) \/ Handle(h),
           NEW g \in Handlers, pc'[g] \in Before
    PROVE  \/ pc[g] \in Before /\ req'[g] = req[g]
           \/ /\ g = h /\ req'[g] \in Requests /\ Fresh(req'[g].ts)
              /\ entries[req'[g].id] <= now
<1>1. CASE g # h
  BY <1>1, StepFrame
<1>2. CASE g = h
  BY <1>2, EntriesStep DEF Before
<1> QED
  BY <1>1, <1>2

\* What a shield means to a request whose delivery is absent from the guard.
LEMMA AbsentOutdated ==
    ASSUME TypeOK, NEW r \in Requests, Shields(entries, r), entries[r.id] <= now
    PROVE  Outdated(r)
<1>1. /\ r.id \in Deliveries /\ r.ts \in Nat /\ now \in Nat /\ Skew \in Nat
      /\ entries[r.id] \in Nat
  BY TimeAssumption, UnexpiredKeeps DEF Requests, TypeOK
<1> QED
  BY <1>1 DEF Shields, Outdated

\* A step of a handler keeps acknowledged requests shielded.
LEMMA HandlerAcked ==
    ASSUME TypeOK, UniqueInv, ReservedInv, AckedInv,
           NEW h \in Handlers, Receive(h) \/ Handle(h)
    PROVE  AckedInv'
<1>1. /\ now' = now /\ up /\ up'
      /\ \/ file' = file /\ acked' = acked
         \/ pc[h] = "write" /\ file' = entries /\ acked' = acked \cup {req[h]}
  BY HistoryStep
<1>2. acked \subseteq Requests
  BY DEF TypeOK
<1>3. ASSUME NEW r \in acked
      PROVE  /\ Shields(entries, r) /\ Shields(entries', r) /\ Shields(file', r)
             /\ \A g \in Handlers : (pc'[g] \in Before /\ req'[g].id = r.id) => Outdated(r)
  <2>1. /\ r \in Requests /\ Shields(entries, r) /\ Shields(file, r)
        /\ \A g \in Handlers : (pc[g] \in Before /\ req[g].id = r.id) => Outdated(r)
    BY <1>1, <1>2 DEF AckedInv
  <2>2. Shields(entries', r)
    BY <2>1, ShieldStep
  <2>3. ASSUME NEW g \in Handlers, pc'[g] \in Before, req'[g].id = r.id
        PROVE  Outdated(r)
    BY <2>1, <2>3, BeforeStep, AbsentOutdated
  <2> QED
    BY <1>1, <2>1, <2>2, <2>3
<1>4. ASSUME pc[h] = "write"
      PROVE  /\ req[h] \in Requests /\ Shields(entries, req[h]) /\ Shields(entries', req[h])
             /\ \A g \in Handlers : (pc'[g] \in Before /\ req'[g].id = req[h].id)
                                       => Outdated(req[h])
  <2>1. req[h] \in Requests /\ Shields(entries, req[h])
    BY <1>4, RequestType DEF ReservedInv, Shields
  <2>2. Shields(entries', req[h])
    BY <1>4, <2>1, ShieldStep DEF Before
  <2>3. ASSUME NEW g \in Handlers, pc'[g] \in Before, req'[g].id = req[h].id
        PROVE  Outdated(req[h])
    <3>1. ~(pc[g] \in Before /\ req'[g] = req[g])
      BY <1>4, <2>3 DEF UniqueInv, Before
    <3> QED
      BY <2>1, <2>3, <3>1, BeforeStep, AbsentOutdated
  <2> QED
    BY <2>1, <2>2, <2>3
<1>5. ASSUME NEW r \in acked'
      PROVE  /\ Shields(file, r)' /\ Shields(entries, r)'
             /\ \A g \in Handlers : (pc'[g] \in Before /\ req'[g].id = r.id) => Outdated(r)'
  BY <1>1, <1>3, <1>4, <1>5 DEF Shields, Outdated
<1> QED
  BY <1>5 DEF AckedInv

\* Time only outdates requests.
LEMMA TickShields ==
    ASSUME TypeOK, Tick, NEW e \in Guards, NEW r \in Requests, Shields(e, r)
    PROVE  r.ts + Skew <= now' \/ r.ts + Skew <= e[r.id]
<1>1. now \in Nat /\ now' = now + 1 /\ r.ts \in Nat /\ Skew \in Nat
  BY TimeAssumption DEF Tick, Requests, TypeOK
<1> QED
  BY <1>1 DEF Shields, Outdated

\* Every step, a restart from the file included, keeps acknowledged requests shielded.
LEMMA NextAcked ==
    TypeOK /\ LockInv /\ UniqueInv /\ ReservedInv /\ AckedInv /\ [Next]_vars => AckedInv'
<1> SUFFICES ASSUME TypeOK, LockInv, UniqueInv, ReservedInv, AckedInv, [Next]_vars
             PROVE  AckedInv'
  OBVIOUS
<1>0. acked \subseteq Requests /\ entries \in Guards /\ file \in Guards
  BY DEF TypeOK
<1>1. CASE UNCHANGED vars
  BY <1>1 DEF vars, AckedInv, Shields, Outdated
<1>2. CASE Crash
  BY <1>2 DEF Crash, AckedInv, Shields, Outdated, Before
<1>3. CASE Restart
  <2>1. ASSUME NEW r \in acked
        PROVE  r.ts + Skew <= now \/ r.ts + Skew <= Unexpired(file)[r.id]
    <3>1. /\ r.id \in Deliveries /\ r.ts \in Nat /\ now \in Nat /\ Skew \in Nat
          /\ file[r.id] \in Nat
      BY <1>0, TimeAssumption, UnexpiredKeeps DEF Requests, TypeOK
    <3>2. r.ts + Skew <= now \/ r.ts + Skew <= file[r.id]
      BY DEF AckedInv, Shields, Outdated
    <3> QED
      BY <1>0, <3>1, <3>2, UnexpiredKeeps
  <2> QED
    BY <1>3, <2>1 DEF Restart, AckedInv, LockInv, Shields, Outdated, Before
<1>4. CASE Tick
  <2>1. ASSUME NEW r \in acked
        PROVE  /\ Shields(file, r)'
               /\ up => Shields(entries, r)'
               /\ Outdated(r) => Outdated(r)'
    <3>1. now \in Nat /\ now' = now + 1 /\ r.ts \in Nat /\ Skew \in Nat
      BY <1>0, <1>4, TimeAssumption DEF Tick, Requests, TypeOK
    <3>2. Outdated(r) => Outdated(r)'
      BY <3>1 DEF Outdated
    <3>3. file' = file /\ entries' = entries
      BY <1>4 DEF Tick
    <3> QED
      BY <1>0, <1>4, <3>2, <3>3, TickShields DEF AckedInv, Shields, Outdated
  <2> QED
    BY <1>4, <2>1 DEF Tick, AckedInv
<1> QED
  BY <1>1, <1>2, <1>3, <1>4, HandlerAcked DEF Next

-----------------------------------------------------------------------------
(* The first life of the server.                                             *)

\* A step of a handler deploys no request a second time.
LEMMA HandlerOnce ==
    ASSUME TypeOK, UniqueInv, ReservedInv, OnceInv,
           NEW h \in Handlers, Receive(h) \/ Handle(h)
    PROVE  OnceInv'
<1>1. now' = now
  BY HistoryStep
<1>2. \A r \in Requests : deployed[r] \in 0..2
  BY DEF TypeOK
<1>3. ASSUME NEW r \in Requests, deployed[r] > 0
      PROVE  /\ Shields(entries', r)
             /\ \A g \in Handlers : (pc'[g] \in Before /\ req'[g].id = r.id) => Outdated(r)
  <2>1. /\ Shields(entries, r)
        /\ \A g \in Handlers : (pc[g] \in Before /\ req[g].id = r.id) => Outdated(r)
    BY <1>3 DEF OnceInv
  <2>2. Shields(entries', r)
    BY <2>1, ShieldStep
  <2>3. ASSUME NEW g \in Handlers, pc'[g] \in Before, req'[g].id = r.id
        PROVE  Outdated(r)
    BY <2>1, <2>3, BeforeStep, AbsentOutdated
  <2> QED
    BY <2>2, <2>3
<1>4. ASSUME NEW g \in Handlers, pc'[g] \in Before
      PROVE  deployed[req'[g]] = 0
  <2>1. CASE pc[g] \in Before /\ req'[g] = req[g]
    BY <2>1 DEF OnceInv
  <2>2. CASE req'[g] \in Requests /\ Fresh(req'[g].ts) /\ entries[req'[g].id] <= now
    <3> DEFINE r == req'[g]
    <3>1. r.ts \in Nat /\ now \in Nat /\ Skew \in Nat
      BY <2>2, TimeAssumption DEF Requests, TypeOK
    <3>2. ~Outdated(r)
      BY <2>2, <3>1 DEF Fresh, Outdated
    <3>3. ~(deployed[r] > 0)
      BY <2>2, <3>2, AbsentOutdated DEF OnceInv
    <3> QED
      BY <1>2, <2>2, <3>3
  <2> QED
    BY <1>4, <2>1, <2>2, BeforeStep
<1>5. CASE deployed' = deployed
  BY <1>1, <1>3, <1>4, <1>5 DEF OnceInv, Shields, Outdated
<1>6. CASE /\ pc[h] = "deploy" /\ pc'[h] = "deployed" /\ req'[h] = req[h]
           /\ deployed' = [deployed EXCEPT ![req[h]] = IF @ < 2 THEN @ + 1 ELSE @]
  <2>1. req[h] \in Requests /\ deployed[req[h]] = 0
    BY <1>6, RequestType DEF OnceInv, Before
  <2>2. \A r \in Requests : deployed'[r] = IF r = req[h] THEN 1 ELSE deployed[r]
    BY <1>6, <2>1 DEF TypeOK
  <2>3. Shields(entries, req[h])
    BY <1>6 DEF ReservedInv, Shields
  <2>4. Shields(entries', req[h])
    <3>1. CASE entries' \in {entries, Unexpired(entries)}
      <4>1. now < entries[req[h].id] /\ req[h].id \in Deliveries /\ entries \in Guards
        BY <1>6, <2>1 DEF ReservedInv, Requests, TypeOK
      <4> QED
        BY <2>3, <3>1, <4>1, UnexpiredKeeps DEF Shields
    <3> QED
      BY <1>6, <3>1, EntriesStep
  <2>5. ASSUME NEW g \in Handlers, pc'[g] \in Before
        PROVE  g # h /\ req'[g] \in Requests /\ req'[g].id # req[h].id
    <3>1. g # h
      BY <1>6, <2>5 DEF Before
    <3>2. pc[g] \in Before /\ req'[g] = req[g]
      BY <2>5, <3>1, StepFrame
    <3> QED
      BY <1>6, <3>1, <3>2, RequestType DEF UniqueInv, Before
  <2>6. \A r \in Requests : deployed'[r] < 2
    BY <2>2 DEF OnceInv
  <2>7. ASSUME NEW r \in Requests, deployed'[r] > 0
        PROVE  /\ Shields(entries', r)
               /\ \A g \in Handlers : (pc'[g] \in Before /\ req'[g].id = r.id) => Outdated(r)
    BY <1>3, <2>2, <2>4, <2>5, <2>7
  <2>8. \A g \in Handlers : pc'[g] \in Before => deployed'[req'[g]] = 0
    BY <1>4, <2>2, <2>5
  <2> QED
    BY <1>1, <2>6, <2>7, <2>8 DEF OnceInv, Shields, Outdated
<1> QED
  BY <1>5, <1>6, HistoryStep

\* A step of a handler leaves nothing in the guard that is not served or deployed.
LEMMA HandlerTruth ==
    ASSUME TypeOK, UniqueInv, ReservedInv, TruthInv,
           NEW h \in Handlers, Receive(h) \/ Handle(h)
    PROVE  TruthInv'
<1> DEFINE Done == {"deployed", "commit", "write"}
<1>1. /\ \A r \in Requests : deployed[r] \in 0..2
      /\ \A r \in Requests : deployed[r] > 0 => deployed'[r] > 0
  <2>1. \A r \in Requests : deployed[r] \in 0..2
    BY DEF TypeOK
  <2>2. CASE deployed' = [deployed EXCEPT ![req[h]] = IF @ < 2 THEN @ + 1 ELSE @]
    BY <2>1, <2>2 DEF TypeOK
  <2> QED
    BY <2>1, <2>2, HistoryStep
<1>2. ASSUME NEW g \in Handlers, pc'[g] \in Done
      PROVE  deployed'[req'[g]] > 0
  <2>1. CASE pc[g] \in Done /\ req'[g] = req[g]
    BY <1>1, <2>1, RequestType DEF TruthInv
  <2>2. CASE /\ g = h /\ pc[h] = "deploy" /\ req'[h] = req[h]
             /\ deployed' = [deployed EXCEPT ![req[h]] = IF @ < 2 THEN @ + 1 ELSE @]
    BY <1>1, <2>2, RequestType DEF TypeOK
  <2>3. pc[h] \in Done /\ pc'[h] \in Done => req'[h] = req[h]
    BY EntriesStep
  <2> QED
    BY <1>2, <2>1, <2>2, <2>3, StepFrame, HistoryStep
<1>3. ASSUME NEW d \in Deliveries, entries'[d] > 0
      PROVE  \/ \E g \in Handlers : pc'[g] # "idle" /\ req'[g].id = d
             \/ \E r \in Requests : r.id = d /\ deployed'[r] > 0
  <2>1. entries \in Guards /\ now \in Nat
    BY DEF TypeOK
  <2>2. CASE /\ pc[h] = "idle" /\ pc'[h] = "decode"
             /\ entries' = [Unexpired(entries) EXCEPT ![req'[h].id] = Expiry]
    <3>1. CASE req'[h].id = d
      BY <2>2, <3>1
    <3>2. CASE req'[h].id # d
      <4>1. entries[d] > 0
        BY <1>3, <2>1, <2>2, <3>2, UnexpiredKeeps DEF Unexpired
      <4>2. \A g \in Handlers : pc[g] # "idle" => pc'[g] # "idle" /\ req'[g] = req[g]
        BY <2>2, StepFrame
      <4> QED
        BY <1>1, <4>1, <4>2 DEF TruthInv
    <3> QED
      BY <3>1, <3>2
  <2>3. CASE /\ pc[h] = "release"
             /\ entries' = [entries EXCEPT ![req[h].id] = 0]
    <3>1. req[h].id # d /\ entries[d] > 0
      BY <1>3, <2>1, <2>3 DEF Guards
    <3>2. \A g \in Handlers : (pc[g] # "idle" /\ req[g].id = d) => pc'[g] # "idle" /\ req'[g] = req[g]
      BY <3>1, StepFrame
    <3> QED
      BY <1>1, <3>1, <3>2 DEF TruthInv
  <2>4. CASE /\ entries' \in {entries, Unexpired(entries)}
             /\ pc'[h] # "idle" => pc[h] # "idle" /\ req'[h] = req[h]
             /\ pc'[h] = "idle" => pc[h] \in {"idle", "write"}
    <3>1. entries[d] > 0
      BY <1>3, <2>1, <2>4, UnexpiredKeeps
    <3>2. CASE \E r \in Requests : r.id = d /\ deployed[r] > 0
      BY <1>1, <3>2
    <3>3. ASSUME NEW g \in Handlers, pc[g] # "idle", req[g].id = d
          PROVE  \/ pc'[g] # "idle" /\ req'[g] = req[g]
                 \/ req[g] \in Requests /\ deployed'[req[g]] > 0
      <4>1. CASE g # h
        BY <3>3, <4>1, StepFrame
      <4>2. CASE g = h /\ pc'[h] # "idle"
        BY <2>4, <4>2
      <4>3. CASE g = h /\ pc[h] = "write"
        BY <1>1, <4>3, RequestType DEF TruthInv
      <4> QED
        BY <2>4, <3>3, <4>1, <4>2, <4>3
    <3> QED
      BY <3>1, <3>2, <3>3 DEF TruthInv
  <2> QED
    BY <2>2, <2>3, <2>4, EntriesStep
<1> QED
  BY <1>2, <1>3 DEF TruthInv

\* While the server lives, every step keeps both.
LEMMA NextFirstLife ==
    /\ TypeOK /\ LockInv /\ UniqueInv /\ ReservedInv /\ [Next]_vars
    /\ crashes = 0 => OnceInv /\ TruthInv
    => (crashes' = 0 => OnceInv' /\ TruthInv')
<1> SUFFICES ASSUME TypeOK, LockInv, UniqueInv, ReservedInv, [Next]_vars,
                    crashes = 0 => OnceInv /\ TruthInv, crashes' = 0
             PROVE  OnceInv' /\ TruthInv'
  OBVIOUS
<1>1. CASE UNCHANGED vars
  BY <1>1 DEF vars, OnceInv, TruthInv, Shields, Outdated
<1>2. ASSUME NEW h \in Handlers, Receive(h) \/ Handle(h)
      PROVE  OnceInv' /\ TruthInv'
  <2>1. OnceInv /\ TruthInv
    BY <1>2, HistoryStep
  <2> QED
    BY <1>2, <2>1, HandlerOnce, HandlerTruth
<1>3. ~Crash
  BY BoundsAssumption DEF Crash, TypeOK
<1>4. ~Restart
  BY DEF Restart, LockInv
<1>5. CASE Tick
  <2>1. OnceInv /\ TruthInv /\ entries \in Guards
    BY <1>5 DEF Tick, TypeOK
  <2>2. ASSUME NEW r \in Requests
        PROVE  /\ Shields(entries, r) => Shields(entries, r)'
               /\ Outdated(r) => Outdated(r)'
    <3>1. now \in Nat /\ now' = now + 1 /\ r.ts \in Nat /\ Skew \in Nat
      BY <1>5, TimeAssumption DEF Tick, Requests, TypeOK
    <3>2. Outdated(r) => Outdated(r)'
      BY <3>1 DEF Outdated
    <3>3. entries' = entries
      BY <1>5 DEF Tick
    <3> QED
      BY <1>5, <2>1, <3>2, <3>3, TickShields DEF Shields, Outdated
  <2>3. OnceInv'
    BY <1>5, <2>1, <2>2 DEF Tick, OnceInv
  <2>4. TruthInv'
    BY <1>5, <2>1 DEF Tick, TruthInv
  <2> QED
    BY <2>3, <2>4
<1> QED
  BY <1>1, <1>2, <1>3, <1>4, <1>5 DEF Next

-----------------------------------------------------------------------------
(* The theorems.                                                             *)

\* The inductive invariant holds of an empty guard.
LEMMA InitIInv == Init => IInv
<1> SUFFICES ASSUME Init PROVE IInv
  OBVIOUS
<1>1. \A h \in Handlers : pc[h] = "idle"
  BY DEF Init
<1>2. LockInv /\ UniqueInv /\ ReservedInv /\ AckedInv
  BY <1>1 DEF Init, LockInv, UniqueInv, ReservedInv, AckedInv
<1>3. OnceInv
  BY <1>1 DEF Init, OnceInv, Before
<1>4. TruthInv
  BY <1>1 DEF Init, TruthInv, Absent
<1> QED
  BY <1>2, <1>3, <1>4, InitTypeOK DEF IInv

\* Every step keeps the inductive invariant.
LEMMA NextIInv == IInv /\ [Next]_vars => IInv'
  BY NextTypeOK, NextLockInv, NextReserved, NextAcked, NextFirstLife DEF IInv

\* The inductive invariant holds throughout.
THEOREM Invariance == Spec => []IInv
  BY InitIInv, NextIInv, PTL DEF Spec

\* The clock, the guard, its file and the handlers keep their types.
THEOREM TypeCorrect == Spec => []TypeOK
<1>1. IInv => TypeOK
  BY DEF IInv
<1> QED
  BY <1>1, Invariance, PTL

\* Two deliveries never replace the artifacts at the same time (handler.go:140-144).
THEOREM Serialized == Spec => []DeploymentsSerialized
<1>1. IInv => DeploymentsSerialized
  BY DEF IInv, LockInv, DeploymentsSerialized
<1> QED
  BY <1>1, Invariance, PTL

\* In the first life of the server what was signed deploys at most once under one
\* delivery ID (handler.go:115-118; validSignature covers the time stamp and the body).
THEOREM AtMostOnce == Spec => []DeployedAtMostOnce
<1>1. IInv => DeployedAtMostOnce
  BY DEF IInv, OnceInv, DeployedAtMostOnce
<1> QED
  BY <1>1, Invariance, PTL

\* In the first life of the server a 409 tells the truth (handler.go:116).
THEOREM RefusalTrue == Spec => []RefusalIsTruthful
<1>1. IInv => RefusalIsTruthful
  <2> SUFFICES ASSUME IInv, crashes = 0, NEW d \in Deliveries, Unexpired(entries)[d] # 0
               PROVE  \/ \E h \in Handlers : pc[h] # "idle" /\ req[h].id = d
                      \/ \E r \in Requests : r.id = d /\ deployed[r] > 0
    BY DEF RefusalIsTruthful, RefusalsAreTrue
  <2>1. entries[d] > 0
    BY UnexpiredKeeps DEF IInv, TypeOK, Unexpired
  <2> QED
    BY <2>1 DEF IInv, TruthInv
<1> QED
  BY <1>1, Invariance, PTL

\* A request answered 200 is refused under its delivery ID for as long as its timestamp
\* is accepted, across any number of deaths of the server and failed writes of its file.
THEOREM AcknowledgedRefused == Spec => []AcknowledgedStaysRefused
<1>1. IInv => AcknowledgedStaysRefused
  <2> SUFFICES ASSUME IInv, up, NEW r \in acked, Fresh(r.ts)
               PROVE  Unexpired(entries)[r.id] # 0
    BY DEF AcknowledgedStaysRefused
  <2>1. /\ r.id \in Deliveries /\ r.ts \in Nat /\ now \in Nat /\ Skew \in Nat
        /\ entries \in Guards
    BY TimeAssumption DEF IInv, TypeOK, Requests
  <2>2. Shields(entries, r) /\ TypeOK
    BY DEF IInv, AckedInv
  <2>3. now < entries[r.id]
    BY <2>1, <2>2, UnexpiredKeeps DEF Shields, Outdated, Fresh
  <2> QED
    BY <2>1, <2>2, <2>3, UnexpiredKeeps
<1> QED
  BY <1>1, Invariance, PTL
=============================================================================
