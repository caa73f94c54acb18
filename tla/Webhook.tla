--------------------------------- MODULE Webhook ---------------------------------
(***************************************************************************)
(* The webhook server, internal/webhook: handler.go and replay.go, with    *)
(* the process around it (cli/webhook.go, the systemd unit of service.go). *)
(*                                                                         *)
(* Requests are served by concurrent handlers.  A request that passes the  *)
(* checks reserves its delivery ID in the replay guard, waits for the one  *)
(* deployment lock, deploys, and is then recorded in replay.json, from     *)
(* which the guard is loaded when the server starts again.                 *)
(*                                                                         *)
(* Simplifications.                                                        *)
(*  - A request is its delivery ID and what is signed, the time stamp and  *)
(*    the body, which ts stands for.  The ID is a header that the signature*)
(*    does not cover (validSignature), so any ID may come with any ts.     *)
(*  - A request that fails the checks before the guard changes nothing and *)
(*    is left out.                                                         *)
(*  - The two clock readings of those checks are one.  No request is under *)
(*    way for as long as the retention of the guard (24 hours).            *)
(*  - The deployment itself is the module Lifecycle; here it succeeds or   *)
(*    fails.                                                               *)
(*                                                                         *)
(* An operator named X_mistake is X with a plausible mistake in it.  No    *)
(* other definition uses it: the mutants of PROJECT.json put it in the     *)
(* place of X to show that a property would notice the mistake.            *)
(***************************************************************************)
EXTENDS Naturals

CONSTANTS
    Handlers,    \* goroutines serving requests
    Deliveries,  \* delivery IDs
    Skew,        \* maxClockSkew
    Retention,   \* replayRetention
    MaxTime,     \* bound on the clock
    MaxCrashes,  \* bound on the deaths of the process
    MaxFaults,   \* bound on the failed writes of replay.json
    None         \* nobody

ASSUME TimeAssumption ==
    /\ Skew \in Nat \ {0} /\ Retention \in Nat \ {0} /\ MaxTime \in Nat
    /\ 2 * Skew <= Retention + 1
ASSUME BoundsAssumption == MaxCrashes \in Nat /\ MaxFaults \in Nat
VARIABLES
    now,       \* the clock
    up,        \* whether the process runs
    entries,   \* entries[d]: expiry of d in the guard, 0 when it is absent
    file,      \* the same in replay.json
    torn,      \* replay.json has been truncated and not yet rewritten
    guardMu,   \* the handler inside commit, which holds the guard's mutex
    deployM,   \* the handler that holds the deployment lock
    pc, req,   \* step of a handler and the request it serves
    deployed,  \* history: how often the deployment of a request succeeded
    acked,     \* history: the requests answered 200
    crashes, faults

vars == <<now, up, entries, file, torn, guardMu, deployM, pc, req,
          deployed, acked, crashes, faults>>

Requests == [id : Deliveries, ts : 0..MaxTime]

ASSUME NoneAssumption == None \notin Handlers /\ None \notin Requests

Guards == [Deliveries -> 0..(MaxTime + Retention)]
Steps == {"idle", "decode", "lock", "deploy", "deployed", "failed", "release", "commit", "write"}

TypeOK ==
    /\ now \in 0..MaxTime
    /\ up \in BOOLEAN /\ torn \in BOOLEAN
    /\ entries \in Guards /\ file \in Guards
    /\ guardMu \in Handlers \cup {None}
    /\ deployM \in Handlers \cup {None}
    /\ pc \in [Handlers -> Steps]
    /\ req \in [Handlers -> Requests \cup {None}]
    /\ \A h \in Handlers : pc[h] # "idle" => req[h] # None
    /\ deployed \in [Requests -> 0..2]
    /\ acked \subseteq Requests
    /\ crashes \in 0..MaxCrashes /\ faults \in 0..MaxFaults

Absent == [d \in Deliveries |-> 0]

Init ==
    /\ now = 0
    /\ up = TRUE /\ torn = FALSE
    /\ entries = Absent /\ file = Absent
    /\ guardMu = None /\ deployM = None
    /\ pc = [h \in Handlers |-> "idle"]
    /\ req = [h \in Handlers |-> None]
    /\ deployed = [r \in Requests |-> 0]
    /\ acked = {}
    /\ crashes = 0 /\ faults = 0

-----------------------------------------------------------------------------
At(h, l) == up /\ pc[h] = l
Goto(h, l) == pc' = [pc EXCEPT ![h] = l]
Answer(h) == Goto(h, "idle") /\ req' = [req EXCEPT ![h] = None]

\* cleanup: what has expired is removed.
Unexpired(e) == [d \in Deliveries |-> IF e[d] > now THEN e[d] ELSE 0]

\* validTimestamp
Fresh(ts) == ts + Skew > now /\ ts < now + Skew

Expiry_ofSkew == now + Skew

Expiry == now + Retention

\* A request that passes the checks reserves its delivery.
Reserve(h, r) ==
    /\ At(h, "idle") /\ guardMu = None
    /\ Fresh(r.ts) /\ Unexpired(entries)[r.id] = 0
    /\ entries' = [Unexpired(entries) EXCEPT ![r.id] = Expiry]
    /\ req' = [req EXCEPT ![h] = r]
    /\ Goto(h, "decode")
    /\ UNCHANGED <<now, up, file, torn, guardMu, deployM, deployed, acked, crashes, faults>>

\* 409: the delivery is in the guard; only the cleanup is done.
Refuse(h, r) ==
    /\ At(h, "idle") /\ guardMu = None
    /\ Fresh(r.ts) /\ Unexpired(entries)[r.id] # 0
    /\ entries' = Unexpired(entries)
    /\ UNCHANGED <<now, up, file, torn, guardMu, deployM, pc, req, deployed, acked,
                   crashes, faults>>

\* The payload is decoded and matched with the hook: 400, 422, or on to the lock.
Decode(h) ==
    /\ At(h, "decode")
    /\ Goto(h, "lock") \/ Goto(h, "release")
    /\ UNCHANGED <<now, up, entries, file, torn, guardMu, deployM, req, deployed, acked,
                   crashes, faults>>

Lock_shared(h) ==
    /\ At(h, "lock")
    /\ deployM' = h
    /\ Goto(h, "deploy")
    /\ UNCHANGED <<now, up, entries, file, torn, guardMu, req, deployed, acked,
                   crashes, faults>>

Lock(h) ==
    /\ At(h, "lock") /\ deployM = None
    /\ deployM' = h
    /\ Goto(h, "deploy")
    /\ UNCHANGED <<now, up, entries, file, torn, guardMu, req, deployed, acked,
                   crashes, faults>>

Deploy(h) ==
    /\ At(h, "deploy")
    /\ \/ /\ deployed' = [deployed EXCEPT ![req[h]] = IF @ < 2 THEN @ + 1 ELSE @]
          /\ Goto(h, "deployed")
       \/ UNCHANGED deployed /\ Goto(h, "failed")
    /\ UNCHANGED <<now, up, entries, file, torn, guardMu, deployM, req, acked, crashes, faults>>

Unlock_afterSuccess(h) ==
    /\ \/ At(h, "deployed") /\ Goto(h, "commit") /\ deployM' = None
       \/ At(h, "failed") /\ Goto(h, "release") /\ UNCHANGED deployM
    /\ UNCHANGED <<now, up, entries, file, torn, guardMu, req, deployed, acked,
                   crashes, faults>>

Unlock(h) ==
    /\ \/ At(h, "deployed") /\ Goto(h, "commit")
       \/ At(h, "failed") /\ Goto(h, "release")
    /\ deployM' = None
    /\ UNCHANGED <<now, up, entries, file, torn, guardMu, req, deployed, acked,
                   crashes, faults>>

Release_keeps(h) ==
    /\ At(h, "release")
    /\ Answer(h)
    /\ UNCHANGED <<now, up, entries, file, torn, guardMu, deployM, deployed, acked,
                   crashes, faults>>

\* release only forgets the delivery in memory; the answer is an error.
Release(h) ==
    /\ At(h, "release") /\ guardMu = None
    /\ entries' = [entries EXCEPT ![req[h].id] = 0]
    /\ Answer(h)
    /\ UNCHANGED <<now, up, file, torn, guardMu, deployM, deployed, acked,
                   crashes, faults>>

Commit_extends(h) ==
    /\ At(h, "commit") /\ guardMu = None
    /\ entries' = [entries EXCEPT ![req[h].id] = @ + Retention]
    /\ guardMu' = h /\ torn' = TRUE
    /\ Goto(h, "write")
    /\ UNCHANGED <<now, up, file, deployM, req, deployed, acked, crashes, faults>>

\* commit holds the guard's mutex while os.WriteFile truncates the file ...
Commit(h) ==
    /\ At(h, "commit") /\ guardMu = None
    /\ LET kept == Unexpired(entries) IN
       entries' = IF kept[req[h].id] # 0 THEN kept
                  ELSE [kept EXCEPT ![req[h].id] = Expiry]
    /\ guardMu' = h
    /\ torn' = TRUE
    /\ Goto(h, "write")
    /\ UNCHANGED <<now, up, file, deployM, req, deployed, acked, crashes, faults>>

\* ... and writes every entry of the guard; then the answer is 200.
Write(h) ==
    /\ At(h, "write")
    /\ file' = entries /\ torn' = FALSE
    /\ guardMu' = None
    /\ acked' = acked \cup {req[h]}
    /\ Answer(h)
    /\ UNCHANGED <<now, up, entries, deployM, deployed, crashes, faults>>

\* The file could not be opened, and is as it was, or not be written: 500.
WriteFails(h) ==
    /\ At(h, "write") /\ faults < MaxFaults
    /\ faults' = faults + 1
    /\ torn' \in BOOLEAN
    /\ guardMu' = None
    /\ Answer(h)
    /\ UNCHANGED <<now, up, entries, file, deployM, deployed, acked, crashes>>

-----------------------------------------------------------------------------
(* The process and the clock.                                                *)

Crash ==
    /\ up /\ crashes < MaxCrashes
    /\ crashes' = crashes + 1
    /\ up' = FALSE
    /\ entries' = Absent
    /\ guardMu' = None /\ deployM' = None
    /\ pc' = [h \in Handlers |-> "idle"]
    /\ req' = [h \in Handlers |-> None]
    /\ UNCHANGED <<now, file, torn, deployed, acked, faults>>

Restart_empty ==
    /\ ~up /\ ~torn
    /\ up' = TRUE
    /\ UNCHANGED <<now, entries, file, torn, guardMu, deployM, pc, req, deployed, acked,
                   crashes, faults>>

\* newReplayGuard; the server does not start on a file it cannot parse.
Restart ==
    /\ ~up /\ ~torn
    /\ up' = TRUE
    /\ entries' = Unexpired(file)
    /\ UNCHANGED <<now, file, torn, guardMu, deployM, pc, req, deployed, acked,
                   crashes, faults>>

\* No request under way outlives its reservation.
Tick ==
    /\ now < MaxTime
    /\ \A h \in Handlers : pc[h] # "idle" => entries[req[h].id] > now + 1
    /\ now' = now + 1
    /\ UNCHANGED <<up, entries, file, torn, guardMu, deployM, pc, req, deployed, acked,
                   crashes, faults>>

Handle(h) == Decode(h) \/ Lock(h) \/ Deploy(h) \/ Unlock(h) \/ Release(h) \/ Commit(h)
                \/ Write(h) \/ WriteFails(h)

Receive(h) == \E r \in Requests : Reserve(h, r) \/ Refuse(h, r)

Next == (\E h \in Handlers : Receive(h) \/ Handle(h)) \/ Crash \/ Restart \/ Tick

Spec == Init /\ [][Next]_vars

\* A handler is scheduled and its deployment returns; a sync.Mutex that is freed
\* again and again is granted in the end to everyone who waits (its starvation mode).
Fairness ==
    \A h \in Handlers : WF_vars(Handle(h)) /\ SF_vars(Lock(h)) /\ SF_vars(Release(h))
                           /\ SF_vars(Commit(h))

FairSpec == Spec /\ Fairness

-----------------------------------------------------------------------------
(* Properties.                                                               *)

\* Two deliveries never replace the artifacts at the same time.
DeploymentsSerialized ==
    \A g, h \in Handlers : pc[g] = "deploy" /\ pc[h] = "deploy" => g = h

\* While the process lives, what was signed deploys at most once under one delivery ID,
\* however often and however late within its validity it is sent again.  Under another
\* ID, which the signature leaves free, it is another request.
DeployedAtMostOnce == crashes = 0 => \A r \in Requests : deployed[r] < 2

\* What a 409 says: a delivery the guard refuses is being served or has been deployed.
RefusalsAreTrue ==
    up => \A d \in Deliveries : Unexpired(entries)[d] # 0 =>
        \/ \E h \in Handlers : pc[h] # "idle" /\ req[h].id = d
        \/ \E r \in Requests : r.id = d /\ deployed[r] > 0

\* While the process lives, what a 409 says is true.
RefusalIsTruthful == crashes = 0 => RefusalsAreTrue

\* A request answered 200 is never accepted again under its delivery ID while its
\* timestamp is valid, in this life of the process or a later one.
AcknowledgedStaysRefused ==
    up => \A r \in acked : Fresh(r.ts) => Unexpired(entries)[r.id] # 0

\* Every request that reserved its delivery is answered.
ReservedIsAnswered == \A h \in Handlers : pc[h] = "decode" ~> pc[h] = "idle"
=============================================================================
