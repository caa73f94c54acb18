------------------------------ MODULE AlertMonitor ------------------------------
(***************************************************************************)
(* Host alerts: internal/alert (sender.go, spike.go), the checks of        *)
(* host/monitor.go and `alert check` of cli/alert.go.                      *)
(*                                                                         *)
(* A run of `alert check` reads the host, loads alert-state.json, compares *)
(* the two, sends what is new or resolved and saves the next state.  The   *)
(* systemd timer and an administrator start runs at any time and no lock   *)
(* keeps them apart.  The timer itself is in ManagedServices.              *)
(*                                                                         *)
(* Simplifications.                                                        *)
(*  - CPU load, memory and disk are Gauges: one reading gives a check and  *)
(*    a metric.  A container's metric is one that may be missing, too.     *)
(*    The lists of failed services and of bad containers are one check,    *)
(*    without its warning that systemctl or docker cannot be run.          *)
(*  - Levels are whole percentages; all gauges share the thresholds.       *)
(*  - A run reads host and state in one step: what lies between is its own.*)
(*  - A dry run sends and saves nothing, and is left out.                  *)
(* Definitions named X_mistake are not part of the model: each is an       *)
(* erroneous variant of X, and a property must tell the two apart.         *)
(***************************************************************************)
EXTENDS Naturals, SequencesExt

CONSTANTS
    Runs,         \* processes that run `alert check`
    Gauges,       \* cpu, memory, disk
    Levels,       \* percentages a gauge may show
    ServiceSets,  \* sets of services that may be found failed at once
    CertSets,     \* sets of states the certificates may be found in at once
    Warning, Critical,                \* the thresholds of the checks
    Increase, Minimum,                \* the rule of a spike, for each gauge
    BaselineSamples, ConsecutiveSamples, Cooldown,
    ExtraSamples, \* samples kept beyond these, 10 in the code
    SpikesEnabled,
    Enabled,      \* the channels that are configured
    ChannelFlags, \* values of --channel; the timer's is "all"
    MaxTime, MaxRuns, MaxFaults,      \* bounds on clock, checks and failures
    None          \* absent; the reading of a gauge that cannot be read

Channels == {"telegram", "email"}
CertStates == {"valid", "expiring", "expired", "unreadable"}

\* A configuration that fails these checks is not loaded.
ValidThresholds == Warning \in 1..99 /\ Critical \in 1..100 /\ Warning < Critical
ValidSpikes ==
    /\ BaselineSamples \in 1..100 /\ ConsecutiveSamples \in 1..20 /\ Cooldown \in 1..10080
    /\ Increase \in [Gauges -> 1..100] /\ Minimum \in [Gauges -> 0..100]

ASSUME ConfigAssumption == ValidThresholds /\ ValidSpikes
ASSUME HostAssumption ==
    /\ Levels \subseteq Nat /\ Enabled \subseteq Channels
    /\ ChannelFlags \subseteq Channels \cup {"all"}
    /\ CertSets \subseteq SUBSET CertStates
    /\ ExtraSamples \in Nat /\ SpikesEnabled \in BOOLEAN
    /\ Gauges \cap {"services", "certificates"} = {}
    /\ None \notin Nat /\ MaxTime \in Nat /\ MaxRuns \in Nat /\ MaxFaults \in Nat

VARIABLES
    now,      \* the clock
    file,     \* alert-state.json
    pc, run,  \* step of a run, and what it has computed
    heard,    \* history: <<subject, what>> a channel has delivered
    open,     \* history: subjects a channel announced and did not resolve
    alerted,  \* history: per channel and gauge, the run that last announced its spike
    overlap,  \* history: two runs were under way at once
    narrow,   \* history: a run was told to use one channel only
    runs, faults

monitor == <<file, pc, run, heard, open, alerted, overlap, narrow, runs>>
vars == <<now, monitor, faults>>

-----------------------------------------------------------------------------
(* The checks of the host.                                                   *)

Names == Gauges \cup {"services", "certificates"}
Readings == [gauge : [Gauges -> Levels \cup {None}], failed : ServiceSets, certs : CertSets]

\* monitorCPU, monitorMemory, monitorDisk: the message of an issue shows the level.
GaugeCheck(level) ==
    IF level = None THEN <<"warning", None>>
    ELSE IF level >= Critical THEN <<"critical", level>>
    ELSE IF level >= Warning THEN <<"warning", level>>
    ELSE None

ServicesCheck(failed) == IF failed = {} THEN None ELSE <<"critical", failed>>

\* Certificates: what cannot be read hides what has expired, and that what will.
CertificatesCheck(certs) ==
    IF "unreadable" \in certs THEN <<"critical", "unreadable">>
    ELSE IF "expired" \in certs THEN <<"critical", "expired">>
    ELSE IF "expiring" \in certs THEN <<"warning", "expiring">>
    ELSE None

\* RunMonitor: the fingerprint of each issue, None for a check that passes.
Issues(r) == [n \in Names |->
    IF n = "services" THEN ServicesCheck(r.failed)
    ELSE IF n = "certificates" THEN CertificatesCheck(r.certs)
    ELSE GaugeCheck(r.gauge[n])]

-----------------------------------------------------------------------------
(* CompareMonitorState and EvaluateResourceSpikes.                           *)

Subjects == ({"check"} \X Names) \cup ({"spike"} \X Gauges)

Recent(s, n) == SubSeq(s, IF Len(s) > n THEN Len(s) - n + 1 ELSE 1, Len(s))

\* The samples that have metric g, in their order.
With(samples, g) == {i \in DOMAIN samples : samples[i][g] # None}
Present(samples, g) ==
    LET with == With(samples, g)
        Nth(k) == CHOOSE i \in with : Cardinality({j \in with : j <= i}) = k
    IN  [k \in 1..Cardinality(with) |-> samples[Nth(k)][g]]

resourceHistoryValues(samples, g) == Recent(Present(samples, g), BaselineSamples)

Total(s) == FoldSeq(LAMBDA x, y : x + y, 0, s)

appendBaseline_unbounded(s, level) == Append(s, level)
appendBaseline(s, level) == Recent(Append(s, level), BaselineSamples)

getResourceSpikeRule(g) == [increase |-> Increase[g], minimum |-> Minimum[g]]

\* As much above the average of the baseline as the rule says, and not below its minimum.
Breached(g, baseline, level) ==
    LET rule == getResourceSpikeRule(g)
    IN  /\ level >= rule.minimum
        /\ level * Len(baseline) >= Total(baseline) + rule.increase * Len(baseline)

NextBaseline_absorbs(known, baseline, level, breached) == appendBaseline(baseline, level)
\* A spike is kept out of the baseline it is measured against.
NextBaseline(known, baseline, level, breached) ==
    IF breached THEN known ELSE appendBaseline(baseline, level)

NextBreaches_keeps(count, breached) == IF breached THEN count + 1 ELSE count
NextBreaches(count, breached) == IF breached THEN count + 1 ELSE 0

Due_again(lastAlert, breaches, t) == breaches >= ConsecutiveSamples
\* A spike is announced once it has lasted, and again only after the cooldown.
Due(lastAlert, breaches, t) ==
    /\ breaches >= ConsecutiveSamples
    /\ lastAlert = None \/ t - lastAlert >= Cooldown

NoSpike(prev, g) == [
    baseline |-> prev.baselines[g], breaches |-> prev.breaches[g],
    active |-> prev.active[g], announce |-> {}, resolve |-> {}]

\* EvaluateResourceSpikes for one metric; it says nothing of one that is not there.
Spike(prev, g, level, t) ==
    LET known == prev.baselines[g]
        baseline == IF known = <<>> THEN resourceHistoryValues(prev.samples, g) ELSE known
        breached == Breached(g, baseline, level)
        breaches == NextBreaches(prev.breaches[g], breached)
        due == breached /\ Due(prev.active[g], breaches, t)
        over == ~breached /\ prev.active[g] # None
    IN  IF level = None THEN NoSpike(prev, g)
        ELSE IF Len(baseline) < BaselineSamples
        THEN [NoSpike(prev, g) EXCEPT !.baseline = appendBaseline(baseline, level)]
        ELSE [baseline |-> NextBaseline(known, baseline, level, breached),
              breaches |-> breaches,
              active |-> IF due THEN t ELSE IF over THEN None ELSE prev.active[g],
              announce |-> IF due THEN {<<<<"spike", g>>, level>>} ELSE {},
              resolve |-> IF over THEN {<<"spike", g>>} ELSE {}]

EmptyState == [
    issues |-> [n \in Names |-> None], samples |-> <<>>,
    baselines |-> [g \in Gauges |-> <<>>], breaches |-> [g \in Gauges |-> 0],
    active |-> [g \in Gauges |-> None]]

New(prev, issues) == {n \in Names : issues[n] # None /\ issues[n] # prev.issues[n]}

Gone(prev, issues) == {n \in Names : prev.issues[n] # None /\ issues[n] = None}

\* What a run of `alert check` computes from a reading and the state it loaded.
Delta(prev, r, t) ==
    LET issues == Issues(r)
        spikes == [g \in Gauges |-> IF SpikesEnabled THEN Spike(prev, g, r.gauge[g], t)
                                                     ELSE NoSpike(prev, g)]
        samples == Recent(Append(prev.samples, r.gauge),
                          BaselineSamples + ConsecutiveSamples + ExtraSamples)
    IN  [announce |-> {<<<<"check", n>>, issues[n]>> : n \in New(prev, issues)}
                          \cup UNION {spikes[g].announce : g \in Gauges},
         resolve |-> {<<"check", n>> : n \in Gone(prev, issues)}
                          \cup UNION {spikes[g].resolve : g \in Gauges},
         next |-> [issues |-> issues,
                   samples |-> IF SpikesEnabled THEN samples ELSE prev.samples,
                   baselines |-> [g \in Gauges |-> spikes[g].baseline],
                   breaches |-> [g \in Gauges |-> spikes[g].breaches],
                   active |-> [g \in Gauges |-> spikes[g].active]]]

-----------------------------------------------------------------------------
(* A run of `alert check`.                                                   *)

NoRun == [announce |-> {}, resolve |-> {}, next |-> EmptyState, todo |-> {},
          failed |-> FALSE, at |-> 0]

Init ==
    /\ now = 0 /\ file = EmptyState
    /\ pc = [p \in Runs |-> "idle"] /\ run = [p \in Runs |-> NoRun]
    /\ heard = [c \in Channels |-> {}] /\ open = [c \in Channels |-> {}]
    /\ alerted = [c \in Channels |-> [g \in Gauges |-> None]]
    /\ overlap = FALSE /\ narrow = FALSE
    /\ runs = 0 /\ faults = 0

Requested(channel) == {c \in Enabled : channel \in {"all", c}}

\* Telegram comes first.
FirstOf(todo) == IF "telegram" \in todo THEN "telegram" ELSE "email"

End(p) == /\ pc' = [pc EXCEPT ![p] = "idle"]
          /\ run' = [run EXCEPT ![p] = NoRun]

\* The run fails before it has sent anything when no channel it may use is enabled.
Check(p) == \E r \in Readings, channel \in ChannelFlags :
    LET delta == Delta(file, r, now)
        quiet == delta.announce = {} /\ delta.resolve = {}
        todo == IF quiet THEN {} ELSE Requested(channel)
        step == IF quiet THEN "save" ELSE IF todo = {} THEN "idle" ELSE "send"
    IN  /\ pc[p] = "idle" /\ runs < MaxRuns
        /\ runs' = runs + 1
        /\ overlap' = (overlap \/ \E q \in Runs : pc[q] # "idle")
        /\ narrow' = (narrow \/ (channel # "all" /\ ~quiet))
        /\ pc' = [pc EXCEPT ![p] = step]
        /\ run' = [run EXCEPT ![p] = IF step = "idle" THEN NoRun ELSE
              [announce |-> delta.announce, resolve |-> delta.resolve,
               next |-> delta.next, todo |-> todo, failed |-> FALSE, at |-> now]]
        /\ UNCHANGED <<now, file, heard, open, alerted, faults>>

AfterSend_anyway(failed) == "save"
\* Send returns the errors of all channels: the state is saved when there are none.
AfterSend(failed) == IF failed THEN "idle" ELSE "save"

\* The run goes on to its next channel, or Send returns.
Sent(p, failed) ==
    LET rest == run[p].todo \ {FirstOf(run[p].todo)}
        next == IF rest # {} THEN "send" ELSE AfterSend(failed)
    IN  /\ pc' = [pc EXCEPT ![p] = next]
        /\ run' = [run EXCEPT ![p] = IF next = "idle" THEN NoRun
                                     ELSE [@ EXCEPT !.todo = rest, !.failed = failed]]

Deliver(p) ==
    LET c == FirstOf(run[p].todo)
        subjects == {a[1] : a \in run[p].announce}
    IN  /\ pc[p] = "send"
        /\ heard' = [heard EXCEPT ![c] = @ \cup run[p].announce]
        /\ open' = [open EXCEPT ![c] = (@ \cup subjects) \ run[p].resolve]
        /\ alerted' = [alerted EXCEPT ![c] = [g \in Gauges |->
              IF <<"spike", g>> \in subjects THEN run[p].at ELSE @[g]]]
        /\ Sent(p, run[p].failed)
        /\ UNCHANGED <<now, file, overlap, narrow, runs, faults>>

Undelivered(p) ==
    /\ pc[p] = "send" /\ faults < MaxFaults
    /\ faults' = faults + 1
    /\ Sent(p, TRUE)
    /\ UNCHANGED <<now, file, heard, open, alerted, overlap, narrow, runs>>

\* SaveMonitorState replaces the file in one rename.
Save(p) ==
    /\ pc[p] = "save"
    /\ file' = run[p].next
    /\ End(p)
    /\ UNCHANGED <<now, heard, open, alerted, overlap, narrow, runs, faults>>

\* The save fails, or the process dies: its temporary file is never the state.
Abort(p) ==
    /\ pc[p] \in {"send", "save"} /\ faults < MaxFaults
    /\ faults' = faults + 1
    /\ End(p)
    /\ UNCHANGED <<now, file, heard, open, alerted, overlap, narrow, runs>>

Tick ==
    /\ now < MaxTime
    /\ now' = now + 1
    /\ UNCHANGED <<monitor, faults>>

Next == \/ \E p \in Runs : Check(p) \/ Deliver(p) \/ Undelivered(p) \/ Save(p) \/ Abort(p)
        \/ Tick

Spec == Init /\ [][Next]_vars

-----------------------------------------------------------------------------
(* Properties.                                                               *)

Prints(n) == IF n \in Gauges THEN {<<"warning", None>>}
                                     \cup ({"warning", "critical"} \X Levels)
             ELSE IF n = "services" THEN {"critical"} \X ServiceSets
             ELSE {"warning", "critical"} \X CertStates

States(s) ==
    /\ \A n \in Names : s.issues[n] \in Prints(n) \cup {None}
    /\ Len(s.samples) <= BaselineSamples + ConsecutiveSamples + ExtraSamples
    /\ \A g \in Gauges :
          /\ s.baselines[g] \in Seq(Levels) /\ Len(s.baselines[g]) <= BaselineSamples
          /\ s.breaches[g] \in 0..MaxRuns /\ s.active[g] \in 0..MaxTime \cup {None}

\* Types; the state file stays bounded however many checks are run.
TypeOK ==
    /\ now \in 0..MaxTime /\ runs \in 0..MaxRuns /\ faults \in 0..MaxFaults
    /\ States(file) /\ \A p \in Runs : States(run[p].next)
    /\ pc \in [Runs -> {"idle", "send", "save"}]
    /\ overlap \in BOOLEAN /\ narrow \in BOOLEAN
    /\ \A c \in Channels : open[c] \subseteq Subjects

\* Nothing is recorded as known that nobody was told of: whatever fails, dies or
\* overlaps, an issue of the file and an active spike were delivered, and on every
\* channel unless a run was restricted to one.
RecordedIsTold ==
    LET told(some) == /\ \E c \in Enabled : some \cap heard[c] # {}
                      /\ narrow \/ \A c \in Enabled : some \cap heard[c] # {}
    IN  /\ \A n \in Names : file.issues[n] # None =>
              told({<<<<"check", n>>, file.issues[n]>>})
        /\ \A g \in Gauges : file.active[g] # None =>
              told({<<<<"spike", g>>, l>> : l \in Levels})

Since(samples, g, i) == {j \in With(samples, g) : i <= j}

\* A count of breaches, and so an announced spike, is backed by as many samples in a
\* row of the metric that are not below the minimum, as far back as samples are kept.
Sustained(s) == \A g \in Gauges :
    /\ \A i \in With(s.samples, g) :
          Cardinality(Since(s.samples, g, i)) <= s.breaches[g] => s.samples[i][g] >= Minimum[g]
    /\ s.active[g] # None => s.breaches[g] >= ConsecutiveSamples

\* A spike that is recorded has lasted for the samples in a row it must last, and
\* between two announcements of it on one channel lies the cooldown or its recovery,
\* which is only claimed while nothing fails, no runs overlap and none is told to
\* leave a channel out.
\* (EvaluateResourceSpikes.)
SpikeIsWarranted == [][
    /\ Sustained(file')
    /\ faults' = 0 /\ ~overlap' /\ ~narrow' => \A c \in Channels, g \in Gauges :
          <<"spike", g>> \in open[c] /\ alerted'[c][g] # alerted[c][g] =>
              alerted'[c][g] - alerted[c][g] >= Cooldown ]_vars

\* A run of breaches leaves the baseline it is measured against as it is.
SpikesStayOutOfBaseline == [][
    ~overlap' => \A g \in Gauges :
        file'.breaches[g] > file.breaches[g] => file'.baselines[g] = file.baselines[g] ]_vars

=============================================================================
