---------------------------- MODULE ManagedServices ----------------------------
(***************************************************************************)
(* What Omurga hands over to systemd and to Docker besides the projects:   *)
(* the timers of the alert monitor and of backups (alert/schedule.go,      *)
(* backup/manager.go, cli/alert.go, cli/backup.go), the service of the     *)
(* webhook server (webhook/service.go, cli/webhook.go), shared services    *)
(* (shared/service.go, cli/service.go) and the monitoring stack            *)
(* (monitoring/stack.go, cli/monitoring.go).                               *)
(*                                                                         *)
(* A command is a list of steps, each a file that is replaced or removed   *)
(* or a command of systemd or Docker.  The first step that fails ends it,  *)
(* with what it has done left as it is.  No lock is taken, and a process   *)
(* may die, or the host restart, between two steps.                        *)
(*                                                                         *)
(* Simplifications.                                                        *)
(*  - The content of a unit is the number of the command that wrote it; a  *)
(*    Compose file is there or not.  Its schedule, image and ports have    *)
(*    been validated before the first step.                                *)
(*  - systemd and Docker are external: `enable` and `disable` need the     *)
(*    unit's file and read it anew, `up` and `down` need the Compose file, *)
(*    and a failed `up` or `down` leaves some of the containers.           *)
(* Definitions named X_mistake are not part of the model: each is an       *)
(* erroneous variant of X, and a property must tell the two apart.         *)
(***************************************************************************)
EXTENDS Naturals, Sequences, FiniteSets

CONSTANTS
    Clients,  \* processes that run a command
    Alert,    \* the timer of the alert monitor
    Backups,  \* timers of backups
    Webhook,  \* the service of the webhook server
    Shared,   \* shared services
    Monitoring, \* the monitoring stack
    Nothing,
    MaxOrders, MaxFailures, MaxStops  \* bounds

ScheduleTimers == Backups \cup {Alert}
Units == ScheduleTimers \cup {Webhook}
Stacks == Shared \cup {Monitoring}
Things == Units \cup Stacks

ASSUME ThingsAssumption == Units \cap Stacks = {} /\ Webhook \notin ScheduleTimers
ASSUME NothingAssumption ==
    /\ Nothing \notin Things /\ Nothing \notin Nat
    /\ Nothing \notin {"schedule", "unschedule", "install", "remove"}

VARIABLES
    managed,  \* the files and what systemd and Docker make of them
    order, todo, \* what a client works on and the steps it has left
    told,     \* history: what the last command about a thing reported
    mixed,    \* history: things two commands worked on at once
    ignored,  \* history: timers whose failure to stop was not reported
    orders, failures, stops

managedBounds == <<orders, failures, stops>>
managedVars == <<managed, order, todo, told, mixed, ignored, managedBounds>>

NoUnit == [service |-> Nothing, timer |-> Nothing]
NoOrder == [op |-> Nothing, on |-> Nothing, number |-> 0, purge |-> FALSE, password |-> FALSE]
Unreported == [op |-> Nothing, number |-> 0, purge |-> FALSE]

ManagedInit ==
    /\ managed = [unit |-> [u \in Units |-> NoUnit], loaded |-> [u \in Units |-> NoUnit],
                  enabled |-> {}, active |-> {}, process |-> Nothing,
                  compose |-> {}, containers |-> [s \in Stacks |-> "none"], data |-> {},
                  network |-> FALSE, password |-> FALSE]
    /\ order = [c \in Clients |-> NoOrder] /\ todo = [c \in Clients |-> <<>>]
    /\ told = [x \in Things |-> Unreported]
    /\ mixed = {} /\ ignored = {}
    /\ orders = 0 /\ failures = 0 /\ stops = 0

-----------------------------------------------------------------------------
(* The commands and their steps.                                             *)

UnscheduleSteps_filesFirst == <<"unlink-service", "unlink-timer", "disable", "reload">>
\* A timer is stopped before its files are removed.
UnscheduleSteps == <<"disable", "unlink-service", "unlink-timer", "reload">>

RemoveSteps_fileFirst(purge) ==
    IF purge THEN <<"stat", "unlink-compose", "down", "purge">>
    ELSE <<"stat", "unlink-compose", "down">>
\* The Compose file is there for as long as containers are.
RemoveSteps(purge) ==
    IF purge THEN <<"stat", "down", "unlink-compose", "purge">>
    ELSE <<"stat", "down", "unlink-compose">>

ScheduleSteps == <<"service", "timer", "reload", "enable">>
ServeSteps == <<"service", "reload", "enable">>
InstallSharedSteps == <<"data", "network", "compose", "up">>
InstallMonitoringSteps == <<"password", "data", "compose", "up">>

StepsOf(o) ==
    CASE o.op = "schedule"   -> IF o.on = Webhook THEN ServeSteps ELSE ScheduleSteps
      [] o.op = "unschedule" -> UnscheduleSteps
      [] o.op = "install"    -> IF o.on = Monitoring THEN InstallMonitoringSteps ELSE InstallSharedSteps
      [] o.op = "remove"     -> RemoveSteps(o.purge)

\* The webhook service is installed and never removed.
Orders ==
    [op : {"schedule"}, on : Units, purge : {FALSE}, password : {FALSE}] \cup
    [op : {"unschedule"}, on : ScheduleTimers, purge : {FALSE}, password : {FALSE}] \cup
    [op : {"install"}, on : Shared, purge : {FALSE}, password : {FALSE}] \cup
    [op : {"install"}, on : {Monitoring}, purge : {FALSE}, password : BOOLEAN] \cup
    [op : {"remove"}, on : Stacks, purge : BOOLEAN, password : {FALSE}]

MainFile(u) == IF u = Webhook THEN managed.unit[u].service ELSE managed.unit[u].timer

\* A step succeeds when nothing external fails.  `monitoring install` hands the path of
\* the password to EnsurePassword as it was given, and without one that fails.
Succeeds(o, step) ==
    CASE step \in {"enable", "disable"} -> MainFile(o.on) # Nothing
      [] step \in {"stat", "down"} -> o.on \in managed.compose
      [] step = "password" -> o.password
      [] step = "up" -> /\ o.on \in managed.compose
                        /\ IF o.on = Monitoring THEN managed.password ELSE managed.network
      [] step = "unlink-compose" -> o.on \in managed.compose \cup {Monitoring}
      [] OTHER -> TRUE

Outcome(o, step) ==
    LET m == managed IN
    CASE step = "service" -> [m EXCEPT !.unit[o.on].service = o.number]
      [] step = "timer" -> [m EXCEPT !.unit[o.on].timer = o.number]
      [] step = "unlink-service" -> [m EXCEPT !.unit[o.on].service = Nothing]
      [] step = "unlink-timer" -> [m EXCEPT !.unit[o.on].timer = Nothing]
      [] step = "reload" -> [m EXCEPT !.loaded = m.unit]
      [] step = "enable" ->
            [m EXCEPT !.loaded = m.unit, !.enabled = @ \cup {o.on}, !.active = @ \cup {o.on},
                      !.process = IF o.on = Webhook /\ Webhook \notin m.active
                                  THEN m.unit[Webhook].service ELSE @]
      [] step = "disable" ->
            [m EXCEPT !.loaded = m.unit, !.enabled = @ \ {o.on}, !.active = @ \ {o.on}]
      [] step = "password" -> [m EXCEPT !.password = TRUE]
      [] step = "data" -> [m EXCEPT !.data = @ \cup {o.on}]
      [] step = "network" -> [m EXCEPT !.network = TRUE]
      [] step = "compose" -> [m EXCEPT !.compose = @ \cup {o.on}]
      [] step = "up" -> [m EXCEPT !.containers[o.on] = "all"]
      [] step = "down" -> [m EXCEPT !.containers[o.on] = "none"]
      [] step = "unlink-compose" -> [m EXCEPT !.compose = @ \ {o.on}]
      [] step = "purge" -> [m EXCEPT !.data = @ \ {o.on}]
      [] step = "stat" -> m

\* What a step that failed may have done.
Remains(o, step) ==
    {managed} \cup (IF ~Succeeds(o, step) THEN {}
                    ELSE IF step \in {"up", "down"}
                         THEN {[managed EXCEPT !.containers[o.on] = "some"]}
                         ELSE {Outcome(o, step)})

-----------------------------------------------------------------------------
Give(c) == \E o \in Orders :
    /\ todo[c] = <<>> /\ orders < MaxOrders
    /\ orders' = orders + 1
    /\ LET numbered == [op |-> o.op, on |-> o.on, purge |-> o.purge, password |-> o.password,
                        number |-> orders']
       IN  /\ order' = [order EXCEPT ![c] = numbered]
           /\ todo' = [todo EXCEPT ![c] = StepsOf(numbered)]
    /\ mixed' = IF \E d \in Clients : todo[d] # <<>> /\ order[d].on = o.on THEN mixed \cup {o.on} ELSE mixed
    /\ UNCHANGED <<managed, told, ignored, failures, stops>>

Report(c, report) ==
    /\ told' = [told EXCEPT ![order[c].on] = report]
    /\ todo' = [todo EXCEPT ![c] = <<>>]
    /\ order' = [order EXCEPT ![c] = NoOrder]

\* The rest of the command after a step that is taken for done.  A webhook server that
\* runs keeps the unit it was started with.
Proceed(c) ==
    LET o == order[c]
        stale == o.on = Webhook /\ managed'.process # o.number
    IN  IF Tail(todo[c]) = <<>>
        THEN Report(c, IF stale THEN Unreported
                       ELSE [op |-> o.op, number |-> o.number, purge |-> o.purge])
        ELSE /\ todo' = [todo EXCEPT ![c] = Tail(@)]
             /\ UNCHANGED <<order, told>>

Tolerated_always(o, step) == step = "disable"
\* Only the failure to stop a backup timer is ignored.
Tolerated(o, step) == step = "disable" /\ o.on \in Backups

\* The step has failed; one that is tolerated is never the last.
GiveUp(c) ==
    IF Tolerated(order[c], Head(todo[c]))
    THEN /\ todo' = [todo EXCEPT ![c] = Tail(@)]
         /\ ignored' = ignored \cup ({order[c].on} \cap Backups)
         /\ UNCHANGED <<order, told>>
    ELSE Report(c, Unreported) /\ UNCHANGED ignored

Perform(c) ==
    /\ todo[c] # <<>>
    /\ LET o == order[c]
           step == Head(todo[c])
       IN  IF Succeeds(o, step)
           THEN managed' = Outcome(o, step) /\ Proceed(c) /\ UNCHANGED ignored
           ELSE UNCHANGED managed /\ GiveUp(c)
    /\ UNCHANGED <<mixed, managedBounds>>

PerformFails(c) ==
    /\ todo[c] # <<>> /\ failures < MaxFailures
    /\ failures' = failures + 1
    /\ managed' \in Remains(order[c], Head(todo[c]))
    /\ GiveUp(c)
    /\ UNCHANGED <<mixed, orders, stops>>

Interrupt(c) ==
    /\ todo[c] # <<>> /\ stops < MaxStops
    /\ stops' = stops + 1
    /\ Report(c, Unreported)
    /\ UNCHANGED <<managed, mixed, ignored, orders, failures>>

\* Every command ends, the units that are enabled start with the files there are, and
\* Docker starts its containers again.
RestartHost ==
    /\ stops < MaxStops
    /\ stops' = stops + 1
    /\ managed' = [managed EXCEPT
          !.loaded = managed.unit,
          !.active = {u \in managed.enabled : MainFile(u) # Nothing},
          !.process = IF Webhook \in managed.enabled THEN managed.unit[Webhook].service ELSE Nothing]
    /\ told' = [x \in Things |-> IF \E c \in Clients : todo[c] # <<>> /\ order[c].on = x
                                 THEN Unreported ELSE told[x]]
    /\ todo' = [c \in Clients |-> <<>>] /\ order' = [c \in Clients |-> NoOrder]
    /\ UNCHANGED <<mixed, ignored, orders, failures>>

ManagedNext ==
    \/ \E c \in Clients : Give(c) \/ Perform(c) \/ PerformFails(c) \/ Interrupt(c)
    \/ RestartHost

ManagedSpec == ManagedInit /\ [][ManagedNext]_managedVars

-----------------------------------------------------------------------------
(* Properties.                                                               *)

\* What runs has the files without which it cannot be stopped again: a timer both of its
\* units, containers their Compose file.  So a removal that failed or died half way can
\* be run again.  Unless two commands worked on it at once, or a backup timer did not
\* stop and `backup unschedule` went on.
RunningIsRemovable ==
    /\ \A u \in managed.active \ (mixed \cup ignored) :
          MainFile(u) # Nothing /\ managed.unit[u].service # Nothing
    /\ \A s \in Stacks \ mixed : managed.containers[s] # "none" => s \in managed.compose

\* What the last command reported is in effect until the next one begins: the schedule
\* that was asked for is the one systemd follows, a removed timer is gone, the installed
\* stack runs, and of a removed one nothing runs and, purged, no data is left; with the
\* same exceptions.
ToldIsInEffect ==
    \A x \in Things \ (mixed \cup ignored) :
        (\E c \in Clients : todo[c] # <<>> /\ order[c].on = x) \/
        CASE told[x].op = "schedule" ->
                /\ x \in managed.active \cap managed.enabled
                /\ managed.loaded[x].service = told[x].number
                /\ x # Webhook => managed.loaded[x].timer = told[x].number
          [] told[x].op = "unschedule" -> x \notin managed.active /\ managed.unit[x] = NoUnit
          [] told[x].op = "install" -> managed.containers[x] = "all"
          [] told[x].op = "remove" ->
                managed.containers[x] = "none" /\ (told[x].purge => x \notin managed.data)
          [] OTHER -> TRUE
=============================================================================
