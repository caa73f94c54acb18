------------------------------ MODULE Host_proofs ------------------------------
(***************************************************************************)
(* Proofs about ManagedServices and HostSetup.                             *)
(***************************************************************************)
EXTENDS HostSetup, ManagedServices, SequenceTheorems, TLAPS

-----------------------------------------------------------------------------
(* The order of the steps.                                                   *)

\* What is left of a command, as long as something is.
Chain3(a, b, c) == {<<a, b, c>>, <<b, c>>, <<c>>}
Chain4(a, b, c, d) == {<<a, b, c, d>>} \cup Chain3(b, c, d)

Suffixes(o) ==
    CASE o.op = "schedule" /\ o.on # Webhook -> Chain4("service", "timer", "reload", "enable")
      [] o.op = "schedule" /\ o.on = Webhook -> Chain3("service", "reload", "enable")
      [] o.op = "unschedule" -> Chain4("disable", "unlink-service", "unlink-timer", "reload")
      [] o.op = "install" /\ o.on # Monitoring -> Chain4("data", "network", "compose", "up")
      [] o.op = "install" /\ o.on = Monitoring -> Chain4("password", "data", "compose", "up")
      [] o.op = "remove" /\ o.purge -> Chain4("stat", "down", "unlink-compose", "purge")
      [] o.op = "remove" /\ ~o.purge -> Chain3("stat", "down", "unlink-compose")

Ops == {"schedule", "unschedule", "install", "remove"}

NextOf(t) == IF t = <<>> THEN "end" ELSE Head(t)

\* The next step of a command and the one that comes after it.
Follows(o, now, next) ==
    CASE o.op = "schedule" ->
            \/ o.on # Webhook /\ <<now, next>> \in {<<"service", "timer">>, <<"timer", "reload">>}
            \/ o.on = Webhook /\ <<now, next>> = <<"service", "reload">>
            \/ <<now, next>> \in {<<"reload", "enable">>, <<"enable", "end">>}
      [] o.op = "unschedule" ->
            <<now, next>> \in {<<"disable", "unlink-service">>, <<"unlink-service", "unlink-timer">>,
                               <<"unlink-timer", "reload">>, <<"reload", "end">>}
      [] o.op = "install" ->
            \/ now \in {"password", "data", "network"} /\ next \in {"data", "network", "compose"}
            \/ <<now, next>> \in {<<"compose", "up">>, <<"up", "end">>}
      [] o.op = "remove" ->
            \/ <<now, next>> \in {<<"stat", "down">>, <<"down", "unlink-compose">>}
            \/ o.purge /\ <<now, next>> \in {<<"unlink-compose", "purge">>, <<"purge", "end">>}
            \/ ~o.purge /\ <<now, next>> = <<"unlink-compose", "end">>

\* The rest of a chain and its first two steps.
LEMMA ChainFacts ==
    ASSUME NEW a, NEW b, NEW c, NEW d, NEW t \in Chain4(a, b, c, d)
    PROVE  /\ t # <<>> /\ (Tail(t) = <<>> \/ Tail(t) \in Chain3(b, c, d))
           /\ <<Head(t), NextOf(Tail(t))>> \in {<<a, b>>, <<b, c>>, <<c, d>>, <<d, "end">>}
           /\ t \in Chain3(b, c, d) =>
                 <<Head(t), NextOf(Tail(t))>> \in {<<b, c>>, <<c, d>>, <<d, "end">>}
<1>0. ASSUME NEW e PROVE <<e>> # <<>> /\ Head(<<e>>) = e /\ Tail(<<e>>) = <<>>
  OBVIOUS
<1>1. <<c, d>> # <<>> /\ Head(<<c, d>>) = c /\ Tail(<<c, d>>) = <<d>>
  OBVIOUS
<1>2. <<b, c, d>> # <<>> /\ Head(<<b, c, d>>) = b /\ Tail(<<b, c, d>>) = <<c, d>>
  OBVIOUS
<1>3. /\ <<a, b, c, d>> # <<>> /\ Head(<<a, b, c, d>>) = a
      /\ Tail(<<a, b, c, d>>) = <<b, c, d>>
  OBVIOUS
<1>4. NextOf(<<>>) = "end" /\ NextOf(<<d>>) = d /\ NextOf(<<c, d>>) = c /\ NextOf(<<b, c, d>>) = b
  BY <1>0, <1>1, <1>2 DEF NextOf
<1>5. CASE t = <<a, b, c, d>>
  <2>1. t \notin Chain3(b, c, d) BY <1>5 DEF Chain3
  <2> QED BY <1>5, <1>3, <1>4, <2>1 DEF Chain3
<1>6. CASE t = <<b, c, d>>
  BY <1>6, <1>2, <1>4 DEF Chain3
<1>7. CASE t = <<c, d>>
  BY <1>7, <1>1, <1>4 DEF Chain3
<1>8. CASE t = <<d>>
  BY <1>8, <1>0, <1>4 DEF Chain3
<1> QED BY <1>5, <1>6, <1>7, <1>8 DEF Chain3, Chain4

\* Each step of a command leads to its next step, or to its end.
LEMMA StepFollows ==
    ASSUME NEW o, o.op \in Ops, o.purge \in BOOLEAN, NEW t \in Suffixes(o)
    PROVE  /\ t # <<>> /\ Follows(o, Head(t), NextOf(Tail(t)))
           /\ Tail(t) = <<>> \/ Tail(t) \in Suffixes(o)
<1> DEFINE now == Head(t)
           next == NextOf(Tail(t))
<1>1. CASE o.op = "schedule" /\ o.on # Webhook
  <2>1. Suffixes(o) = Chain4("service", "timer", "reload", "enable")
    BY <1>1 DEF Suffixes
  <2>2. t \in Chain4("service", "timer", "reload", "enable") BY <2>1
  <2>3. /\ t # <<>> /\ (Tail(t) = <<>> \/ Tail(t) \in Chain3("timer", "reload", "enable"))
        /\ <<now, next>> \in {<<"service", "timer">>, <<"timer", "reload">>, <<"reload", "enable">>, <<"enable", "end">>}
    BY ONLY <2>2, ChainFacts
  <2>4. Tail(t) \in Chain3("timer", "reload", "enable") => Tail(t) \in Suffixes(o) BY <2>1 DEF Chain4
  <2>5. Follows(o, now, next) BY <2>3, <1>1 DEF Follows
  <2> QED BY <2>3, <2>4, <2>5
<1>2. CASE o.op = "schedule" /\ o.on = Webhook
  <2>1. Suffixes(o) = Chain3("service", "reload", "enable")
    BY <1>2 DEF Suffixes
  <2>2. t \in Chain4("none", "service", "reload", "enable") /\ t \in Chain3("service", "reload", "enable") BY <2>1 DEF Chain4
  <2>3. /\ t # <<>> /\ (Tail(t) = <<>> \/ Tail(t) \in Chain3("service", "reload", "enable"))
        /\ <<now, next>> \in {<<"service", "reload">>, <<"reload", "enable">>, <<"enable", "end">>}
    BY ONLY <2>2, ChainFacts
  <2>4. Tail(t) \in Chain3("service", "reload", "enable") => Tail(t) \in Suffixes(o) BY <2>1 DEF Chain4
  <2>5. Follows(o, now, next) BY <2>3, <1>2 DEF Follows
  <2> QED BY <2>3, <2>4, <2>5
<1>3. CASE o.op = "unschedule"
  <2>1. Suffixes(o) = Chain4("disable", "unlink-service", "unlink-timer", "reload")
    BY <1>3 DEF Suffixes
  <2>2. t \in Chain4("disable", "unlink-service", "unlink-timer", "reload") BY <2>1
  <2>3. /\ t # <<>> /\ (Tail(t) = <<>> \/ Tail(t) \in Chain3("unlink-service", "unlink-timer", "reload"))
        /\ <<now, next>> \in {<<"disable", "unlink-service">>, <<"unlink-service", "unlink-timer">>, <<"unlink-timer", "reload">>, <<"reload", "end">>}
    BY ONLY <2>2, ChainFacts
  <2>4. Tail(t) \in Chain3("unlink-service", "unlink-timer", "reload") => Tail(t) \in Suffixes(o) BY <2>1 DEF Chain4
  <2>5. Follows(o, now, next) BY <2>3, <1>3 DEF Follows
  <2> QED BY <2>3, <2>4, <2>5
<1>4. CASE o.op = "install" /\ o.on # Monitoring
  <2>1. Suffixes(o) = Chain4("data", "network", "compose", "up")
    BY <1>4 DEF Suffixes
  <2>2. t \in Chain4("data", "network", "compose", "up") BY <2>1
  <2>3. /\ t # <<>> /\ (Tail(t) = <<>> \/ Tail(t) \in Chain3("network", "compose", "up"))
        /\ <<now, next>> \in {<<"data", "network">>, <<"network", "compose">>, <<"compose", "up">>, <<"up", "end">>}
    BY ONLY <2>2, ChainFacts
  <2>4. Tail(t) \in Chain3("network", "compose", "up") => Tail(t) \in Suffixes(o) BY <2>1 DEF Chain4
  <2>5. Follows(o, now, next) BY <2>3, <1>4 DEF Follows
  <2> QED BY <2>3, <2>4, <2>5
<1>5. CASE o.op = "install" /\ o.on = Monitoring
  <2>1. Suffixes(o) = Chain4("password", "data", "compose", "up")
    BY <1>5 DEF Suffixes
  <2>2. t \in Chain4("password", "data", "compose", "up") BY <2>1
  <2>3. /\ t # <<>> /\ (Tail(t) = <<>> \/ Tail(t) \in Chain3("data", "compose", "up"))
        /\ <<now, next>> \in {<<"password", "data">>, <<"data", "compose">>, <<"compose", "up">>, <<"up", "end">>}
    BY ONLY <2>2, ChainFacts
  <2>4. Tail(t) \in Chain3("data", "compose", "up") => Tail(t) \in Suffixes(o) BY <2>1 DEF Chain4
  <2>5. Follows(o, now, next) BY <2>3, <1>5 DEF Follows
  <2> QED BY <2>3, <2>4, <2>5
<1>6. CASE o.op = "remove" /\ o.purge
  <2>1. Suffixes(o) = Chain4("stat", "down", "unlink-compose", "purge")
    BY <1>6 DEF Suffixes
  <2>2. t \in Chain4("stat", "down", "unlink-compose", "purge") BY <2>1
  <2>3. /\ t # <<>> /\ (Tail(t) = <<>> \/ Tail(t) \in Chain3("down", "unlink-compose", "purge"))
        /\ <<now, next>> \in {<<"stat", "down">>, <<"down", "unlink-compose">>, <<"unlink-compose", "purge">>, <<"purge", "end">>}
    BY ONLY <2>2, ChainFacts
  <2>4. Tail(t) \in Chain3("down", "unlink-compose", "purge") => Tail(t) \in Suffixes(o) BY <2>1 DEF Chain4
  <2>5. Follows(o, now, next) BY <2>3, <1>6 DEF Follows
  <2> QED BY <2>3, <2>4, <2>5
<1>7. CASE o.op = "remove" /\ ~o.purge
  <2>1. Suffixes(o) = Chain3("stat", "down", "unlink-compose")
    BY <1>7 DEF Suffixes
  <2>2. t \in Chain4("none", "stat", "down", "unlink-compose") /\ t \in Chain3("stat", "down", "unlink-compose") BY <2>1 DEF Chain4
  <2>3. /\ t # <<>> /\ (Tail(t) = <<>> \/ Tail(t) \in Chain3("stat", "down", "unlink-compose"))
        /\ <<now, next>> \in {<<"stat", "down">>, <<"down", "unlink-compose">>, <<"unlink-compose", "end">>}
    BY ONLY <2>2, ChainFacts
  <2>4. Tail(t) \in Chain3("stat", "down", "unlink-compose") => Tail(t) \in Suffixes(o) BY <2>1 DEF Chain4
  <2>5. Follows(o, now, next) BY <2>3, <1>7 DEF Follows
  <2> QED BY <2>3, <2>4, <2>5
<1> QED BY <1>1, <1>2, <1>3, <1>4, <1>5, <1>6, <1>7 DEF Ops

\* What a command begins with.
LEMMA FirstSteps ==
    ASSUME NEW o, o.op \in Ops, o.purge \in BOOLEAN
    PROVE  /\ StepsOf(o) \in Suffixes(o)
           /\ NextOf(StepsOf(o)) \in {"service", "disable", "password", "data", "stat"}
<1> DEFINE First == {"service", "disable", "password", "data", "stat"}
<1>0. ASSUME NEW a, NEW b, NEW c, NEW d
      PROVE  <<a, b, c, d>> \in Chain4(a, b, c, d) /\ NextOf(<<a, b, c, d>>) = a
  <2>1. <<a, b, c, d>> # <<>> /\ Head(<<a, b, c, d>>) = a
    OBVIOUS
  <2> QED BY <2>1 DEF Chain4, NextOf
<1>9. ASSUME NEW a, NEW b, NEW c
      PROVE  <<a, b, c>> \in Chain3(a, b, c) /\ NextOf(<<a, b, c>>) = a
  <2>1. <<a, b, c>> # <<>> /\ Head(<<a, b, c>>) = a
    OBVIOUS
  <2> QED BY <2>1 DEF Chain3, NextOf
<1>1. CASE o.op = "schedule" /\ o.on # Webhook
  <2>2. StepsOf(o) = <<"service", "timer", "reload", "enable">> BY <1>1 DEF StepsOf, ScheduleSteps
  <2>3. Suffixes(o) = Chain4("service", "timer", "reload", "enable") BY <1>1 DEF Suffixes
  <2>4. <<"service", "timer", "reload", "enable">> \in Chain4("service", "timer", "reload", "enable") /\ NextOf(<<"service", "timer", "reload", "enable">>) = "service" BY ONLY <1>0
  <2> QED BY <2>2, <2>3, <2>4
<1>2. CASE o.op = "schedule" /\ o.on = Webhook
  <2>2. StepsOf(o) = <<"service", "reload", "enable">> BY <1>2 DEF StepsOf, ServeSteps
  <2>3. Suffixes(o) = Chain3("service", "reload", "enable") BY <1>2 DEF Suffixes
  <2>4. <<"service", "reload", "enable">> \in Chain3("service", "reload", "enable") /\ NextOf(<<"service", "reload", "enable">>) = "service" BY ONLY <1>9
  <2> QED BY <2>2, <2>3, <2>4
<1>3. CASE o.op = "unschedule"
  <2>2. StepsOf(o) = <<"disable", "unlink-service", "unlink-timer", "reload">> BY <1>3 DEF StepsOf, UnscheduleSteps
  <2>3. Suffixes(o) = Chain4("disable", "unlink-service", "unlink-timer", "reload") BY <1>3 DEF Suffixes
  <2>4. <<"disable", "unlink-service", "unlink-timer", "reload">> \in Chain4("disable", "unlink-service", "unlink-timer", "reload") /\ NextOf(<<"disable", "unlink-service", "unlink-timer", "reload">>) = "disable" BY ONLY <1>0
  <2> QED BY <2>2, <2>3, <2>4
<1>4. CASE o.op = "install" /\ o.on # Monitoring
  <2>2. StepsOf(o) = <<"data", "network", "compose", "up">> BY <1>4 DEF StepsOf, InstallSharedSteps
  <2>3. Suffixes(o) = Chain4("data", "network", "compose", "up") BY <1>4 DEF Suffixes
  <2>4. <<"data", "network", "compose", "up">> \in Chain4("data", "network", "compose", "up") /\ NextOf(<<"data", "network", "compose", "up">>) = "data" BY ONLY <1>0
  <2> QED BY <2>2, <2>3, <2>4
<1>5. CASE o.op = "install" /\ o.on = Monitoring
  <2>2. StepsOf(o) = <<"password", "data", "compose", "up">> BY <1>5 DEF StepsOf, InstallMonitoringSteps
  <2>3. Suffixes(o) = Chain4("password", "data", "compose", "up") BY <1>5 DEF Suffixes
  <2>4. <<"password", "data", "compose", "up">> \in Chain4("password", "data", "compose", "up") /\ NextOf(<<"password", "data", "compose", "up">>) = "password" BY ONLY <1>0
  <2> QED BY <2>2, <2>3, <2>4
<1>6. CASE o.op = "remove" /\ o.purge
  <2>2. StepsOf(o) = <<"stat", "down", "unlink-compose", "purge">> BY <1>6 DEF StepsOf, RemoveSteps
  <2>3. Suffixes(o) = Chain4("stat", "down", "unlink-compose", "purge") BY <1>6 DEF Suffixes
  <2>4. <<"stat", "down", "unlink-compose", "purge">> \in Chain4("stat", "down", "unlink-compose", "purge") /\ NextOf(<<"stat", "down", "unlink-compose", "purge">>) = "stat" BY ONLY <1>0
  <2> QED BY <2>2, <2>3, <2>4
<1>7. CASE o.op = "remove" /\ ~o.purge
  <2>2. StepsOf(o) = <<"stat", "down", "unlink-compose">> BY <1>7 DEF StepsOf, RemoveSteps
  <2>3. Suffixes(o) = Chain3("stat", "down", "unlink-compose") BY <1>7 DEF Suffixes
  <2>4. <<"stat", "down", "unlink-compose">> \in Chain3("stat", "down", "unlink-compose") /\ NextOf(<<"stat", "down", "unlink-compose">>) = "stat" BY ONLY <1>9
  <2> QED BY <2>2, <2>3, <2>4
<1> QED BY <1>1, <1>2, <1>3, <1>4, <1>5, <1>6, <1>7 DEF Ops
-----------------------------------------------------------------------------
(* The inductive invariant.                                                  *)

Files == [service : Nat \cup {Nothing}, timer : Nat \cup {Nothing}]

Managed == [unit : [Units -> Files], loaded : [Units -> Files],
            enabled : SUBSET Units, active : SUBSET Units, process : Nat \cup {Nothing},
            compose : SUBSET Stacks, containers : [Stacks -> {"none", "some", "all"}],
            data : SUBSET Stacks, network : BOOLEAN, password : BOOLEAN]

\* Which commands there are for a thing.
Concerns(op, x) ==
    /\ op = "schedule" => x \in Units
    /\ op = "unschedule" => x \in ScheduleTimers
    /\ op \in {"install", "remove"} => x \in Stacks

AtWork(c) == todo[c] # <<>>
On(c, x) == AtWork(c) /\ order[c].on = x

ManagedTypes ==
    /\ managed \in Managed
    /\ orders \in Nat
    /\ mixed \subseteq Things /\ ignored \subseteq Units
    /\ order \in [Clients -> [op : Ops, on : Things, number : Nat, purge : BOOLEAN,
                              password : BOOLEAN] \cup {NoOrder}]
    /\ todo = [c \in Clients |-> todo[c]]
    /\ \A c \in Clients : AtWork(c) =>
          /\ order[c] # NoOrder /\ Concerns(order[c].op, order[c].on)
          /\ todo[c] \in Suffixes(order[c])
    /\ told \in [Things -> [op : Ops \cup {Nothing}, number : Nat, purge : BOOLEAN]]
    /\ \A x \in Things : Concerns(told[x].op, x)

\* Two commands on one thing are seen.
Exclusive ==
    \A c, d \in Clients, x \in Things \ mixed : On(c, x) /\ On(d, x) => c = d

\* What a command has achieved when its next step is s.
Achieved(o, s) ==
    LET m == managed IN
    /\ o.op = "schedule" =>
          /\ s \in {"timer", "reload", "enable"} => m.unit[o.on].service = o.number
          /\ s \in {"reload", "enable"} /\ o.on # Webhook => m.unit[o.on].timer = o.number
    /\ o.op = "unschedule" =>
          /\ s \in {"unlink-service", "unlink-timer", "reload"} =>
                o.on \notin m.active /\ o.on \notin m.enabled
          /\ s \in {"unlink-timer", "reload"} => m.unit[o.on].service = Nothing
          /\ s = "reload" => m.unit[o.on].timer = Nothing
    /\ o.op = "install" /\ s = "up" => o.on \in m.compose
    /\ o.op = "remove" /\ s \in {"unlink-compose", "purge"} => m.containers[o.on] = "none"

\* What runs has its files; what systemd starts with the host, too.
Removable(x) ==
    /\ x \in managed.active \cup managed.enabled =>
          MainFile(x) # Nothing /\ managed.unit[x].service # Nothing
    /\ x \in Stacks /\ managed.containers[x] # "none" => x \in managed.compose

\* What has been told of x holds.
Holds(x) ==
    LET m == managed
        t == told[x] IN
    /\ t.op = "schedule" =>
          /\ x \in m.active /\ x \in m.enabled
          /\ m.loaded[x].service = t.number /\ m.unit[x].service = t.number
          /\ x # Webhook => m.loaded[x].timer = t.number /\ m.unit[x].timer = t.number
    /\ t.op = "unschedule" => x \notin m.active /\ x \notin m.enabled /\ m.unit[x] = NoUnit
    /\ t.op = "install" => m.containers[x] = "all"
    /\ t.op = "remove" => m.containers[x] = "none" /\ (t.purge => x \notin m.data)

Idle(x) == \A c \in Clients : ~On(c, x)

Sound(x) ==
    /\ Removable(x)
    /\ Idle(x) => Holds(x)
    /\ \A c \in Clients : On(c, x) => Achieved(order[c], Head(todo[c]))

ManagedInv ==
    /\ ManagedTypes /\ Exclusive
    /\ \A x \in Things \ (mixed \cup ignored) : Sound(x)

-----------------------------------------------------------------------------
(* What the steps do.                                                        *)

UnitSteps == {"service", "timer", "unlink-service", "unlink-timer", "reload", "enable", "disable"}
StackSteps == {"password", "data", "network", "compose", "up", "down", "unlink-compose",
               "purge", "stat"}

\* A step that works changes nothing of the things it is not about ...
Elsewhere(o, m) == \A x \in Things : x # o.on =>
    /\ x \in Units => /\ m.unit[x] = managed.unit[x]
                      /\ m.loaded[x] \in {managed.loaded[x], managed.unit[x]}
    /\ x \in m.active <=> x \in managed.active
    /\ x \in m.enabled <=> x \in managed.enabled
    /\ x \in Stacks => m.containers[x] = managed.containers[x]
    /\ x \in m.compose <=> x \in managed.compose
    /\ x \in m.data <=> x \in managed.data

\* ... and of its own the unit, or the stack.
UnitEffect(o, s, m) ==
    LET x == o.on IN
    /\ m.unit[x].service = IF s = "service" THEN o.number
                           ELSE IF s = "unlink-service" THEN Nothing ELSE managed.unit[x].service
    /\ m.unit[x].timer = IF s = "timer" THEN o.number
                         ELSE IF s = "unlink-timer" THEN Nothing ELSE managed.unit[x].timer
    /\ s \in {"reload", "enable", "disable"} => m.loaded[x] = managed.unit[x]
    /\ x \in m.active <=> s = "enable" \/ (x \in managed.active /\ s # "disable")
    /\ x \in m.enabled <=> s = "enable" \/ (x \in managed.enabled /\ s # "disable")

StackEffect(o, s, m) ==
    LET x == o.on IN
    /\ m.unit = managed.unit /\ m.active = managed.active /\ m.enabled = managed.enabled
    /\ m.containers[x] = IF s = "up" THEN "all"
                         ELSE IF s = "down" THEN "none" ELSE managed.containers[x]
    /\ x \in m.compose <=> s = "compose" \/ (x \in managed.compose /\ s # "unlink-compose")
    /\ x \in m.data <=> s = "data" \/ (x \in managed.data /\ s # "purge")

\* The kinds of things are distinct.
LEMMA Apart ==
    /\ Things = Units \cup Stacks /\ Units \cap Stacks = {} /\ Webhook \in Units
    /\ ScheduleTimers \subseteq Units /\ Webhook \notin ScheduleTimers /\ Monitoring \in Stacks
  BY ThingsAssumption DEF Things, Units, Stacks

\* The steps that change a unit.
LEMMA UnitOutcome ==
    ASSUME managed \in Managed, NEW o, o.on \in Units, o.number \in Nat, NEW s \in UnitSteps
    PROVE  LET m == Outcome(o, s) IN m \in Managed /\ Elsewhere(o, m) /\ UnitEffect(o, s, m)
<1> DEFINE m == Outcome(o, s)
<1>0. /\ managed.unit \in [Units -> Files] /\ managed.loaded \in [Units -> Files]
      /\ managed.unit[o.on] \in Files /\ Webhook \in Units /\ managed.unit[Webhook] \in Files
      /\ managed.active \subseteq Units /\ managed.enabled \subseteq Units
  BY Apart DEF Managed
<1>8. managed.unit[Webhook].service \in Nat \cup {Nothing}
  BY <1>0 DEF Files
<1>9. \A x \in Things : x \in Units \/ x \in Stacks
  BY Apart
<1>1. CASE s = "service"
  <2>1. /\ m.unit = [managed.unit EXCEPT ![o.on] = [managed.unit[o.on] EXCEPT !.service = o.number]]
        /\ m.loaded = managed.loaded /\ m.enabled = managed.enabled /\ m.active = managed.active
        /\ m.process = managed.process /\ m.compose = managed.compose /\ m.containers = managed.containers
        /\ m.data = managed.data /\ m.network = managed.network /\ m.password = managed.password
    BY <1>1 DEF Outcome, Managed
  <2>2. m.unit \in [Units -> Files]
    BY <2>1, <1>0 DEF Files
  <2>5. m.unit[o.on].service = o.number /\ m.unit[o.on].timer = managed.unit[o.on].timer
    BY <2>1, <1>0 DEF Files
  <2>6. \A x \in Units : x # o.on => m.unit[x] = managed.unit[x]
    BY <2>1, <1>0
  <2>3. m \in Managed
    BY <1>1, <2>1, <2>2, <1>0 DEF Managed, Outcome
  <2>4. Elsewhere(o, m) /\ UnitEffect(o, s, m)
    BY <1>1, <2>1, <2>5, <2>6, <1>0 DEF Elsewhere, UnitEffect
  <2> QED BY <2>3, <2>4
<1>2. CASE s = "timer"
  <2>1. /\ m.unit = [managed.unit EXCEPT ![o.on] = [managed.unit[o.on] EXCEPT !.timer = o.number]]
        /\ m.loaded = managed.loaded /\ m.enabled = managed.enabled /\ m.active = managed.active
        /\ m.process = managed.process /\ m.compose = managed.compose /\ m.containers = managed.containers
        /\ m.data = managed.data /\ m.network = managed.network /\ m.password = managed.password
    BY <1>2 DEF Outcome, Managed
  <2>2. m.unit \in [Units -> Files]
    BY <2>1, <1>0 DEF Files
  <2>5. m.unit[o.on].service = managed.unit[o.on].service /\ m.unit[o.on].timer = o.number
    BY <2>1, <1>0 DEF Files
  <2>6. \A x \in Units : x # o.on => m.unit[x] = managed.unit[x]
    BY <2>1, <1>0
  <2>3. m \in Managed
    BY <1>2, <2>1, <2>2, <1>0 DEF Managed, Outcome
  <2>4. Elsewhere(o, m) /\ UnitEffect(o, s, m)
    BY <1>2, <2>1, <2>5, <2>6, <1>0 DEF Elsewhere, UnitEffect
  <2> QED BY <2>3, <2>4
<1>3. CASE s = "unlink-service"
  <2>1. /\ m.unit = [managed.unit EXCEPT ![o.on] = [managed.unit[o.on] EXCEPT !.service = Nothing]]
        /\ m.loaded = managed.loaded /\ m.enabled = managed.enabled /\ m.active = managed.active
        /\ m.process = managed.process /\ m.compose = managed.compose /\ m.containers = managed.containers
        /\ m.data = managed.data /\ m.network = managed.network /\ m.password = managed.password
    BY <1>3 DEF Outcome, Managed
  <2>2. m.unit \in [Units -> Files]
    BY <2>1, <1>0 DEF Files
  <2>5. m.unit[o.on].service = Nothing /\ m.unit[o.on].timer = managed.unit[o.on].timer
    BY <2>1, <1>0 DEF Files
  <2>6. \A x \in Units : x # o.on => m.unit[x] = managed.unit[x]
    BY <2>1, <1>0
  <2>3. m \in Managed
    BY <1>3, <2>1, <2>2, <1>0 DEF Managed, Outcome
  <2>4. Elsewhere(o, m) /\ UnitEffect(o, s, m)
    BY <1>3, <2>1, <2>5, <2>6, <1>0 DEF Elsewhere, UnitEffect
  <2> QED BY <2>3, <2>4
<1>4. CASE s = "unlink-timer"
  <2>1. /\ m.unit = [managed.unit EXCEPT ![o.on] = [managed.unit[o.on] EXCEPT !.timer = Nothing]]
        /\ m.loaded = managed.loaded /\ m.enabled = managed.enabled /\ m.active = managed.active
        /\ m.process = managed.process /\ m.compose = managed.compose /\ m.containers = managed.containers
        /\ m.data = managed.data /\ m.network = managed.network /\ m.password = managed.password
    BY <1>4 DEF Outcome, Managed
  <2>2. m.unit \in [Units -> Files]
    BY <2>1, <1>0 DEF Files
  <2>5. m.unit[o.on].service = managed.unit[o.on].service /\ m.unit[o.on].timer = Nothing
    BY <2>1, <1>0 DEF Files
  <2>6. \A x \in Units : x # o.on => m.unit[x] = managed.unit[x]
    BY <2>1, <1>0
  <2>3. m \in Managed
    BY <1>4, <2>1, <2>2, <1>0 DEF Managed, Outcome
  <2>4. Elsewhere(o, m) /\ UnitEffect(o, s, m)
    BY <1>4, <2>1, <2>5, <2>6, <1>0 DEF Elsewhere, UnitEffect
  <2> QED BY <2>3, <2>4
<1>5. CASE s = "reload"
  <2>1. /\ m.loaded = managed.unit
        /\ m.unit = managed.unit /\ m.enabled = managed.enabled /\ m.active = managed.active
        /\ m.process = managed.process /\ m.compose = managed.compose /\ m.containers = managed.containers
        /\ m.data = managed.data /\ m.network = managed.network /\ m.password = managed.password
    BY <1>5 DEF Outcome, Managed
  <2>3. m \in Managed
    BY <1>5, <2>1, <1>8, <1>0 DEF Managed, Outcome
  <2>4. Elsewhere(o, m) /\ UnitEffect(o, s, m)
    BY <1>5, <2>1, <1>0 DEF Elsewhere, UnitEffect
  <2> QED BY <2>3, <2>4
<1>6. CASE s = "enable"
  <2>1. /\ m.loaded = managed.unit
        /\ m.enabled = managed.enabled \cup {o.on}
        /\ m.active = managed.active \cup {o.on}
        /\ m.process = IF o.on = Webhook /\ Webhook \notin managed.active
                      THEN managed.unit[Webhook].service ELSE managed.process
        /\ m.unit = managed.unit /\ m.compose = managed.compose /\ m.containers = managed.containers
        /\ m.data = managed.data /\ m.network = managed.network /\ m.password = managed.password
    BY <1>6 DEF Outcome, Managed
  <2>3. m \in Managed
    BY <1>6, <2>1, <1>8, <1>0 DEF Managed, Outcome
  <2>4. Elsewhere(o, m) /\ UnitEffect(o, s, m)
    BY <1>6, <2>1, <1>0 DEF Elsewhere, UnitEffect
  <2> QED BY <2>3, <2>4
<1>7. CASE s = "disable"
  <2>1. /\ m.loaded = managed.unit
        /\ m.enabled = managed.enabled \ {o.on}
        /\ m.active = managed.active \ {o.on}
        /\ m.unit = managed.unit /\ m.process = managed.process /\ m.compose = managed.compose
        /\ m.containers = managed.containers /\ m.data = managed.data /\ m.network = managed.network
        /\ m.password = managed.password
    BY <1>7 DEF Outcome, Managed
  <2>3. m \in Managed
    BY <1>7, <2>1, <1>8, <1>0 DEF Managed, Outcome
  <2>4. Elsewhere(o, m) /\ UnitEffect(o, s, m)
    BY <1>7, <2>1, <1>0 DEF Elsewhere, UnitEffect
  <2> QED BY <2>3, <2>4
<1> QED BY <1>1, <1>2, <1>3, <1>4, <1>5, <1>6, <1>7 DEF UnitSteps

\* The steps that change a stack.
LEMMA StackOutcome ==
    ASSUME managed \in Managed, NEW o, o.on \in Stacks, NEW s \in StackSteps
    PROVE  LET m == Outcome(o, s) IN m \in Managed /\ Elsewhere(o, m) /\ StackEffect(o, s, m)
<1> DEFINE m == Outcome(o, s)
<1>0. /\ managed.containers \in [Stacks -> {"none", "some", "all"}]
      /\ managed.compose \subseteq Stacks /\ managed.data \subseteq Stacks
  BY DEF Managed
<1>1. CASE s = "password"
  <2>1. /\ m.password = TRUE
        /\ m.unit = managed.unit /\ m.loaded = managed.loaded /\ m.enabled = managed.enabled
        /\ m.active = managed.active /\ m.process = managed.process /\ m.compose = managed.compose
        /\ m.containers = managed.containers /\ m.data = managed.data /\ m.network = managed.network
    BY <1>1 DEF Outcome, Managed
  <2>3. m \in Managed
    BY <1>1, <2>1, <1>0 DEF Managed, Outcome
  <2>4. Elsewhere(o, m) /\ StackEffect(o, s, m)
    BY <1>1, <2>1, <1>0 DEF Elsewhere, StackEffect
  <2> QED BY <2>3, <2>4
<1>2. CASE s = "data"
  <2>1. /\ m.data = managed.data \cup {o.on}
        /\ m.unit = managed.unit /\ m.loaded = managed.loaded /\ m.enabled = managed.enabled
        /\ m.active = managed.active /\ m.process = managed.process /\ m.compose = managed.compose
        /\ m.containers = managed.containers /\ m.network = managed.network /\ m.password = managed.password
    BY <1>2 DEF Outcome, Managed
  <2>3. m \in Managed
    BY <1>2, <2>1, <1>0 DEF Managed, Outcome
  <2>4. Elsewhere(o, m) /\ StackEffect(o, s, m)
    BY <1>2, <2>1, <1>0 DEF Elsewhere, StackEffect
  <2> QED BY <2>3, <2>4
<1>3. CASE s = "network"
  <2>1. /\ m.network = TRUE
        /\ m.unit = managed.unit /\ m.loaded = managed.loaded /\ m.enabled = managed.enabled
        /\ m.active = managed.active /\ m.process = managed.process /\ m.compose = managed.compose
        /\ m.containers = managed.containers /\ m.data = managed.data /\ m.password = managed.password
    BY <1>3 DEF Outcome, Managed
  <2>3. m \in Managed
    BY <1>3, <2>1, <1>0 DEF Managed, Outcome
  <2>4. Elsewhere(o, m) /\ StackEffect(o, s, m)
    BY <1>3, <2>1, <1>0 DEF Elsewhere, StackEffect
  <2> QED BY <2>3, <2>4
<1>4. CASE s = "compose"
  <2>1. /\ m.compose = managed.compose \cup {o.on}
        /\ m.unit = managed.unit /\ m.loaded = managed.loaded /\ m.enabled = managed.enabled
        /\ m.active = managed.active /\ m.process = managed.process /\ m.containers = managed.containers
        /\ m.data = managed.data /\ m.network = managed.network /\ m.password = managed.password
    BY <1>4 DEF Outcome, Managed
  <2>3. m \in Managed
    BY <1>4, <2>1, <1>0 DEF Managed, Outcome
  <2>4. Elsewhere(o, m) /\ StackEffect(o, s, m)
    BY <1>4, <2>1, <1>0 DEF Elsewhere, StackEffect
  <2> QED BY <2>3, <2>4
<1>5. CASE s = "up"
  <2>1. /\ m.containers = [managed.containers EXCEPT ![o.on] = "all"]
        /\ m.unit = managed.unit /\ m.loaded = managed.loaded /\ m.enabled = managed.enabled
        /\ m.active = managed.active /\ m.process = managed.process /\ m.compose = managed.compose
        /\ m.data = managed.data /\ m.network = managed.network /\ m.password = managed.password
    BY <1>5 DEF Outcome, Managed
  <2>3. m \in Managed
    BY <1>5, <2>1, <1>0 DEF Managed, Outcome
  <2>4. Elsewhere(o, m) /\ StackEffect(o, s, m)
    BY <1>5, <2>1, <1>0 DEF Elsewhere, StackEffect
  <2> QED BY <2>3, <2>4
<1>6. CASE s = "down"
  <2>1. /\ m.containers = [managed.containers EXCEPT ![o.on] = "none"]
        /\ m.unit = managed.unit /\ m.loaded = managed.loaded /\ m.enabled = managed.enabled
        /\ m.active = managed.active /\ m.process = managed.process /\ m.compose = managed.compose
        /\ m.data = managed.data /\ m.network = managed.network /\ m.password = managed.password
    BY <1>6 DEF Outcome, Managed
  <2>3. m \in Managed
    BY <1>6, <2>1, <1>0 DEF Managed, Outcome
  <2>4. Elsewhere(o, m) /\ StackEffect(o, s, m)
    BY <1>6, <2>1, <1>0 DEF Elsewhere, StackEffect
  <2> QED BY <2>3, <2>4
<1>7. CASE s = "unlink-compose"
  <2>1. /\ m.compose = managed.compose \ {o.on}
        /\ m.unit = managed.unit /\ m.loaded = managed.loaded /\ m.enabled = managed.enabled
        /\ m.active = managed.active /\ m.process = managed.process /\ m.containers = managed.containers
        /\ m.data = managed.data /\ m.network = managed.network /\ m.password = managed.password
    BY <1>7 DEF Outcome, Managed
  <2>3. m \in Managed
    BY <1>7, <2>1, <1>0 DEF Managed, Outcome
  <2>4. Elsewhere(o, m) /\ StackEffect(o, s, m)
    BY <1>7, <2>1, <1>0 DEF Elsewhere, StackEffect
  <2> QED BY <2>3, <2>4
<1>8. CASE s = "purge"
  <2>1. /\ m.data = managed.data \ {o.on}
        /\ m.unit = managed.unit /\ m.loaded = managed.loaded /\ m.enabled = managed.enabled
        /\ m.active = managed.active /\ m.process = managed.process /\ m.compose = managed.compose
        /\ m.containers = managed.containers /\ m.network = managed.network /\ m.password = managed.password
    BY <1>8 DEF Outcome, Managed
  <2>3. m \in Managed
    BY <1>8, <2>1, <1>0 DEF Managed, Outcome
  <2>4. Elsewhere(o, m) /\ StackEffect(o, s, m)
    BY <1>8, <2>1, <1>0 DEF Elsewhere, StackEffect
  <2> QED BY <2>3, <2>4
<1>9. CASE s = "stat"
  <2>1. /\ m.unit = managed.unit /\ m.loaded = managed.loaded /\ m.enabled = managed.enabled
        /\ m.active = managed.active /\ m.process = managed.process /\ m.compose = managed.compose
        /\ m.containers = managed.containers /\ m.data = managed.data /\ m.network = managed.network
        /\ m.password = managed.password
    BY <1>9 DEF Outcome, Managed
  <2>3. m \in Managed
    BY <1>9, <2>1, <1>0 DEF Managed, Outcome
  <2>4. Elsewhere(o, m) /\ StackEffect(o, s, m)
    BY <1>9, <2>1, <1>0 DEF Elsewhere, StackEffect
  <2> QED BY <2>3, <2>4
<1> QED BY <1>1, <1>2, <1>3, <1>4, <1>5, <1>6, <1>7, <1>8, <1>9 DEF StackSteps

\* The order a client works on, and the step it is at.
LEMMA WorkingFacts ==
    ASSUME ManagedTypes, NEW c \in Clients, AtWork(c)
    PROVE  LET o == order[c] s == Head(todo[c]) IN
           /\ o.op \in Ops /\ o.on \in Things /\ o.number \in Nat /\ o.purge \in BOOLEAN
           /\ o \in [op : Ops, on : Things, number : Nat, purge : BOOLEAN, password : BOOLEAN]
           /\ Concerns(o.op, o.on) /\ Follows(o, s, NextOf(Tail(todo[c])))
           /\ Tail(todo[c]) = <<>> \/ Tail(todo[c]) \in Suffixes(o)
           /\ o.op \in {"schedule", "unschedule"} => o.on \in Units /\ s \in UnitSteps
           /\ o.op \in {"install", "remove"} => o.on \in Stacks /\ s \in StackSteps
<1> DEFINE o == order[c]
           s == Head(todo[c])
<1>1. o \in [op : Ops, on : Things, number : Nat, purge : BOOLEAN, password : BOOLEAN]
  BY DEF ManagedTypes
<1>2. o.op \in Ops /\ o.on \in Things /\ o.number \in Nat /\ o.purge \in BOOLEAN
  BY <1>1
<1>3. Concerns(o.op, o.on) /\ todo[c] \in Suffixes(o)
  BY DEF ManagedTypes
<1>4. /\ Follows(o, s, NextOf(Tail(todo[c])))
      /\ Tail(todo[c]) = <<>> \/ Tail(todo[c]) \in Suffixes(o)
  BY <1>2, <1>3, StepFollows
<1>5. /\ o.op = "schedule" => s \in {"service", "timer", "reload", "enable"}
      /\ o.op = "unschedule" => s \in {"disable", "unlink-service", "unlink-timer", "reload"}
      /\ o.op = "install" => s \in {"password", "data", "network", "compose", "up"}
      /\ o.op = "remove" => s \in {"stat", "down", "unlink-compose", "purge"}
  BY <1>4 DEF Follows
<1> QED BY <1>1, <1>2, <1>3, <1>4, <1>5, Apart DEF Concerns, UnitSteps, StackSteps

\* What a step that fails may leave of its stack.
LEMMA SomeContainers ==
    ASSUME managed \in Managed, NEW o, o.on \in Stacks, NEW m,
           m = [managed EXCEPT !.containers[o.on] = "some"]
    PROVE  /\ m \in Managed /\ Elsewhere(o, m)
           /\ m.unit = managed.unit /\ m.active = managed.active /\ m.enabled = managed.enabled
           /\ m.compose = managed.compose
<1>1. /\ m.containers = [managed.containers EXCEPT ![o.on] = "some"]
      /\ m.unit = managed.unit /\ m.loaded = managed.loaded /\ m.enabled = managed.enabled
      /\ m.active = managed.active /\ m.process = managed.process /\ m.data = managed.data
      /\ m.compose = managed.compose
      /\ m.network = managed.network /\ m.password = managed.password
  BY DEF Managed
<1>2. managed.containers \in [Stacks -> {"none", "some", "all"}]
  BY DEF Managed
<1>3. m.containers \in [Stacks -> {"none", "some", "all"}]
  BY <1>1, <1>2
<1>4. m \in Managed
  BY <1>1, <1>3 DEF Managed
<1> QED BY <1>1, <1>2, <1>4 DEF Elsewhere

\* Whatever comes of a step: the types, and nothing but its own thing.
LEMMA StepOutcome ==
    ASSUME ManagedTypes, NEW c \in Clients, AtWork(c),
           NEW m \in Remains(order[c], Head(todo[c])) \cup {Outcome(order[c], Head(todo[c]))}
    PROVE  m \in Managed /\ Elsewhere(order[c], m)
<1> DEFINE o == order[c]
           s == Head(todo[c])
<1>1. managed \in Managed /\ Elsewhere(o, managed)
  BY DEF ManagedTypes, Elsewhere
<1>2. CASE o.op \in {"schedule", "unschedule"}
  <2>1. o.on \in Units /\ s \in UnitSteps /\ o.number \in Nat
    BY <1>2, WorkingFacts
  <2>2. m \in {managed, Outcome(o, s)}
    BY <2>1 DEF Remains, UnitSteps
  <2> QED BY <1>1, <2>1, <2>2, UnitOutcome
<1>3. CASE o.op \in {"install", "remove"}
  <2>1. o.on \in Stacks /\ s \in StackSteps
    BY <1>3, WorkingFacts
  <2>2. m \in {managed, Outcome(o, s), [managed EXCEPT !.containers[o.on] = "some"]}
    BY DEF Remains
  <2>3. CASE m = [managed EXCEPT !.containers[o.on] = "some"]
    BY <1>1, <2>1, <2>3, SomeContainers
  <2> QED BY <1>1, <2>1, <2>2, <2>3, StackOutcome
<1> QED BY <1>2, <1>3, WorkingFacts DEF Ops

\* What a step changes of its own thing, if it changes that at all.
LEMMA OwnOutcome ==
    ASSUME ManagedTypes, NEW c \in Clients, AtWork(c)
    PROVE  LET o == order[c] s == Head(todo[c]) m == Outcome(o, s) IN
           /\ o.op \in {"schedule", "unschedule"} => UnitEffect(o, s, m)
           /\ o.op \in {"install", "remove"} => StackEffect(o, s, m)
  BY WorkingFacts, UnitOutcome, StackOutcome DEF ManagedTypes

-----------------------------------------------------------------------------
(* The invariant of one thing.                                               *)

\* A step that is about another thing keeps it.
LEMMA ElsewhereSound ==
    ASSUME ManagedTypes, NEW o, NEW x \in Things, x # o.on, Elsewhere(o, managed'), Sound(x),
           told'[x] = told[x],
           \A d \in Clients : On(d, x)' <=> On(d, x),
           \A d \in Clients : On(d, x) => order'[d] = order[d] /\ todo'[d] = todo[d]
    PROVE  Sound(x)'
<1>0. /\ x \in Units => /\ managed'.unit[x] = managed.unit[x]
                        /\ managed'.loaded[x] \in {managed.loaded[x], managed.unit[x]}
      /\ x \in managed'.active <=> x \in managed.active
      /\ x \in managed'.enabled <=> x \in managed.enabled
      /\ x \in Stacks => managed'.containers[x] = managed.containers[x]
      /\ x \in managed'.compose <=> x \in managed.compose
      /\ x \in managed'.data <=> x \in managed.data
  BY DEF Elsewhere
<1>1. Removable(x)'
  <2>1. managed.active \subseteq Units /\ managed.enabled \subseteq Units
    BY DEF ManagedTypes, Managed
  <2> QED BY <1>0, <2>1 DEF Sound, Removable, MainFile
<1>2. ASSUME Idle(x)' PROVE Holds(x)'
  <2>1. Holds(x) /\ Concerns(told[x].op, x)
    BY <1>2 DEF Idle, Sound, ManagedTypes
  <2>2. ScheduleTimers \subseteq Units
    BY Apart
  <2> QED BY <1>0, <2>1, <2>2 DEF Holds, Concerns
<1>3. ASSUME NEW d \in Clients, On(d, x)' PROVE Achieved(order[d], Head(todo[d]))'
  <2>1. /\ Achieved(order[d], Head(todo[d])) /\ order[d].on = x /\ Concerns(order[d].op, x)
        /\ order'[d] = order[d] /\ todo'[d] = todo[d]
    BY <1>3 DEF Sound, On, ManagedTypes
  <2>2. ScheduleTimers \subseteq Units
    BY Apart
  <2> QED BY <1>0, <2>1, <2>2 DEF Achieved, Concerns
<1> QED BY <1>1, <1>2, <1>3 DEF Sound

\* What runs keeps its files, whether the step is done, fails or is done and fails.
LEMMA OwnRemovable ==
    ASSUME ManagedTypes, NEW c \in Clients, AtWork(c), Removable(order[c].on),
           Achieved(order[c], Head(todo[c])),
           \/ managed' \in Remains(order[c], Head(todo[c]))
           \/ Succeeds(order[c], Head(todo[c])) /\ managed' = Outcome(order[c], Head(todo[c])),
           NEW x, x = order[c].on
    PROVE  Removable(x)'
<1> DEFINE o == order[c]
           s == Head(todo[c])
           Keeps(m) == /\ x \in m.active \cup m.enabled =>
                             /\ (IF x = Webhook THEN m.unit[x].service ELSE m.unit[x].timer) # Nothing
                             /\ m.unit[x].service # Nothing
                       /\ x \in Stacks /\ m.containers[x] # "none" => x \in m.compose
<1>0. /\ \A m : m = managed => Keeps(m)
      /\ managed.active \subseteq Units /\ managed.enabled \subseteq Units
      /\ Follows(o, s, NextOf(Tail(todo[c]))) /\ o.number \in Nat /\ Concerns(o.op, x)
  BY WorkingFacts DEF Removable, MainFile, ManagedTypes, Managed
<1>1. ASSUME Succeeds(o, s) PROVE Keeps(Outcome(o, s))
  <2> DEFINE m == Outcome(o, s)
  <2>1. CASE o.op \in {"schedule", "unschedule"}
    <3>1. UnitEffect(o, s, m) /\ x \in Units /\ x \notin Stacks
      BY <2>1, OwnOutcome, WorkingFacts, Apart
    <3>2. o.number # Nothing
      BY <1>0, NothingAssumption
    <3>3. CASE o.op = "schedule"
      <4>1. s \in {"service", "timer", "reload", "enable"}
        BY <1>0, <3>3 DEF Follows
      <4>2. CASE s = "enable"
        <5>1. MainFile(x) # Nothing /\ managed.unit[x].service = o.number
          BY <1>1, <4>2, <3>3 DEF Succeeds, Achieved
        <5> QED BY <3>1, <3>2, <4>2, <5>1 DEF UnitEffect, MainFile
      <4> QED BY <1>0, <3>1, <3>2, <4>1, <4>2 DEF UnitEffect
    <3>4. CASE o.op = "unschedule"
      <4>1. s \in {"disable", "unlink-service", "unlink-timer", "reload"}
        BY <1>0, <3>4 DEF Follows
      <4>2. s # "disable" => x \notin managed.active /\ x \notin managed.enabled
        BY <3>4, <4>1 DEF Achieved
      <4> QED BY <3>1, <4>1, <4>2 DEF UnitEffect
    <3> QED BY <2>1, <3>3, <3>4
  <2>2. CASE o.op \in {"install", "remove"}
    <3>1. StackEffect(o, s, m) /\ x \in Stacks /\ x \notin Units
      BY <2>2, OwnOutcome, WorkingFacts, Apart
    <3>2. m.active = managed.active /\ m.enabled = managed.enabled
      BY <3>1 DEF StackEffect
    <3>3. CASE s \notin {"up", "unlink-compose"}
      BY <1>0, <3>1, <3>2, <3>3 DEF StackEffect
    <3>4. CASE s = "up"
      <4>1. x \in managed.compose
        BY <1>1, <3>4 DEF Succeeds
      <4> QED BY <1>0, <3>1, <3>2, <3>4, <4>1 DEF StackEffect
    <3>5. CASE s = "unlink-compose"
      <4>1. o.op = "remove"
        BY <1>0, <2>2, <3>5 DEF Follows
      <4>2. managed.containers[x] = "none"
        BY <3>5, <4>1 DEF Achieved
      <4> QED BY <1>0, <3>1, <3>2, <3>5, <4>2 DEF StackEffect
    <3> QED BY <3>3, <3>4, <3>5
  <2> QED BY <2>1, <2>2, WorkingFacts DEF Ops
<1>2. ASSUME Succeeds(o, s), s \in {"up", "down"}, NEW m,
             m = [managed EXCEPT !.containers[x] = "some"]
      PROVE  Keeps(m)
  <2>1. o.op \in {"install", "remove"}
    BY <1>0, <1>2, WorkingFacts DEF Follows, Ops
  <2>2. x \in Stacks /\ x \notin Units /\ x \in managed.compose
    BY <1>2, <2>1, WorkingFacts, Apart DEF Succeeds
  <2>3. m.compose = managed.compose /\ m.active = managed.active /\ m.enabled = managed.enabled
    BY <1>2, <2>2, SomeContainers DEF ManagedTypes
  <2> QED BY <1>0, <2>2, <2>3
<1>3. Keeps(managed')
  BY <1>0, <1>1, <1>2 DEF Remains
<1>4. \A y : y = x => (Keeps(managed') <=> Removable(y)')
  BY DEF Removable, MainFile
<1> QED BY <1>3, <1>4

\* A step that is done has achieved what the next one needs, or what is reported.
LEMMA OwnAchieved ==
    ASSUME ManagedTypes, NEW c \in Clients, AtWork(c),
           Achieved(order[c], Head(todo[c])), Succeeds(order[c], Head(todo[c])),
           managed' = Outcome(order[c], Head(todo[c])), NEW o, o = order[c],
           NEW s, s = Head(todo[c]), NEW t, t = Tail(todo[c])
    PROVE  /\ t # <<>> => Achieved(o, Head(t))'
           /\ t = <<>> =>
                 /\ o.op = "schedule" =>
                       /\ o.on \in managed'.active /\ o.on \in managed'.enabled
                       /\ managed'.loaded[o.on].service = o.number
                       /\ managed'.unit[o.on].service = o.number
                       /\ o.on # Webhook => /\ managed'.loaded[o.on].timer = o.number
                                            /\ managed'.unit[o.on].timer = o.number
                 /\ o.op = "unschedule" =>
                       /\ o.on \notin managed'.active /\ o.on \notin managed'.enabled
                       /\ managed'.unit[o.on] = NoUnit
                 /\ o.op = "install" => managed'.containers[o.on] = "all"
                 /\ o.op = "remove" => /\ managed'.containers[o.on] = "none"
                                       /\ o.purge => o.on \notin managed'.data
<1> DEFINE next == NextOf(t)
<1>0. /\ Follows(o, s, next) /\ Achieved(o, s)
      /\ t = <<>> => next = "end"
      /\ t # <<>> => next = Head(t) /\ next # "end"
  <2>1. Follows(o, s, next) /\ (t = <<>> \/ t \in Suffixes(o))
    BY WorkingFacts
  <2>2. ASSUME NEW u \in Suffixes(o) PROVE Head(u) # "end"
    <3>1. Follows(o, Head(u), NextOf(Tail(u)))
      BY <2>2, StepFollows, WorkingFacts
    <3>2. o.op \in Ops
      BY WorkingFacts
    <3> QED BY <3>1, <3>2 DEF Follows, Ops
  <2> QED BY <2>1, <2>2 DEF NextOf
<1>1. CASE o.op = "schedule"
  <2>1. UnitEffect(o, s, managed')
    BY <1>1, OwnOutcome
  <2>2. \/ s = "service" /\ next \in {"timer", "reload"} /\ (o.on # Webhook => next = "timer")
        \/ <<s, next>> \in {<<"timer", "reload">>, <<"reload", "enable">>, <<"enable", "end">>}
    BY <1>0, <1>1 DEF Follows
  <2>3. next # "end" => Achieved(o, next)'
    BY <1>0, <1>1, <2>1, <2>2 DEF Achieved, UnitEffect
  <2>4. next = "end" => s = "enable"
    BY <2>2
  <2>5. s = "enable" => /\ managed.unit[o.on].service = o.number
                        /\ o.on # Webhook => managed.unit[o.on].timer = o.number
    BY <1>0, <1>1 DEF Achieved
  <2> QED BY <1>0, <1>1, <2>1, <2>3, <2>4, <2>5 DEF UnitEffect
<1>2. CASE o.op = "unschedule"
  <2>1. UnitEffect(o, s, managed')
    BY <1>2, OwnOutcome
  <2>2. <<s, next>> \in {<<"disable", "unlink-service">>, <<"unlink-service", "unlink-timer">>,
                          <<"unlink-timer", "reload">>, <<"reload", "end">>}
    BY <1>0, <1>2 DEF Follows
  <2>3. next # "end" => Achieved(o, next)'
    BY <1>0, <1>2, <2>1, <2>2 DEF Achieved, UnitEffect
  <2>4. ASSUME next = "end"
        PROVE  /\ o.on \notin managed'.active /\ o.on \notin managed'.enabled
               /\ managed'.unit[o.on] = NoUnit
    <3>1. s = "reload"
      BY <2>2, <2>4
    <3>2. /\ o.on \notin managed.active /\ o.on \notin managed.enabled
          /\ managed.unit[o.on].service = Nothing /\ managed.unit[o.on].timer = Nothing
      BY <1>0, <1>2, <3>1 DEF Achieved
    <3>3. /\ o.on \notin managed'.active /\ o.on \notin managed'.enabled
          /\ managed'.unit[o.on].service = Nothing /\ managed'.unit[o.on].timer = Nothing
      BY <2>1, <3>1, <3>2 DEF UnitEffect
    <3>4. managed'.unit[o.on] \in Files
      <4>1. managed' \in Managed /\ o.on \in Units
        BY <1>2, StepOutcome, WorkingFacts
      <4> QED BY <4>1 DEF Managed
    <3> QED BY <3>3, <3>4 DEF Files, NoUnit
  <2> QED BY <1>0, <1>2, <2>3, <2>4
<1>3. CASE o.op = "install"
  <2>1. StackEffect(o, s, managed')
    BY <1>3, OwnOutcome
  <2>2. \/ s \in {"password", "data", "network"} /\ next \in {"data", "network", "compose"}
        \/ <<s, next>> \in {<<"compose", "up">>, <<"up", "end">>}
    BY <1>0, <1>3 DEF Follows
  <2>3. next # "end" => Achieved(o, next)'
    BY <1>0, <1>3, <2>1, <2>2 DEF Achieved, StackEffect
  <2> QED BY <1>0, <1>3, <2>1, <2>2, <2>3 DEF StackEffect
<1>4. CASE o.op = "remove"
  <2>1. StackEffect(o, s, managed')
    BY <1>4, OwnOutcome
  <2>2. \/ <<s, next>> \in {<<"stat", "down">>, <<"down", "unlink-compose">>, <<"purge", "end">>}
        \/ s = "unlink-compose" /\ (IF o.purge THEN next = "purge" ELSE next = "end")
    BY <1>0, <1>4, WorkingFacts DEF Follows
  <2>3. next # "end" => Achieved(o, next)'
    BY <1>0, <1>4, <2>1, <2>2 DEF Achieved, StackEffect
  <2>4. next = "end" => s \in {"unlink-compose", "purge"} /\ (o.purge => s = "purge")
    BY <2>2
  <2> QED BY <1>0, <1>4, <2>1, <2>3, <2>4 DEF StackEffect, Achieved
<1> QED BY <1>1, <1>2, <1>3, <1>4, WorkingFacts DEF Ops

-----------------------------------------------------------------------------
(* The steps of a client.                                                    *)

Going(c, t) ==
    /\ todo' = [todo EXCEPT ![c] = t]
    /\ order' = order /\ told' = told

\* What a command reports that has done its last step.
Done(o) == [op |-> o.op, number |-> o.number, purge |-> o.purge]

Ending(c, report) ==
    /\ todo' = [todo EXCEPT ![c] = <<>>]
    /\ order' = [order EXCEPT ![c] = NoOrder]
    /\ told' = [told EXCEPT ![order[c].on] = report]

\* A step that is done or has failed, and what it leads to.
Moves(c, o, s, t) ==
    /\ mixed' = mixed /\ orders' = orders
    /\ \/ /\ Succeeds(o, s) /\ managed' = Outcome(o, s) /\ ignored' = ignored
          /\ \/ t # <<>> /\ Going(c, t)
             \/ t = <<>> /\ (Ending(c, Unreported) \/ Ending(c, Done(o)))
       \/ /\ managed' \in Remains(o, s)
          /\ \/ ignored' = ignored /\ Ending(c, Unreported)
             \/ Going(c, t) /\ ignored' = ignored \cup {o.on} /\ o.on \in Units

\* A command goes on after a step that is done, or one that it tolerates to fail, and
\* ends with the last one or one that fails.
LEMMA ClientMoves ==
    ASSUME ManagedTypes, NEW c \in Clients, AtWork(c),
           Perform(c) \/ PerformFails(c) \/ Interrupt(c),
           NEW o, o = order[c], NEW s, s = Head(todo[c]), NEW t, t = Tail(todo[c])
    PROVE  Moves(c, o, s, t)
<1> USE DEF Moves
<1>1. managed \in Remains(o, s)
  BY DEF Remains
<1>2. ASSUME GiveUp(c)
      PROVE  \/ ignored' = ignored /\ Ending(c, Unreported)
             \/ Going(c, t) /\ ignored' = ignored \cup {o.on} /\ o.on \in Units
  <2>1. CASE Tolerated(o, s)
    <3>1. o.on \in Backups
      BY <2>1 DEF Tolerated
    <3> QED BY <1>2, <2>1, <3>1 DEF GiveUp, Going, Units, ScheduleTimers
  <2>2. CASE ~Tolerated(o, s)
    BY <1>2, <2>2 DEF GiveUp, Report, Ending
  <2> QED BY <2>1, <2>2
<1>3. ASSUME Proceed(c)
      PROVE  \/ t # <<>> /\ Going(c, t)
             \/ t = <<>> /\ (Ending(c, Unreported) \/ Ending(c, Done(o)))
  BY <1>3 DEF Proceed, Report, Going, Ending, Done
<1>4. CASE Perform(c)
  <2>1. mixed' = mixed /\ orders' = orders
    BY <1>4 DEF Perform, managedBounds
  <2>2. CASE Succeeds(o, s)
    BY <1>3, <1>4, <2>1, <2>2 DEF Perform
  <2>3. CASE ~Succeeds(o, s)
    BY <1>1, <1>2, <1>4, <2>1, <2>3 DEF Perform
  <2> QED BY <2>2, <2>3
<1>5. CASE PerformFails(c)
  BY <1>2, <1>5 DEF PerformFails
<1>6. CASE Interrupt(c)
  BY <1>1, <1>6 DEF Interrupt, Report, Ending
<1> QED BY <1>4, <1>5, <1>6

\* Types, as a command goes on or ends.
LEMMA MoveTypes ==
    ASSUME ManagedTypes, NEW c \in Clients, AtWork(c), managed' \in Managed,
           mixed' = mixed, orders' = orders, ignored' \subseteq Units,
           \/ Going(c, Tail(todo[c]))
           \/ \E report \in [op : Ops \cup {Nothing}, number : Nat, purge : BOOLEAN] :
                 Ending(c, report) /\ Concerns(report.op, order[c].on)
    PROVE  ManagedTypes'
<1>1. CASE Going(c, Tail(todo[c]))
  <2>1. \A d \in Clients : todo'[d] = IF d = c THEN Tail(todo[c]) ELSE todo[d]
    BY <1>1 DEF Going, ManagedTypes
  <2>2. todo' = [d \in Clients |-> todo'[d]]
    BY <1>1 DEF Going, ManagedTypes
  <2>3. ASSUME NEW d \in Clients, AtWork(d)'
        PROVE  /\ order'[d] # NoOrder /\ Concerns(order'[d].op, order'[d].on)
               /\ todo'[d] \in Suffixes(order'[d])
    <3>1. order' = order /\ AtWork(d)
      BY <1>1, <2>1, <2>3 DEF Going, AtWork
    <3> QED BY <2>1, <2>3, <3>1, WorkingFacts DEF ManagedTypes, AtWork
  <2> QED BY <1>1, <2>2, <2>3 DEF Going, ManagedTypes, AtWork
<1>2. ASSUME NEW report \in [op : Ops \cup {Nothing}, number : Nat, purge : BOOLEAN],
             Ending(c, report), Concerns(report.op, order[c].on)
      PROVE  ManagedTypes'
  <2>1. \A d \in Clients : /\ todo'[d] = IF d = c THEN <<>> ELSE todo[d]
                           /\ order'[d] = IF d = c THEN NoOrder ELSE order[d]
    BY <1>2 DEF Ending, ManagedTypes
  <2>2. todo' = [d \in Clients |-> todo'[d]]
    BY <1>2 DEF Ending, ManagedTypes
  <2>3. order' \in [Clients -> [op : Ops, on : Things, number : Nat, purge : BOOLEAN,
                                password : BOOLEAN] \cup {NoOrder}]
    BY <1>2 DEF Ending, ManagedTypes
  <2>4. ASSUME NEW d \in Clients, AtWork(d)'
        PROVE  /\ order'[d] # NoOrder /\ Concerns(order'[d].op, order'[d].on)
               /\ todo'[d] \in Suffixes(order'[d])
    BY <2>1, <2>4 DEF AtWork, ManagedTypes
  <2>5. order[c].on \in Things
    BY WorkingFacts
  <2>6. /\ told' \in [Things -> [op : Ops \cup {Nothing}, number : Nat, purge : BOOLEAN]]
        /\ \A x \in Things : Concerns(told'[x].op, x)
    BY <1>2, <2>5 DEF Ending, ManagedTypes
  <2> QED BY <2>2, <2>3, <2>4, <2>6 DEF ManagedTypes, AtWork
<1> QED BY <1>1, <1>2

\* A step of a client keeps the invariant.
LEMMA ClientStep ==
    ASSUME ManagedInv, NEW c \in Clients, AtWork(c), Perform(c) \/ PerformFails(c) \/ Interrupt(c)
    PROVE  ManagedInv'
<1> DEFINE Rec == [op : Ops \cup {Nothing}, number : Nat, purge : BOOLEAN]
<1>0. ManagedTypes /\ Exclusive /\ \A x \in Things \ (mixed \cup ignored) : Sound(x)
  BY DEF ManagedInv
<1>1. PICK o, s, t : o = order[c] /\ s = Head(todo[c]) /\ t = Tail(todo[c])
  OBVIOUS
<1>2. o.on \in Things /\ o.op \in Ops /\ Done(o) \in Rec /\ Unreported \in Rec
      /\ Concerns(o.op, o.on) /\ Concerns(Nothing, o.on)
  BY <1>0, <1>1, WorkingFacts, NothingAssumption DEF Unreported, Concerns, Done
<1>3. /\ mixed' = mixed /\ orders' = orders
      /\ \/ /\ Succeeds(o, s) /\ managed' = Outcome(o, s) /\ ignored' = ignored
            /\ \/ t # <<>> /\ Going(c, t)
               \/ t = <<>> /\ (Ending(c, Unreported) \/ Ending(c, Done(o)))
         \/ /\ managed' \in Remains(o, s)
            /\ \/ ignored' = ignored /\ Ending(c, Unreported)
               \/ Going(c, t) /\ ignored' = ignored \cup {o.on} /\ o.on \in Units
  <2>1. Moves(c, o, s, t)
    BY <1>0, <1>1, ClientMoves
  <2> QED BY <2>1 DEF Moves
<1>4. managed' \in Managed /\ Elsewhere(o, managed')
  BY <1>0, <1>1, <1>3, StepOutcome
<1>5. ignored \subseteq ignored' /\ ignored' \subseteq Units
  BY <1>0, <1>2, <1>3 DEF ManagedTypes
<1>6. Going(c, t) \/ Ending(c, Unreported) \/ Ending(c, Done(o))
  BY <1>3
<1>7. ManagedTypes'
  <2>1. Concerns(Unreported.op, o.on) /\ Concerns(Done(o).op, o.on)
    BY <1>2 DEF Unreported, Done
  <2> QED BY <1>0, <1>1, <1>2, <1>3, <1>4, <1>5, <1>6, <2>1, MoveTypes
<1>8. /\ \A d \in Clients \ {c} : todo'[d] = todo[d] /\ order'[d] = order[d]
      /\ \A x \in Things : x # o.on => told'[x] = told[x]
      /\ \A x : On(c, x)' => On(c, x)
      /\ \A x \in Things : x # o.on => ~On(c, x) /\ ~On(c, x)'
      /\ Going(c, t) => todo'[c] = t /\ order'[c] = o
      /\ \A report : Ending(c, report) => todo'[c] = <<>> /\ told'[o.on] = report
  <2>1. CASE Going(c, t)
    BY <1>0, <1>1, <2>1 DEF Going, On, AtWork, ManagedTypes, Ending
  <2>2. ASSUME NEW r, Ending(c, r)
        PROVE /\ \A d \in Clients \ {c} : todo'[d] = todo[d] /\ order'[d] = order[d]
              /\ \A x \in Things : x # o.on => told'[x] = told[x]
              /\ todo'[c] = <<>> /\ told'[o.on] = r
    BY <1>0, <1>1, <1>2, <2>2 DEF Ending, ManagedTypes
  <2> QED BY <1>1, <1>6, <2>1, <2>2 DEF On, AtWork
<1>12. \A r : ~(Going(c, t) /\ Ending(c, r))
  <2>1. order[c] # NoOrder
    BY <1>0 DEF ManagedTypes
  <2> QED BY <1>0, <2>1 DEF Going, Ending, ManagedTypes
<1>9. \A d \in Clients \ {c}, x \in Things : On(d, x)' <=> On(d, x)
  BY <1>8 DEF On, AtWork
<1>10. Exclusive'
  BY <1>0, <1>3, <1>8, <1>9 DEF Exclusive
<1>11. ASSUME NEW x \in Things \ (mixed' \cup ignored') PROVE Sound(x)'
  <2>1. Sound(x) /\ x \notin mixed
    BY <1>0, <1>3, <1>5, <1>11
  <2>2. CASE x # o.on
    <3>1. /\ \A d \in Clients : On(d, x)' <=> On(d, x)
          /\ \A d \in Clients : On(d, x) => order'[d] = order[d] /\ todo'[d] = todo[d]
      BY <1>8, <1>9, <2>2
    <3> QED BY <1>0, <1>4, <1>8, <2>1, <2>2, <3>1, ElsewhereSound
  <2>3. CASE x = o.on
    <3>1. On(c, x) /\ \A d \in Clients : On(d, x) => d = c
      BY <1>0, <1>1, <2>1, <2>3 DEF Exclusive, On
    <3>2. Achieved(o, s) /\ Removable(x)
      BY <1>1, <2>1, <3>1 DEF Sound
    <3>3. Removable(x)'
      BY <1>0, <1>1, <1>3, <2>3, <3>2, OwnRemovable
    <3>4. \A d \in Clients : On(d, x)' => d = c
      BY <1>9, <3>1
    <3>5. CASE Ending(c, Unreported)
      <4>1. \A d \in Clients : ~On(d, x)'
        BY <1>8, <3>4, <3>5 DEF On, AtWork
      <4>2. told'[x].op = Nothing
        BY <1>8, <2>3, <3>5 DEF Unreported
      <4>3. Holds(x)'
        BY <4>2, NothingAssumption DEF Holds
      <4> QED BY <3>3, <4>1, <4>3 DEF Sound
    <3>6. CASE Going(c, t)
      <4>1. t # <<>> /\ Succeeds(o, s) /\ managed' = Outcome(o, s)
        BY <1>3, <1>12, <1>11, <2>3, <3>6
      <4>2. Achieved(o, Head(t))'
        BY <1>0, <1>1, <3>2, <4>1, OwnAchieved, Zenon
      <4>3. todo'[c] = t /\ order'[c] = o
        BY <1>8, <3>6
      <4>4. On(c, x)'
        BY <2>3, <4>1, <4>3 DEF On, AtWork
      <4>5. ~Idle(x)'
        BY <4>4 DEF Idle
      <4>6. \A d \in Clients : On(d, x)' => Achieved(order[d], Head(todo[d]))'
        BY <3>4, <4>2, <4>3
      <4> QED BY <3>3, <4>5, <4>6 DEF Sound
    <3>7. CASE Ending(c, Done(o)) /\ ~Ending(c, Unreported)
      <4>1. t = <<>> /\ Succeeds(o, s) /\ managed' = Outcome(o, s)
        BY <1>3, <1>12, <1>11, <2>3, <3>7
      <4>2. \A d \in Clients : ~On(d, x)'
        BY <1>8, <3>4, <3>7 DEF On, AtWork
      <4>3. told'[x] = Done(o)
        BY <1>8, <2>3, <3>7
      <4>4. told'[x].op = o.op /\ told'[x].number = o.number /\ told'[x].purge = o.purge
        BY <4>3 DEF Done
      <4>5. Holds(x)'
        <5>1. /\ o.op = "schedule" =>
                 /\ o.on \in managed'.active /\ o.on \in managed'.enabled
                 /\ managed'.loaded[o.on].service = o.number
                 /\ managed'.unit[o.on].service = o.number
                 /\ o.on # Webhook => /\ managed'.loaded[o.on].timer = o.number
                                   /\ managed'.unit[o.on].timer = o.number
              /\ o.op = "unschedule" =>
                 /\ o.on \notin managed'.active /\ o.on \notin managed'.enabled
                 /\ managed'.unit[o.on] = NoUnit
              /\ o.op = "install" => managed'.containers[o.on] = "all"
              /\ o.op = "remove" => /\ managed'.containers[o.on] = "none"
                                    /\ o.purge => o.on \notin managed'.data
          BY <1>0, <1>1, <3>2, <4>1, OwnAchieved, ZenonT(60)
        <5> QED BY <2>3, <4>4, <5>1 DEF Holds
      <4> QED BY <3>3, <4>2, <4>5 DEF Sound
    <3> QED BY <1>6, <3>5, <3>6, <3>7
  <2> QED BY <2>2, <2>3
<1> QED BY <1>7, <1>10, <1>11 DEF ManagedInv

\* A new command has nothing to rely on; one about a thing another works on is seen.
LEMMA GiveStep ==
    ASSUME ManagedInv, NEW c \in Clients, Give(c)
    PROVE  ManagedInv'
<1>0. ManagedTypes /\ Exclusive /\ \A x \in Things \ (mixed \cup ignored) : Sound(x)
  BY DEF ManagedInv
<1>1. PICK g \in Orders : /\ todo[c] = <<>> /\ orders' = orders + 1
                          /\ LET numbered == [op |-> g.op, on |-> g.on, purge |-> g.purge,
                                              password |-> g.password, number |-> orders']
                             IN  /\ order' = [order EXCEPT ![c] = numbered]
                                 /\ todo' = [todo EXCEPT ![c] = StepsOf(numbered)]
                          /\ mixed' = IF \E d \in Clients : todo[d] # <<>> /\ order[d].on = g.on
                                      THEN mixed \cup {g.on} ELSE mixed
                          /\ managed' = managed /\ told' = told /\ ignored' = ignored
  BY DEF Give
<1>2. PICK o : o = [op |-> g.op, on |-> g.on, purge |-> g.purge, password |-> g.password,
                    number |-> orders']
  OBVIOUS
<1>3. /\ g.op \in Ops /\ g.on \in Things /\ g.purge \in BOOLEAN /\ g.password \in BOOLEAN
      /\ Concerns(g.op, g.on)
  BY Apart DEF Orders, Ops, Concerns, Stacks
<1>4. /\ o \in [op : Ops, on : Things, number : Nat, purge : BOOLEAN, password : BOOLEAN]
      /\ o.op = g.op /\ o.on = g.on /\ o # NoOrder /\ orders' \in Nat
  <2>1. orders' \in Nat
    BY <1>0, <1>1 DEF ManagedTypes
  <2>2. o.op = g.op /\ NoOrder.op = Nothing
    BY <1>2 DEF NoOrder
  <2> QED BY <1>2, <1>3, <2>1, <2>2, NothingAssumption DEF Ops
<1>5. order' = [order EXCEPT ![c] = o] /\ todo' = [todo EXCEPT ![c] = StepsOf(o)]
  BY <1>1, <1>2
<1>6. /\ StepsOf(o) \in Suffixes(o) /\ StepsOf(o) # <<>>
      /\ Head(StepsOf(o)) \in {"service", "disable", "password", "data", "stat"}
  <2>1. /\ StepsOf(o) \in Suffixes(o)
        /\ NextOf(StepsOf(o)) \in {"service", "disable", "password", "data", "stat"}
    BY <1>4, FirstSteps
  <2> QED BY <2>1, <1>4, StepFollows DEF NextOf
<1>7. \A d \in Clients : /\ todo'[d] = IF d = c THEN StepsOf(o) ELSE todo[d]
                         /\ order'[d] = IF d = c THEN o ELSE order[d]
  BY <1>0, <1>5 DEF ManagedTypes
<1>8. \A d \in Clients \ {c}, x \in Things : On(d, x)' <=> On(d, x)
  BY <1>7 DEF On, AtWork
<1>9. mixed \subseteq mixed' /\ mixed' \subseteq Things
  BY <1>0, <1>1, <1>3 DEF ManagedTypes
<1>10. ManagedTypes'
  <2>1. todo' = [d \in Clients |-> todo'[d]]
    BY <1>0, <1>5 DEF ManagedTypes
  <2>2. order' \in [Clients -> [op : Ops, on : Things, number : Nat, purge : BOOLEAN,
                                password : BOOLEAN] \cup {NoOrder}]
    BY <1>0, <1>4, <1>5 DEF ManagedTypes
  <2>3. ASSUME NEW d \in Clients, AtWork(d)'
        PROVE  /\ order'[d] # NoOrder /\ Concerns(order'[d].op, order'[d].on)
               /\ todo'[d] \in Suffixes(order'[d])
    BY <1>0, <1>3, <1>4, <1>6, <1>7, <2>3 DEF AtWork, ManagedTypes
  <2> QED BY <1>0, <1>1, <1>4, <1>9, <2>1, <2>2, <2>3 DEF ManagedTypes, AtWork
<1>11. \A x \in Things \ mixed' : x = g.on => \A d \in Clients : ~On(d, x)
  BY <1>1 DEF On, AtWork
<1>12. \A x \in Things : On(c, x)' => x = g.on
  BY <1>4, <1>7 DEF On
<1>13. Exclusive'
  BY <1>0, <1>8, <1>9, <1>11, <1>12 DEF Exclusive
<1>14. ASSUME NEW x \in Things \ (mixed' \cup ignored') PROVE Sound(x)'
  <2>1. Sound(x)
    BY <1>0, <1>1, <1>9, <1>14
  <2>2. CASE x # g.on
    <3>1. /\ \A d \in Clients : On(d, x)' <=> On(d, x)
          /\ \A d \in Clients : On(d, x) => order'[d] = order[d] /\ todo'[d] = todo[d]
      BY <1>1, <1>7, <1>8, <1>12, <2>2 DEF On, AtWork
    <3>2. Elsewhere(o, managed') /\ told'[x] = told[x] /\ x # o.on
      BY <1>1, <1>4, <2>2 DEF Elsewhere
    <3> QED BY <1>0, <2>1, <3>1, <3>2, ElsewhereSound
  <2>3. CASE x = g.on
    <3>1. \A d \in Clients : On(d, x)' => d = c
      BY <1>8, <1>11, <1>14, <2>3
    <3>2. On(c, x)'
      BY <1>4, <1>6, <1>7, <2>3 DEF On, AtWork
    <3>3. Removable(x)'
      BY <1>1, <2>1 DEF Sound, Removable, MainFile
    <3>4. ASSUME NEW s \in {"service", "disable", "password", "data", "stat"}
          PROVE  Achieved(o, s)'
      BY DEF Achieved
    <3>6. \A d \in Clients : On(d, x)' => Achieved(order[d], Head(todo[d]))'
      BY <1>6, <1>7, <3>1, <3>4
    <3> QED BY <3>2, <3>3, <3>6 DEF Sound, Idle
  <2> QED BY <2>2, <2>3
<1> QED BY <1>10, <1>13, <1>14 DEF ManagedInv

\* The host comes up with the units that are enabled, and no command under way.
LEMMA RestartStep ==
    ASSUME ManagedInv, RestartHost
    PROVE  ManagedInv'
<1>0. ManagedTypes /\ Exclusive /\ \A x \in Things \ (mixed \cup ignored) : Sound(x)
  BY DEF ManagedInv
<1>1. /\ managed'.unit = managed.unit /\ managed'.loaded = managed.unit
      /\ managed'.enabled = managed.enabled
      /\ managed'.active = {u \in managed.enabled : MainFile(u) # Nothing}
      /\ managed'.compose = managed.compose /\ managed'.containers = managed.containers
      /\ managed'.data = managed.data /\ managed'.network = managed.network
      /\ managed'.password = managed.password
      /\ managed'.process = IF Webhook \in managed.enabled THEN managed.unit[Webhook].service
                            ELSE Nothing
  BY <1>0 DEF RestartHost, ManagedTypes, Managed
<1>2. managed.unit \in [Units -> Files] /\ managed.enabled \subseteq Units
  BY <1>0 DEF ManagedTypes, Managed
<1>3. managed' \in Managed
  <2>1. managed'.process \in Nat \cup {Nothing}
    BY <1>1, <1>2, Apart DEF Files
  <2>2. managed' = [unit |-> managed'.unit, loaded |-> managed'.loaded,
                    enabled |-> managed'.enabled, active |-> managed'.active,
                    process |-> managed'.process, compose |-> managed'.compose,
                    containers |-> managed'.containers, data |-> managed'.data,
                    network |-> managed'.network, password |-> managed'.password]
    BY <1>0 DEF RestartHost, ManagedTypes, Managed
  <2> QED BY <1>0, <1>1, <1>2, <2>1, <2>2 DEF ManagedTypes, Managed
<1>4. /\ mixed' = mixed /\ ignored' = ignored /\ orders' = orders
      /\ todo' = [c \in Clients |-> <<>>] /\ order' = [c \in Clients |-> NoOrder]
      /\ told' = [x \in Things |-> IF \E c \in Clients : todo[c] # <<>> /\ order[c].on = x
                                   THEN Unreported ELSE told[x]]
  BY DEF RestartHost
<1>5. \A c \in Clients : ~AtWork(c)'
  BY <1>4 DEF AtWork
<1>6. \A x \in Things : told'[x] = IF Idle(x) THEN told[x] ELSE Unreported
  BY <1>4 DEF Idle, On, AtWork
<1>7. ManagedTypes'
  <2>1. /\ Unreported \in [op : Ops \cup {Nothing}, number : Nat, purge : BOOLEAN]
        /\ \A x : Concerns(Unreported.op, x)
    BY NothingAssumption DEF Unreported, Concerns
  <2>2. /\ told' \in [Things -> [op : Ops \cup {Nothing}, number : Nat, purge : BOOLEAN]]
        /\ \A x \in Things : Concerns(told'[x].op, x)
    BY <1>0, <1>4, <1>6, <2>1 DEF ManagedTypes
  <2>3. todo' = [c \in Clients |-> todo'[c]]
    BY <1>4
  <2> QED BY <1>0, <1>3, <1>4, <1>5, <2>2, <2>3 DEF ManagedTypes
<1>8. Exclusive'
  BY <1>5 DEF Exclusive, On
<1>9. ASSUME NEW x \in Things \ (mixed' \cup ignored') PROVE Sound(x)'
  <2>1. Sound(x)
    BY <1>0, <1>4, <1>9
  <2>2. Removable(x)'
    BY <1>1, <2>1 DEF Sound, Removable, MainFile
  <2>3. Holds(x)'
    <3>1. CASE Idle(x)
      <4>1. Holds(x) /\ told'[x] = told[x] /\ Concerns(told[x].op, x)
            /\ told[x].number \in Nat
        BY <1>0, <1>6, <2>1, <3>1 DEF Sound, ManagedTypes
      <4>2. told[x].op = "schedule" => MainFile(x) # Nothing
        BY <4>1, NothingAssumption DEF Holds, MainFile
      <4> QED BY <1>1, <4>1, <4>2 DEF Holds
    <3>2. CASE ~Idle(x)
      BY <1>6, <3>2, NothingAssumption DEF Holds, Unreported
    <3> QED BY <3>1, <3>2
  <2> QED BY <1>5, <2>2, <2>3 DEF Sound, On
<1> QED BY <1>7, <1>8, <1>9 DEF ManagedInv

\* The invariant holds of the services at first.
LEMMA ManagedStart == ManagedInit => ManagedInv
<1> SUFFICES ASSUME ManagedInit PROVE ManagedInv
  OBVIOUS
<1>1. NoUnit \in Files
  BY DEF NoUnit, Files
<1>2. managed \in Managed
  BY <1>1 DEF ManagedInit, Managed
<1>3. \A c \in Clients : ~AtWork(c)
  BY DEF ManagedInit, AtWork
<1>4. /\ told = [x \in Things |-> Unreported]
      /\ Unreported \in [op : Ops \cup {Nothing}, number : Nat, purge : BOOLEAN]
      /\ Unreported.op = Nothing
  BY DEF ManagedInit, Unreported
<1>5. ManagedTypes
  <2>1. \A x \in Things : Concerns(told[x].op, x)
    BY <1>4, NothingAssumption DEF Concerns
  <2> QED BY <1>2, <1>3, <1>4, <2>1 DEF ManagedInit, ManagedTypes
<1>6. \A x \in Things : Removable(x) /\ Holds(x)
  <2>1. managed.active = {} /\ managed.enabled = {} /\ \A s \in Stacks : managed.containers[s] = "none"
    BY DEF ManagedInit
  <2> QED BY <1>4, <2>1, NothingAssumption DEF Removable, Holds
<1> QED BY <1>3, <1>5, <1>6 DEF ManagedInv, Exclusive, Sound, On

\* A step of something else leaves it.
LEMMA ManagedUnchanged == ManagedInv /\ UNCHANGED managedVars => ManagedInv'
<1> SUFFICES ASSUME ManagedInv, UNCHANGED managedVars PROVE ManagedInv'
  OBVIOUS
<1>1. /\ managed' = managed /\ order' = order /\ todo' = todo /\ told' = told
      /\ mixed' = mixed /\ ignored' = ignored /\ orders' = orders
  BY DEF managedVars, managedBounds
<1>2. ManagedTypes' /\ Exclusive'
  BY <1>1 DEF ManagedInv, ManagedTypes, Exclusive, On, AtWork
<1>3. \A x \in Things : Sound(x) => Sound(x)'
  BY <1>1 DEF Sound, Removable, MainFile, Holds, Idle, On, AtWork, Achieved
<1> QED BY <1>1, <1>2, <1>3 DEF ManagedInv

\* What runs, what has been told and what the commands under way have done.
THEOREM ManagedInvariance == ManagedSpec => []ManagedInv
<1>1. ManagedInit => ManagedInv
  BY ManagedStart
<1>2. ManagedInv /\ [ManagedNext]_managedVars => ManagedInv'
  <2> SUFFICES ASSUME ManagedInv, [ManagedNext]_managedVars PROVE ManagedInv'
    OBVIOUS
  <2>1. ASSUME NEW c \in Clients, Perform(c) \/ PerformFails(c) \/ Interrupt(c)
        PROVE  ManagedInv'
    <3>1. AtWork(c)
      BY <2>1 DEF Perform, PerformFails, Interrupt, AtWork
    <3> QED BY <2>1, <3>1, ClientStep
  <2> QED BY <2>1, GiveStep, RestartStep, ManagedUnchanged DEF ManagedNext
<1> QED BY <1>1, <1>2, PTL DEF ManagedSpec

\* What runs can be removed again, however many commands failed or died half way.
THEOREM RunningStaysRemovable == ManagedSpec => []RunningIsRemovable
<1>1. ManagedInv => RunningIsRemovable
  <2> SUFFICES ASSUME ManagedInv PROVE RunningIsRemovable
    OBVIOUS
  <2>1. managed.active \subseteq Units
    BY DEF ManagedInv, ManagedTypes, Managed
  <2>2. \A x \in Things \ (mixed \cup ignored) : Removable(x)
    BY DEF ManagedInv, Sound
  <2>3. ignored \cap Stacks = {}
    BY Apart DEF ManagedInv, ManagedTypes
  <2> QED BY <2>1, <2>2, <2>3, Apart DEF RunningIsRemovable, Removable
<1> QED BY <1>1, ManagedInvariance, PTL

\* What the last command about a thing reported is in effect until the next begins.
THEOREM ToldStaysInEffect == ManagedSpec => []ToldIsInEffect
<1>1. ManagedInv => ToldIsInEffect
  <2> SUFFICES ASSUME ManagedInv,
                      NEW x \in Things \ (mixed \cup ignored),
                      ~(\E c \in Clients : todo[c] # <<>> /\ order[c].on = x)
               PROVE  CASE told[x].op = "schedule" ->
                              /\ x \in managed.active \cap managed.enabled
                              /\ managed.loaded[x].service = told[x].number
                              /\ x # Webhook => managed.loaded[x].timer = told[x].number
                        [] told[x].op = "unschedule" ->
                              x \notin managed.active /\ managed.unit[x] = NoUnit
                        [] told[x].op = "install" -> managed.containers[x] = "all"
                        [] told[x].op = "remove" ->
                              /\ managed.containers[x] = "none"
                              /\ told[x].purge => x \notin managed.data
                        [] OTHER -> TRUE
    BY DEF ToldIsInEffect
  <2>1. Holds(x)
    BY DEF ManagedInv, Sound, Idle, On, AtWork
  <2>2. told[x].op \in Ops \cup {Nothing}
    BY DEF ManagedInv, ManagedTypes
  <2> QED BY <2>1, <2>2, NothingAssumption DEF Holds, Ops
<1> QED BY <1>1, ManagedInvariance, PTL

-----------------------------------------------------------------------------
(* The steps of an installer.                                                *)

Deeds == {"refresh", "install", "remove", "file", "enable", "restart", "upgrade", "reload",
          "deny", "permit", "allow", "activate", "verify"}

\* A host, as far as the steps need to know its form.
WholeFirewall(f) ==
    /\ f = [active |-> f.active, incoming |-> f.incoming, outgoing |-> f.outgoing,
            rules |-> f.rules]
    /\ f.active \in BOOLEAN

WholeHost(h) ==
    /\ h = [packages |-> h.packages, files |-> h.files, index |-> h.index,
            running |-> h.running, enabled |-> h.enabled, rotates |-> h.rotates,
            jailed |-> h.jailed, firewall |-> h.firewall]
    /\ h.rotates \in BOOLEAN /\ h.jailed \in BOOLEAN
    /\ WholeFirewall(h.firewall)

\* What a step is made of.
LEMMA StepFields ==
    ASSUME NEW d, NEW x
    PROVE  Step(d, x).do = d /\ Step(d, x).of = x
  BY DEF Step

\* What starting or stopping services leaves.
StartedAs(h, S, k) ==
    /\ WholeHost(k)
    /\ k.packages = h.packages /\ k.files = h.files /\ k.index = h.index
    /\ k.enabled = h.enabled /\ k.firewall = h.firewall
    /\ k.running = h.running \cup S
    /\ "fail2ban" \in S => k.jailed = ("jail" \in h.files)
    /\ "fail2ban" \notin S => k.jailed = h.jailed

StoppedAs(h, S, k) ==
    /\ WholeHost(k)
    /\ k.packages = h.packages /\ k.files = h.files /\ k.index = h.index
    /\ k.enabled = h.enabled /\ k.firewall = h.firewall
    /\ k.running = h.running \ S
    /\ k.jailed = (h.jailed /\ "fail2ban" \notin S)

\* Starting services changes what runs, and what they read when they start.
LEMMA StartedFields ==
    ASSUME NEW h, WholeHost(h), NEW S
    PROVE  StartedAs(h, S, Started(h, S))
<1>1. PICK k : k = Started(h, S)
  OBVIOUS
<1>2. /\ k.packages = h.packages /\ k.files = h.files /\ k.index = h.index /\ k.enabled = h.enabled
      /\ k.running = h.running \cup S /\ k.firewall = h.firewall
  BY <1>1 DEF Started, WholeHost
<1>3. k = [packages |-> k.packages, files |-> k.files, index |-> k.index, running |-> k.running,
           enabled |-> k.enabled, rotates |-> k.rotates, jailed |-> k.jailed,
           firewall |-> k.firewall]
  BY <1>1 DEF Started, WholeHost
<1>4. k.rotates = IF "docker" \in S THEN "rotation" \in h.files ELSE h.rotates
  BY <1>1 DEF Started, WholeHost
<1>5. k.jailed = IF "fail2ban" \in S THEN "jail" \in h.files ELSE h.jailed
  BY <1>1 DEF Started, WholeHost
<1>6. k.rotates \in BOOLEAN
  <2>1. CASE "docker" \in S
    BY <1>4, <2>1
  <2>2. CASE "docker" \notin S
    BY <1>4, <2>2 DEF WholeHost
  <2> QED BY <2>1, <2>2
<1>7. k.jailed \in BOOLEAN
  <2>1. CASE "fail2ban" \in S
    BY <1>5, <2>1
  <2>2. CASE "fail2ban" \notin S
    BY <1>5, <2>2 DEF WholeHost
  <2> QED BY <2>1, <2>2
<1>8. WholeHost(k)
  BY <1>2, <1>3, <1>6, <1>7 DEF WholeHost
<1>9. "fail2ban" \in S => k.jailed = ("jail" \in h.files)
  BY <1>5
<1>10. "fail2ban" \notin S => k.jailed = h.jailed
  BY <1>5
<1> QED BY <1>1, <1>2, <1>8, <1>9, <1>10 DEF StartedAs

\* Stopping services changes what runs and what they had read.
LEMMA StoppedFields ==
    ASSUME NEW h, WholeHost(h), NEW S
    PROVE  StoppedAs(h, S, Stopped(h, S))
<1>1. PICK k : k = Stopped(h, S)
  OBVIOUS
<1>2. /\ k.packages = h.packages /\ k.files = h.files /\ k.index = h.index /\ k.enabled = h.enabled
      /\ k.running = h.running \ S /\ k.firewall = h.firewall
  BY <1>1 DEF Stopped, WholeHost
<1>3. k = [packages |-> k.packages, files |-> k.files, index |-> k.index, running |-> k.running,
           enabled |-> k.enabled, rotates |-> k.rotates, jailed |-> k.jailed,
           firewall |-> k.firewall]
  BY <1>1 DEF Stopped, WholeHost
<1>4. k.rotates = (h.rotates /\ "docker" \notin S)
  BY <1>1 DEF Stopped, WholeHost
<1>5. k.jailed = (h.jailed /\ "fail2ban" \notin S)
  BY <1>1 DEF Stopped, WholeHost
<1>6. k.rotates \in BOOLEAN /\ k.jailed \in BOOLEAN
  BY <1>4, <1>5
<1>7. WholeHost(k)
  BY <1>2, <1>3, <1>6 DEF WholeHost
<1> QED BY <1>1, <1>2, <1>5, <1>7 DEF StoppedAs

Sources(h) == {c \in {"docker", "caddy"} : SourceOf(c) \in h.files}

FirewallAfter(f, s) ==
    [active |-> f.active \/ s.do = "activate",
     incoming |-> IF s.do = "deny" THEN "deny" ELSE f.incoming,
     outgoing |-> IF s.do = "permit" THEN "allow" ELSE f.outgoing,
     rules |-> IF s.do = "allow" THEN f.rules \cup {s.of} ELSE f.rules]

\* What each step does to the host.
EffectOf(h, s, k) ==
    /\ WholeHost(k)
    /\ k.packages = IF s.do = "install" THEN h.packages \cup {s.of}
                    ELSE IF s.do = "remove" THEN h.packages \ {"conflict"} ELSE h.packages
    /\ k.files = IF s.do = "file" THEN h.files \cup {s.of} ELSE h.files
    /\ k.index = IF s.do = "refresh" THEN Sources(h) ELSE h.index
    /\ k.running = IF s.do = "remove" THEN h.running \ {"docker"}
                   ELSE IF s.do \in {"enable", "restart"}
                           \/ (s.do = "install" /\ s.of \in Services)
                   THEN h.running \cup {s.of} ELSE h.running
    /\ k.jailed = h.jailed \/ k.jailed = ("jail" \in h.files)
    /\ s.do = "reload" => k.jailed = ("jail" \in h.files)
    /\ k.firewall = FirewallAfter(h.firewall, s)

\* A step leaves a firewall a firewall.
LEMMA FirewallWhole ==
    ASSUME NEW f, WholeFirewall(f), NEW s
    PROVE  WholeFirewall(FirewallAfter(f, s))
  BY DEF WholeFirewall, FirewallAfter

\* Only four kinds of steps touch the firewall.
LEMMA FirewallSame ==
    ASSUME NEW f, WholeFirewall(f), NEW s, s.do \notin {"deny", "permit", "allow", "activate"}
    PROVE  FirewallAfter(f, s) = f
<1>1. (f.active \/ s.do = "activate") = f.active
  BY DEF WholeFirewall
<1> QED BY <1>1 DEF FirewallAfter, WholeFirewall

\* The effect of each kind of step (Effect), field by field.
LEMMA Effects ==
    ASSUME NEW h, WholeHost(h), NEW s, s.do \in Deeds
    PROVE  EffectOf(h, s, Effect(h, s))
<1> DEFINE k == Effect(h, s)
<1>0. WholeFirewall(h.firewall)
  BY DEF WholeHost
<1>1. CASE s.do = "refresh"
  <2>1. /\ k.packages = h.packages
        /\ k.files = h.files
        /\ k.index = Sources(h)
        /\ k.running = h.running
        /\ k.enabled = h.enabled
        /\ k.rotates = h.rotates
        /\ k.jailed = h.jailed
    BY <1>1 DEF Effect, WholeHost, Sources
  <2>2. k.firewall = FirewallAfter(h.firewall, s)
    <3>1. k.firewall = h.firewall
      BY <1>1 DEF Effect, WholeHost
    <3> QED BY <1>1, <1>0, <3>1, FirewallSame
  <2>3. k = [packages |-> k.packages, files |-> k.files, index |-> k.index,
             running |-> k.running, enabled |-> k.enabled, rotates |-> k.rotates,
             jailed |-> k.jailed, firewall |-> k.firewall]
    BY <1>1 DEF Effect, WholeHost
  <2>4. k.rotates \in BOOLEAN /\ k.jailed \in BOOLEAN
    BY <2>1 DEF WholeHost
  <2>5. WholeHost(k)
    BY <1>0, <2>2, <2>3, <2>4, FirewallWhole DEF WholeHost
  <2> QED BY <1>1, <2>1, <2>2, <2>5 DEF EffectOf, Services
<1>2. CASE s.do = "file"
  <2>1. /\ k.packages = h.packages
        /\ k.files = h.files \cup {s.of}
        /\ k.index = h.index
        /\ k.running = h.running
        /\ k.enabled = h.enabled
        /\ k.rotates = h.rotates
        /\ k.jailed = h.jailed
    BY <1>2 DEF Effect, WholeHost, Sources
  <2>2. k.firewall = FirewallAfter(h.firewall, s)
    <3>1. k.firewall = h.firewall
      BY <1>2 DEF Effect, WholeHost
    <3> QED BY <1>2, <1>0, <3>1, FirewallSame
  <2>3. k = [packages |-> k.packages, files |-> k.files, index |-> k.index,
             running |-> k.running, enabled |-> k.enabled, rotates |-> k.rotates,
             jailed |-> k.jailed, firewall |-> k.firewall]
    BY <1>2 DEF Effect, WholeHost
  <2>4. k.rotates \in BOOLEAN /\ k.jailed \in BOOLEAN
    BY <2>1 DEF WholeHost
  <2>5. WholeHost(k)
    BY <1>0, <2>2, <2>3, <2>4, FirewallWhole DEF WholeHost
  <2> QED BY <1>2, <2>1, <2>2, <2>5 DEF EffectOf, Services
<1>3. CASE s.do = "reload"
  <2>1. /\ k.packages = h.packages
        /\ k.files = h.files
        /\ k.index = h.index
        /\ k.running = h.running
        /\ k.enabled = h.enabled
        /\ k.rotates = h.rotates
        /\ k.jailed = ("jail" \in h.files)
    BY <1>3 DEF Effect, WholeHost, Sources
  <2>2. k.firewall = FirewallAfter(h.firewall, s)
    <3>1. k.firewall = h.firewall
      BY <1>3 DEF Effect, WholeHost
    <3> QED BY <1>3, <1>0, <3>1, FirewallSame
  <2>3. k = [packages |-> k.packages, files |-> k.files, index |-> k.index,
             running |-> k.running, enabled |-> k.enabled, rotates |-> k.rotates,
             jailed |-> k.jailed, firewall |-> k.firewall]
    BY <1>3 DEF Effect, WholeHost
  <2>4. k.rotates \in BOOLEAN /\ k.jailed \in BOOLEAN
    BY <2>1 DEF WholeHost
  <2>5. WholeHost(k)
    BY <1>0, <2>2, <2>3, <2>4, FirewallWhole DEF WholeHost
  <2> QED BY <1>3, <2>1, <2>2, <2>5 DEF EffectOf, Services
<1>4. CASE s.do = "deny"
  <2>1. /\ k.packages = h.packages
        /\ k.files = h.files
        /\ k.index = h.index
        /\ k.running = h.running
        /\ k.enabled = h.enabled
        /\ k.rotates = h.rotates
        /\ k.jailed = h.jailed
    BY <1>4 DEF Effect, WholeHost, Sources
  <2>2. k.firewall = FirewallAfter(h.firewall, s)
    BY <1>4, <1>0 DEF Effect, WholeHost, FirewallAfter, WholeFirewall
  <2>3. k = [packages |-> k.packages, files |-> k.files, index |-> k.index,
             running |-> k.running, enabled |-> k.enabled, rotates |-> k.rotates,
             jailed |-> k.jailed, firewall |-> k.firewall]
    BY <1>4 DEF Effect, WholeHost
  <2>4. k.rotates \in BOOLEAN /\ k.jailed \in BOOLEAN
    BY <2>1 DEF WholeHost
  <2>5. WholeHost(k)
    BY <1>0, <2>2, <2>3, <2>4, FirewallWhole DEF WholeHost
  <2> QED BY <1>4, <2>1, <2>2, <2>5 DEF EffectOf, Services
<1>5. CASE s.do = "permit"
  <2>1. /\ k.packages = h.packages
        /\ k.files = h.files
        /\ k.index = h.index
        /\ k.running = h.running
        /\ k.enabled = h.enabled
        /\ k.rotates = h.rotates
        /\ k.jailed = h.jailed
    BY <1>5 DEF Effect, WholeHost, Sources
  <2>2. k.firewall = FirewallAfter(h.firewall, s)
    BY <1>5, <1>0 DEF Effect, WholeHost, FirewallAfter, WholeFirewall
  <2>3. k = [packages |-> k.packages, files |-> k.files, index |-> k.index,
             running |-> k.running, enabled |-> k.enabled, rotates |-> k.rotates,
             jailed |-> k.jailed, firewall |-> k.firewall]
    BY <1>5 DEF Effect, WholeHost
  <2>4. k.rotates \in BOOLEAN /\ k.jailed \in BOOLEAN
    BY <2>1 DEF WholeHost
  <2>5. WholeHost(k)
    BY <1>0, <2>2, <2>3, <2>4, FirewallWhole DEF WholeHost
  <2> QED BY <1>5, <2>1, <2>2, <2>5 DEF EffectOf, Services
<1>6. CASE s.do = "allow"
  <2>1. /\ k.packages = h.packages
        /\ k.files = h.files
        /\ k.index = h.index
        /\ k.running = h.running
        /\ k.enabled = h.enabled
        /\ k.rotates = h.rotates
        /\ k.jailed = h.jailed
    BY <1>6 DEF Effect, WholeHost, Sources
  <2>2. k.firewall = FirewallAfter(h.firewall, s)
    BY <1>6, <1>0 DEF Effect, WholeHost, FirewallAfter, WholeFirewall
  <2>3. k = [packages |-> k.packages, files |-> k.files, index |-> k.index,
             running |-> k.running, enabled |-> k.enabled, rotates |-> k.rotates,
             jailed |-> k.jailed, firewall |-> k.firewall]
    BY <1>6 DEF Effect, WholeHost
  <2>4. k.rotates \in BOOLEAN /\ k.jailed \in BOOLEAN
    BY <2>1 DEF WholeHost
  <2>5. WholeHost(k)
    BY <1>0, <2>2, <2>3, <2>4, FirewallWhole DEF WholeHost
  <2> QED BY <1>6, <2>1, <2>2, <2>5 DEF EffectOf, Services
<1>7. CASE s.do = "activate"
  <2>1. /\ k.packages = h.packages
        /\ k.files = h.files
        /\ k.index = h.index
        /\ k.running = h.running
        /\ k.enabled = h.enabled
        /\ k.rotates = h.rotates
        /\ k.jailed = h.jailed
    BY <1>7 DEF Effect, WholeHost, Sources
  <2>2. k.firewall = FirewallAfter(h.firewall, s)
    BY <1>7, <1>0 DEF Effect, WholeHost, FirewallAfter, WholeFirewall
  <2>3. k = [packages |-> k.packages, files |-> k.files, index |-> k.index,
             running |-> k.running, enabled |-> k.enabled, rotates |-> k.rotates,
             jailed |-> k.jailed, firewall |-> k.firewall]
    BY <1>7 DEF Effect, WholeHost
  <2>4. k.rotates \in BOOLEAN /\ k.jailed \in BOOLEAN
    BY <2>1 DEF WholeHost
  <2>5. WholeHost(k)
    BY <1>0, <2>2, <2>3, <2>4, FirewallWhole DEF WholeHost
  <2> QED BY <1>7, <2>1, <2>2, <2>5 DEF EffectOf, Services
<1>8. CASE s.do = "verify"
  <2>1. /\ k.packages = h.packages
        /\ k.files = h.files
        /\ k.index = h.index
        /\ k.running = h.running
        /\ k.enabled = h.enabled
        /\ k.rotates = h.rotates
        /\ k.jailed = h.jailed
    BY <1>8 DEF Effect, WholeHost, Sources
  <2>2. k.firewall = FirewallAfter(h.firewall, s)
    <3>1. k.firewall = h.firewall
      BY <1>8 DEF Effect, WholeHost
    <3> QED BY <1>8, <1>0, <3>1, FirewallSame
  <2>3. k = [packages |-> k.packages, files |-> k.files, index |-> k.index,
             running |-> k.running, enabled |-> k.enabled, rotates |-> k.rotates,
             jailed |-> k.jailed, firewall |-> k.firewall]
    BY <1>8 DEF Effect, WholeHost
  <2>4. k.rotates \in BOOLEAN /\ k.jailed \in BOOLEAN
    BY <2>1 DEF WholeHost
  <2>5. WholeHost(k)
    BY <1>0, <2>2, <2>3, <2>4, FirewallWhole DEF WholeHost
  <2> QED BY <1>8, <2>1, <2>2, <2>5 DEF EffectOf, Services
<1>9. CASE s.do = "restart"
  <2>5. k = Started(h, {s.of})
    BY <1>9 DEF Effect
  <2>6. StartedAs(h, {s.of}, k)
    BY <2>5, StartedFields
  <2>7. k.firewall = FirewallAfter(h.firewall, s)
    BY <1>9, <1>0, <2>6, FirewallSame DEF StartedAs
  <2>8. k.jailed = h.jailed \/ k.jailed = ("jail" \in h.files)
    BY <2>6 DEF StartedAs
  <2> QED BY <1>9, <2>6, <2>7, <2>8 DEF EffectOf, StartedAs, Services
<1>10. CASE s.do = "upgrade"
  <2>5. k = Started(h, Services \cap h.packages \cap h.running)
    BY <1>10 DEF Effect
  <2>6. StartedAs(h, Services \cap h.packages \cap h.running, k)
    BY <2>5, StartedFields
  <2>7. k.firewall = FirewallAfter(h.firewall, s)
    BY <1>10, <1>0, <2>6, FirewallSame DEF StartedAs
  <2>8. k.jailed = h.jailed \/ k.jailed = ("jail" \in h.files)
    BY <2>6 DEF StartedAs
  <2> QED BY <1>10, <2>6, <2>7, <2>8 DEF EffectOf, StartedAs, Services
<1>11. CASE s.do = "enable"
  <2>1. PICK g : g = [h EXCEPT !.enabled = @ \cup {s.of}]
    OBVIOUS
  <2>2. /\ g.packages = h.packages /\ g.files = h.files /\ g.index = h.index
        /\ g.running = h.running /\ g.jailed = h.jailed /\ g.firewall = h.firewall
        /\ g.rotates = h.rotates
    BY <2>1 DEF WholeHost
  <2>3. g = [packages |-> g.packages, files |-> g.files, index |-> g.index,
             running |-> g.running, enabled |-> g.enabled, rotates |-> g.rotates,
             jailed |-> g.jailed, firewall |-> g.firewall]
    BY <2>1 DEF WholeHost
  <2>4. WholeHost(g)
    BY <2>2, <2>3 DEF WholeHost
  <2>5. k = Started(g, {s.of} \ h.running)
    BY <1>11, <2>1 DEF Effect
  <2>6. StartedAs(g, {s.of} \ h.running, k)
    BY <2>5, <2>4, StartedFields
  <2>7. k.firewall = FirewallAfter(h.firewall, s)
    BY <1>11, <1>0, <2>2, <2>6, FirewallSame DEF StartedAs
  <2>8. k.jailed = h.jailed \/ k.jailed = ("jail" \in h.files)
    BY <2>6, <2>2 DEF StartedAs
  <2> QED BY <1>11, <2>2, <2>6, <2>7, <2>8 DEF EffectOf, StartedAs, Services
<1>12. CASE s.do = "install"
  <2>1. PICK g : g = [h EXCEPT !.packages = @ \cup {s.of}, !.enabled = @ \cup ({s.of} \cap (Services \ h.running))]
    OBVIOUS
  <2>2. /\ g.packages = h.packages \cup {s.of} /\ g.files = h.files /\ g.index = h.index
        /\ g.running = h.running /\ g.jailed = h.jailed /\ g.firewall = h.firewall
        /\ g.rotates = h.rotates
    BY <2>1 DEF WholeHost
  <2>3. g = [packages |-> g.packages, files |-> g.files, index |-> g.index,
             running |-> g.running, enabled |-> g.enabled, rotates |-> g.rotates,
             jailed |-> g.jailed, firewall |-> g.firewall]
    BY <2>1 DEF WholeHost
  <2>4. WholeHost(g)
    BY <2>2, <2>3 DEF WholeHost
  <2>5. k = Started(g, {s.of} \cap (Services \ h.running))
    BY <1>12, <2>1 DEF Effect
  <2>6. StartedAs(g, {s.of} \cap (Services \ h.running), k)
    BY <2>5, <2>4, StartedFields
  <2>7. k.firewall = FirewallAfter(h.firewall, s)
    BY <1>12, <1>0, <2>2, <2>6, FirewallSame DEF StartedAs
  <2>8. k.jailed = h.jailed \/ k.jailed = ("jail" \in h.files)
    BY <2>6, <2>2 DEF StartedAs
  <2> QED BY <1>12, <2>2, <2>6, <2>7, <2>8 DEF EffectOf, StartedAs, Services
<1>13. CASE s.do = "remove"
  <2>1. PICK g : g = [h EXCEPT !.packages = @ \ {"conflict"}, !.enabled = @ \ {"docker"}]
    OBVIOUS
  <2>2. /\ g.packages = h.packages \ {"conflict"} /\ g.files = h.files /\ g.index = h.index
        /\ g.running = h.running /\ g.jailed = h.jailed /\ g.firewall = h.firewall
        /\ g.rotates = h.rotates
    BY <2>1 DEF WholeHost
  <2>3. g = [packages |-> g.packages, files |-> g.files, index |-> g.index,
             running |-> g.running, enabled |-> g.enabled, rotates |-> g.rotates,
             jailed |-> g.jailed, firewall |-> g.firewall]
    BY <2>1 DEF WholeHost
  <2>4. WholeHost(g)
    BY <2>2, <2>3 DEF WholeHost
  <2>5. k = Stopped(g, {"docker"})
    BY <1>13, <2>1 DEF Effect
  <2>6. StoppedAs(g, {"docker"}, k)
    BY <2>5, <2>4, StoppedFields
  <2>7. k.firewall = FirewallAfter(h.firewall, s)
    BY <1>13, <1>0, <2>2, <2>6, FirewallSame DEF StoppedAs
  <2>8. k.jailed = h.jailed
    <3>1. h.jailed \in BOOLEAN /\ "fail2ban" \notin {"docker"}
      BY DEF WholeHost
    <3> QED BY <2>6, <2>2, <3>1 DEF StoppedAs
  <2> QED BY <1>13, <2>2, <2>6, <2>7, <2>8 DEF EffectOf, StoppedAs, Services
<1> QED BY <1>1, <1>2, <1>3, <1>4, <1>5, <1>6, <1>7, <1>8, <1>9, <1>10, <1>11, <1>12, <1>13 DEF Deeds

-----------------------------------------------------------------------------
(* What holds of a host, what a step needs of it and what it gives.          *)

Components == {"directories", "docker", "caddy", "restic", "upgrades", "ufw", "fail2ban", "update"}
Sourced == {"docker", "caddy"}
Names == {"apt", "curl", "gnupg", "conflict", "docker", "caddy", "restic", "upgrades", "ufw",
          "fail2ban", "docker-key", "docker-source", "caddy-key", "caddy-source", "rotation",
          "directories", "config", "periodic", "policy", "jail", "apt-daily",
          "apt-daily-upgrade", "incoming", "outgoing"}
AllSteps == {s \in [do : Deeds, of : Names \cup Ports] :
                /\ s.do = "install" => s.of # "conflict"
                /\ s.do = "allow" => s.of \in Ports}

Has(h, k, x) ==
    \/ k = "package" /\ x \in h.packages /\ x # "conflict"
    \/ k = "file" /\ x \in h.files
    \/ k = "index" /\ x \in h.index /\ x \in Sourced /\ SourceOf(x) \in h.files
    \/ k = "running" /\ x \in h.running /\ (x = "docker" => "conflict" \notin h.packages)
    \/ k = "jailed" /\ h.jailed /\ "jail" \in h.files
    \/ k = "clear" /\ "conflict" \notin h.packages
    \/ k = "active" /\ h.firewall.active
    \/ k = "incoming" /\ h.firewall.incoming = "deny"
    \/ k = "outgoing" /\ h.firewall.outgoing = "allow"
    \/ k = "rule" /\ x \in h.firewall.rules
    \/ k = "shown" /\ x \in Ports /\ Shown(h, x)

\* Facts that neither a failure nor the operator takes away.
Lasting(k, x) == k \in {"rule", "clear"}

Needs(s, k, x, port) ==
    \/ s.do = "file" /\ s.of = "caddy-key" /\ k = "package" /\ x = "gnupg"
    \/ s.do = "file" /\ k = "file" /\ \E c \in Sourced : s.of = SourceOf(c) /\ x = KeyOf(c)
    \/ s.do = "refresh" /\ k = "file" /\ x = s.of /\ \E c \in Sourced : s.of = SourceOf(c)
    \/ s.do = "install" /\ s.of \in Sourced /\ k = "index" /\ x = s.of
    \/ s.do \in {"install", "enable", "restart"} /\ s.of = "docker" /\ k = "clear"
    \/ s.do \in {"enable", "restart"} /\ s.of \notin Timers /\ k = "package" /\ x = s.of
    \/ s.do = "reload" /\ ((k = "running" /\ x = "fail2ban") \/ (k = "file" /\ x = "jail"))
    \/ s.do \in {"deny", "permit", "allow", "activate"} /\ k = "package" /\ x = "ufw"
    \/ s.do = "activate" /\ k = "rule" /\ x = port
    \/ s.do = "verify" /\ s.of = "restic" /\ k = "package" /\ x = "restic"
    \/ s.do = "verify" /\ s.of = "fail2ban" /\ k = "jailed"
    \/ s.do = "verify" /\ s.of = "ufw" /\ k \in {"active", "incoming", "outgoing"}
    \/ s.do = "verify" /\ s.of = "ufw" /\ k = "shown" /\ x \in {port, 80, 443}
    \/ s.do = "verify" /\ s.of \notin {"restic", "fail2ban", "ufw"} /\ k = "running" /\ x = s.of

Gives(s, k, x) ==
    \/ s.do = "install" /\ k = "package" /\ x = s.of
    \/ s.do = "install" /\ s.of \in Services /\ k = "running" /\ x = s.of
    \/ s.do \in {"enable", "restart"} /\ k = "running" /\ x = s.of
    \/ s.do = "file" /\ k = "file" /\ x = s.of
    \/ s.do = "refresh" /\ k = "index" /\ x \in Sourced /\ s.of = SourceOf(x)
    \/ s.do = "remove" /\ k = "clear"
    \/ s.do = "reload" /\ k = "jailed"
    \/ s.do = "deny" /\ k = "incoming"
    \/ s.do = "permit" /\ k = "outgoing"
    \/ s.do = "activate" /\ k = "active"
    \/ s.do = "allow" /\ k \in {"rule", "shown"} /\ x = s.of

GoalOf(c, k, x, port) ==
    \/ c = "directories" /\ k = "file" /\ x \in {"directories", "config"}
    \/ c \in {"docker", "caddy", "fail2ban"} /\ k \in {"package", "running"} /\ x = c
    \/ c = "docker" /\ k = "file" /\ x \in {"docker-key", "docker-source", "rotation"}
    \/ c = "docker" /\ k = "clear"
    \/ c \in {"restic", "upgrades", "ufw"} /\ k = "package" /\ x = c
    \/ c = "upgrades" /\ k = "file" /\ x \in PolicyFiles
    \/ c = "upgrades" /\ k = "running" /\ x \in Timers
    \/ c = "ufw" /\ k \in {"active", "incoming"}
    \/ c = "ufw" /\ k = "shown" /\ x \in {port, 80, 443}
    \/ c = "fail2ban" /\ k = "jailed"

\* What every host satisfies.
GoodHost(h) ==
    /\ WholeHost(h) /\ h.firewall.rules \subseteq Ports
    /\ "docker" \in h.packages => "conflict" \notin h.packages

\* A firewall is active when it was or is activated.
LEMMA Activated ==
    ASSUME NEW f, NEW s
    PROVE  /\ f.active => FirewallAfter(f, s).active
           /\ s.do = "activate" => FirewallAfter(f, s).active
           /\ FirewallAfter(f, s).active => f.active \/ s.do = "activate"
<1>1. FirewallAfter(f, s).active = (f.active \/ s.do = "activate")
  BY DEF FirewallAfter
<1> QED BY <1>1

\* What is assumed of ports.
LEMMA PortFacts ==
    /\ Ssh \in Ports /\ 80 \in Ports /\ 443 \in Ports
    /\ \A p \in Ports : p \in Nat /\ p >= 1 /\ p <= 65535
  BY PortsAssumption

\* A port is shown when it is allowed.
LEMMA EndsWithItself == \A p \in Ports : EndsWith(p, p)
<1> SUFFICES ASSUME NEW p \in Ports PROVE EndsWith(p, p)
  OBVIOUS
<1>1. p \in Nat /\ p >= 1 /\ p <= 65535
  BY PortFacts
<1>2. \A t \in Nat : p < t => p % t = p
  BY <1>1
<1>3. CASE p < 10
  BY <1>1, <1>2, <1>3 DEF EndsWith
<1>4. CASE p >= 10 /\ p < 100
  BY <1>1, <1>2, <1>4 DEF EndsWith
<1>5. CASE p >= 100 /\ p < 1000
  BY <1>1, <1>2, <1>5 DEF EndsWith
<1>6. CASE p >= 1000 /\ p < 10000
  BY <1>1, <1>2, <1>6 DEF EndsWith
<1>7. CASE p >= 10000
  BY <1>1, <1>2, <1>7 DEF EndsWith
<1> QED BY <1>1, <1>3, <1>4, <1>5, <1>6, <1>7

\* What is asked of the steps of a list.
LEMMA StepTyped ==
    ASSUME NEW s \in AllSteps
    PROVE  /\ s.do \in Deeds /\ (s.do = "install" => s.of # "conflict")
           /\ (s.do = "allow" => s.of \in Ports)
  BY DEF AllSteps

\* A step keeps what holds.
LEMMA HoldsOn ==
    ASSUME NEW h, WholeHost(h), NEW s \in AllSteps,
           s.do = "remove" => "conflict" \in h.packages,
           NEW k, NEW x, Has(h, k, x)
    PROVE  Has(Effect(h, s), k, x)
<1> DEFINE g == Effect(h, s)
<1>0. /\ s.do \in Deeds /\ (s.do = "install" => s.of # "conflict")
      /\ (s.do = "allow" => s.of \in Ports)
  BY StepTyped
<1>1. EffectOf(h, s, g)
  BY <1>0, Effects
<1>2. /\ h.files \subseteq g.files
      /\ h.packages \ {"conflict"} \subseteq g.packages
      /\ h.running \ {"docker"} \subseteq g.running
      /\ "conflict" \notin h.packages => "conflict" \notin g.packages
      /\ s.do # "remove" => h.running \subseteq g.running /\ h.packages \subseteq g.packages
  BY <1>0, <1>1 DEF EffectOf
<1>3. /\ h.firewall.active => g.firewall.active
      /\ h.firewall.incoming = "deny" => g.firewall.incoming = "deny"
      /\ h.firewall.outgoing = "allow" => g.firewall.outgoing = "allow"
      /\ h.firewall.rules \subseteq g.firewall.rules
  <2>1. g.firewall = FirewallAfter(h.firewall, s)
    BY <1>1 DEF EffectOf
  <2>2. h.firewall.active => g.firewall.active
    BY <2>1, Activated
  <2>3. /\ h.firewall.incoming = "deny" => g.firewall.incoming = "deny"
        /\ h.firewall.outgoing = "allow" => g.firewall.outgoing = "allow"
    BY <2>1 DEF FirewallAfter
  <2>4. h.firewall.rules \subseteq g.firewall.rules
    BY <2>1 DEF FirewallAfter
  <2> QED BY <2>2, <2>3, <2>4
<1>4. CASE k = "package"
  <2>1. x \in h.packages /\ x # "conflict"
    BY <1>4 DEF Has
  <2>2. x \in g.packages
    BY <1>2, <2>1
  <2> QED BY <1>4, <2>1, <2>2 DEF Has
<1>5. CASE k = "file"
  BY <1>2, <1>5 DEF Has
<1>6. CASE k = "index"
  <2>1. x \in h.index /\ x \in Sourced /\ SourceOf(x) \in h.files
    BY <1>6 DEF Has
  <2>2. x \in g.index
    BY <1>1, <2>1 DEF EffectOf, Sources, Sourced
  <2> QED BY <1>2, <1>6, <2>1, <2>2 DEF Has
<1>7. CASE k = "running"
  <2>1. x \in h.running /\ (x = "docker" => "conflict" \notin h.packages)
    BY <1>7 DEF Has
  <2>2. x \in g.running
    BY <1>2, <2>1
  <2> QED BY <1>2, <1>7, <2>1, <2>2 DEF Has
<1>8. CASE k = "jailed"
  <2>1. h.jailed /\ "jail" \in h.files
    BY <1>8 DEF Has
  <2>2. g.jailed = h.jailed \/ g.jailed = ("jail" \in h.files)
    BY <1>1 DEF EffectOf
  <2>3. g.jailed
    BY <2>1, <2>2
  <2> QED BY <1>2, <1>8, <2>1, <2>3 DEF Has
<1>9. CASE k = "clear"
  BY <1>2, <1>9 DEF Has
<1>10. CASE k \in {"active", "incoming", "outgoing", "rule"}
  BY <1>3, <1>10 DEF Has
<1>11. CASE k = "shown"
  BY <1>3, <1>11 DEF Has, Shown
<1> QED BY <1>4, <1>5, <1>6, <1>7, <1>8, <1>9, <1>10, <1>11 DEF Has

\* A step that has what it needs gives what it says.
LEMMA GivesIt ==
    ASSUME NEW h, WholeHost(h), NEW s \in AllSteps, NEW port, NEW k, NEW x, Gives(s, k, x),
           Lasting(k, x) \/ \A k1, x1 : Needs(s, k1, x1, port) => Has(h, k1, x1)
    PROVE  Has(Effect(h, s), k, x)
<1> DEFINE g == Effect(h, s)
<1>0. /\ s.do \in Deeds /\ (s.do = "install" => s.of # "conflict")
      /\ (s.do = "allow" => s.of \in Ports)
  BY StepTyped
<1>1. EffectOf(h, s, g)
  BY <1>0, Effects
<1>2. CASE s.do = "install" /\ k = "package" /\ x = s.of
  BY <1>0, <1>1, <1>2 DEF EffectOf, Has
<1>3. CASE s.do = "install" /\ s.of \in Services /\ k = "running" /\ x = s.of
  <2>1. x \in g.running /\ g.packages = h.packages \cup {s.of}
    BY <1>1, <1>3 DEF EffectOf
  <2>2. ASSUME x = "docker" PROVE "conflict" \notin g.packages
    <3>1. Needs(s, "clear", x, port)
      BY <1>3, <2>2 DEF Needs
    <3>2. Has(h, "clear", x)
      BY <1>3, <3>1 DEF Lasting
    <3> QED BY <2>1, <2>2, <1>3, <3>2 DEF Has
  <2> QED BY <1>3, <2>1, <2>2 DEF Has
<1>4. CASE s.do \in {"enable", "restart"} /\ k = "running" /\ x = s.of
  <2>1. x \in g.running /\ g.packages = h.packages
    BY <1>1, <1>4 DEF EffectOf
  <2>2. ASSUME x = "docker" PROVE "conflict" \notin g.packages
    <3>1. Needs(s, "clear", x, port)
      BY <1>4, <2>2 DEF Needs
    <3>2. Has(h, "clear", x)
      BY <1>4, <3>1 DEF Lasting
    <3> QED BY <2>1, <3>2 DEF Has
  <2> QED BY <1>4, <2>1, <2>2 DEF Has
<1>5. CASE s.do = "file" /\ k = "file" /\ x = s.of
  BY <1>1, <1>5 DEF EffectOf, Has
<1>6. CASE s.do = "refresh" /\ k = "index" /\ x \in Sourced /\ s.of = SourceOf(x)
  <2>1. Has(h, "file", s.of)
    <3>1. Needs(s, "file", s.of, port)
      BY <1>6 DEF Needs
    <3> QED BY <1>6, <3>1 DEF Lasting
  <2>2. SourceOf(x) \in h.files
    BY <1>6, <2>1 DEF Has
  <2> QED BY <1>1, <1>6, <2>2 DEF EffectOf, Has, Sources, Sourced
<1>7. CASE s.do = "remove" /\ k = "clear"
  BY <1>1, <1>7 DEF EffectOf, Has
<1>8. CASE s.do = "reload" /\ k = "jailed"
  <2>1. Has(h, "file", "jail")
    <3>1. Needs(s, "file", "jail", port)
      BY <1>8 DEF Needs
    <3> QED BY <1>8, <3>1 DEF Lasting
  <2>2. "jail" \in h.files
    BY <2>1 DEF Has
  <2>3. g.jailed /\ g.files = h.files
    BY <1>1, <1>8, <2>2 DEF EffectOf
  <2> QED BY <1>8, <2>2, <2>3 DEF Has
<1>9. CASE (s.do = "deny" /\ k = "incoming") \/ (s.do = "permit" /\ k = "outgoing")
           \/ (s.do = "activate" /\ k = "active")
  <2>1. g.firewall = FirewallAfter(h.firewall, s)
    BY <1>1 DEF EffectOf
  <2>2. /\ s.do = "deny" => g.firewall.incoming = "deny"
        /\ s.do = "permit" => g.firewall.outgoing = "allow"
    BY <2>1 DEF FirewallAfter
  <2>3. s.do = "activate" => g.firewall.active
    BY <2>1, Activated
  <2> QED BY <1>9, <2>2, <2>3 DEF Has
<1>10. CASE s.do = "allow" /\ k \in {"rule", "shown"} /\ x = s.of
  <2>1. s.of \in g.firewall.rules /\ s.of \in Ports
    BY <1>0, <1>1, <1>10 DEF EffectOf, FirewallAfter
  <2>2. Shown(g, s.of)
    BY <2>1, EndsWithItself DEF Shown
  <2> QED BY <1>10, <2>1, <2>2 DEF Has
<1> QED BY <1>2, <1>3, <1>4, <1>5, <1>6, <1>7, <1>8, <1>9, <1>10 DEF Gives

\* A step that has what it needs succeeds.
LEMMA NeedsSuffice ==
    ASSUME NEW h, ~SourceWithoutKey(h), NEW s \in AllSteps, NEW port \in Ports,
           \A k, x : Needs(s, k, x, port) => Has(h, k, x)
    PROVE  Works(h, s, port)
<1>0. s.do \in Deeds
  BY StepTyped
<1>1. CASE s.do = "refresh"
  BY <1>1 DEF Works, SourceWithoutKey
<1>2. CASE s.do = "install"
  <2>1. s.of \in Sourced => Needs(s, "index", s.of, port)
    BY <1>2 DEF Needs
  <2>2. s.of \in Sourced => s.of \in h.index
    BY <2>1 DEF Has
  <2> QED BY <1>2, <2>2 DEF Works, Sourced
<1>3. CASE s.do = "file"
  <2>1. s.of = "caddy-key" => Needs(s, "package", "gnupg", port)
    BY <1>3 DEF Needs
  <2>2. s.of = "caddy-key" => "gnupg" \in h.packages
    BY <2>1 DEF Has
  <2> QED BY <1>3, <2>2 DEF Works
<1>4. CASE s.do \in {"enable", "restart"}
  <2>1. s.of \notin Timers => Needs(s, "package", s.of, port)
    BY <1>4 DEF Needs
  <2>2. s.of \notin Timers => s.of \in h.packages
    BY <2>1 DEF Has
  <2> QED BY <1>4, <2>2 DEF Works, PackageOf
<1>5. CASE s.do = "reload"
  <2>1. Needs(s, "running", "fail2ban", port)
    BY <1>5 DEF Needs
  <2>2. "fail2ban" \in h.running
    BY <2>1 DEF Has
  <2> QED BY <1>5, <2>2 DEF Works
<1>6. CASE s.do \in {"deny", "permit", "allow", "activate"}
  <2>1. Needs(s, "package", "ufw", port)
    BY <1>6 DEF Needs
  <2>2. "ufw" \in h.packages
    BY <2>1 DEF Has
  <2> QED BY <1>6, <2>2 DEF Works
<1>7. CASE s.do = "verify" /\ s.of = "restic"
  <2>1. Needs(s, "package", "restic", port)
    BY <1>7 DEF Needs
  <2>2. "restic" \in h.packages
    BY <2>1 DEF Has
  <2> QED BY <1>7, <2>2 DEF Works
<1>8. CASE s.do = "verify" /\ s.of = "fail2ban"
  <2>1. Needs(s, "jailed", s.of, port)
    BY <1>8 DEF Needs
  <2>2. h.jailed
    BY <2>1 DEF Has
  <2> QED BY <1>8, <2>2 DEF Works
<1>9. CASE s.do = "verify" /\ s.of = "ufw"
  <2>1. /\ Needs(s, "active", s.of, port) /\ Needs(s, "incoming", s.of, port)
        /\ Needs(s, "outgoing", s.of, port)
        /\ \A p \in {port, 80, 443} : Needs(s, "shown", p, port)
    BY <1>9 DEF Needs
  <2>2. /\ h.firewall.active /\ h.firewall.incoming = "deny" /\ h.firewall.outgoing = "allow"
        /\ \A p \in {port, 80, 443} : Shown(h, p)
    BY <2>1 DEF Has
  <2> QED BY <1>9, <2>2 DEF Works, UfwConfigured
<1>10. CASE s.do = "verify" /\ s.of \notin {"restic", "fail2ban", "ufw"}
  <2>1. Needs(s, "running", s.of, port)
    BY <1>10 DEF Needs
  <2>2. s.of \in h.running
    BY <2>1 DEF Has
  <2> QED BY <1>10, <2>2 DEF Works
<1>11. CASE s.do \in {"remove", "upgrade"}
  BY <1>11 DEF Works
<1> QED BY <1>0, <1>1, <1>2, <1>3, <1>4, <1>5, <1>6, <1>7, <1>8, <1>9, <1>10, <1>11 DEF Deeds

-----------------------------------------------------------------------------
(* Lists of steps in which every step has what it needs.                     *)

Yields(q, k, x) == \E j \in 1..Len(q) : Gives(q[j], k, x)
From(h, p, k, x) == Has(h, k, x) \/ Yields(p, k, x)

\* Each step of q has what it needs when it comes after those of p on host h.
Fits(h, p, q, port) ==
    \A i \in 1..Len(q) : \A k, x :
        Needs(q[i], k, x, port) =>
            From(h, p, k, x) \/ \E j \in 1..(i - 1) : Gives(q[j], k, x)

NoRemove(q) == \A i \in 1..Len(q) : q[i].do # "remove"
RemovesOnce(h, q) ==
    \A i \in 1..Len(q) :
        q[i].do = "remove" =>
            "conflict" \in h.packages /\ \A j \in 1..Len(q) : q[j].do = "remove" => j = i

\* When a step may be in a list.
LEMMA StepIn ==
    ASSUME NEW d \in Deeds, NEW x \in Names \cup Ports,
           d = "install" => x # "conflict", d = "allow" => x \in Ports
    PROVE  Step(d, x) \in AllSteps
  BY DEF Step, AllSteps

\* The steps of two lists, one after the other.
LEMMA Joined ==
    ASSUME NEW p \in Seq(AllSteps), NEW r \in Seq(AllSteps)
    PROVE  /\ p \o r \in Seq(AllSteps)
           /\ Len(p) \in Nat /\ Len(r) \in Nat /\ Len(p \o r) = Len(p) + Len(r)
           /\ \A i \in 1..Len(p) : (p \o r)[i] = p[i]
           /\ \A m \in 1..Len(r) : (p \o r)[Len(p) + m] = r[m]
           /\ \A i \in 1..Len(p \o r) :
                 i \in 1..Len(p) \/ \E m \in 1..Len(r) : i = Len(p) + m
<1>1. Len(p) \in Nat /\ Len(r) \in Nat
  BY LenProperties
<1>2. /\ p \o r \in Seq(AllSteps) /\ Len(p \o r) = Len(p) + Len(r)
      /\ \A i \in 1..Len(p) + Len(r) :
            (p \o r)[i] = IF i <= Len(p) THEN p[i] ELSE r[i - Len(p)]
  BY ConcatProperties
<1>3. ASSUME NEW i \in 1..Len(p) PROVE (p \o r)[i] = p[i]
  BY <1>1, <1>2
<1>4. ASSUME NEW m \in 1..Len(r) PROVE (p \o r)[Len(p) + m] = r[m]
  <2>1. Len(p) + m \in 1..Len(p) + Len(r) /\ ~(Len(p) + m <= Len(p)) /\ (Len(p) + m) - Len(p) = m
    BY <1>1
  <2> QED BY <1>2, <2>1
<1>5. ASSUME NEW i \in 1..Len(p \o r), i \notin 1..Len(p)
      PROVE  \E m \in 1..Len(r) : i = Len(p) + m
  <2>1. i - Len(p) \in 1..Len(r) /\ i = Len(p) + (i - Len(p))
    BY <1>1, <1>2, <1>5
  <2> QED BY <2>1
<1> QED BY <1>1, <1>2, <1>3, <1>4, <1>5

\* Two lists yield what one of them yields.
LEMMA YieldsJoined ==
    ASSUME NEW p \in Seq(AllSteps), NEW r \in Seq(AllSteps), NEW k, NEW x,
           Yields(p, k, x) \/ Yields(r, k, x)
    PROVE  Yields(p \o r, k, x)
<1>1. CASE Yields(p, k, x)
  <2>1. PICK j \in 1..Len(p) : Gives(p[j], k, x)
    BY <1>1 DEF Yields
  <2>2. j \in 1..Len(p \o r) /\ (p \o r)[j] = p[j]
    BY Joined
  <2> QED BY <2>1, <2>2 DEF Yields
<1>2. CASE Yields(r, k, x)
  <2>1. PICK j \in 1..Len(r) : Gives(r[j], k, x)
    BY <1>2 DEF Yields
  <2>2. Len(p) + j \in 1..Len(p \o r) /\ (p \o r)[Len(p) + j] = r[j]
    BY Joined
  <2> QED BY <2>1, <2>2 DEF Yields
<1> QED BY <1>1, <1>2

\* A list that fits, followed by one that fits after it.
LEMMA FitsJoined ==
    ASSUME NEW h, NEW port, NEW p \in Seq(AllSteps), NEW r \in Seq(AllSteps),
           Fits(h, <<>>, p, port), Fits(h, p, r, port)
    PROVE  Fits(h, <<>>, p \o r, port)
<1> SUFFICES ASSUME NEW i \in 1..Len(p \o r), NEW k, NEW x, Needs((p \o r)[i], k, x, port)
             PROVE  From(h, <<>>, k, x) \/ \E j \in 1..(i - 1) : Gives((p \o r)[j], k, x)
  BY DEF Fits
<1>0. Len(p) \in Nat /\ Len(r) \in Nat
  BY Joined
<1>1. CASE i \in 1..Len(p)
  <2>1. Needs(p[i], k, x, port)
    BY <1>1, Joined
  <2>2. CASE From(h, <<>>, k, x)
    BY <2>2
  <2>3. CASE \E j \in 1..(i - 1) : Gives(p[j], k, x)
    <3>1. PICK j \in 1..(i - 1) : Gives(p[j], k, x)
      BY <2>3
    <3>2. (p \o r)[j] = p[j]
      BY <1>0, <1>1, <3>1, Joined
    <3> QED BY <3>1, <3>2
  <2> QED BY <1>1, <2>1, <2>2, <2>3 DEF Fits
<1>2. CASE i \notin 1..Len(p)
  <2>1. PICK m \in 1..Len(r) : i = Len(p) + m
    BY <1>2, Joined
  <2>2. Needs(r[m], k, x, port)
    BY <2>1, Joined
  <2>3. CASE Has(h, k, x)
    BY <2>3 DEF From
  <2>4. CASE Yields(p, k, x)
    <3>1. PICK j \in 1..Len(p) : Gives(p[j], k, x)
      BY <2>4 DEF Yields
    <3>2. (p \o r)[j] = p[j] /\ j \in 1..(i - 1)
      BY <1>0, <2>1, <3>1, Joined
    <3> QED BY <3>1, <3>2
  <2>5. CASE \E j \in 1..(m - 1) : Gives(r[j], k, x)
    <3>1. PICK j \in 1..(m - 1) : Gives(r[j], k, x)
      BY <2>5
    <3>2. j \in 1..Len(r) /\ Len(p) + j \in 1..(i - 1)
      BY <1>0, <2>1, <3>1
    <3>3. (p \o r)[Len(p) + j] = r[j]
      BY <3>2, Joined
    <3> QED BY <3>1, <3>2, <3>3
  <2> QED BY <2>1, <2>2, <2>3, <2>4, <2>5 DEF Fits, From
<1> QED BY <1>1, <1>2

\* Two lists without a removal.
LEMMA NoRemoveJoined ==
    ASSUME NEW p \in Seq(AllSteps), NEW r \in Seq(AllSteps), NoRemove(p), NoRemove(r)
    PROVE  NoRemove(p \o r)
<1> SUFFICES ASSUME NEW i \in 1..Len(p \o r) PROVE (p \o r)[i].do # "remove"
  BY DEF NoRemove
<1>1. CASE i \in 1..Len(p)
  BY <1>1, Joined DEF NoRemove
<1>2. CASE i \notin 1..Len(p)
  <2>1. PICK m \in 1..Len(r) : i = Len(p) + m
    BY <1>2, Joined
  <2> QED BY <2>1, Joined DEF NoRemove
<1> QED BY <1>1, <1>2

\* A list without a removal removes at most once.
LEMMA RemovesNever ==
    ASSUME NEW h, NEW q, NoRemove(q)
    PROVE  RemovesOnce(h, q)
  BY DEF NoRemove, RemovesOnce

\* One step removes the conflicting packages and is the only one.
LEMMA RemovesJoined ==
    ASSUME NEW h, NEW p \in Seq(AllSteps), NEW r \in Seq(AllSteps),
           RemovesOnce(h, p), RemovesOnce(h, r), NoRemove(p) \/ NoRemove(r)
    PROVE  RemovesOnce(h, p \o r)
<1> SUFFICES ASSUME NEW i \in 1..Len(p \o r), (p \o r)[i].do = "remove"
             PROVE  /\ "conflict" \in h.packages
                    /\ \A j \in 1..Len(p \o r) : (p \o r)[j].do = "remove" => j = i
  BY DEF RemovesOnce
<1>1. CASE NoRemove(p)
  <2>1. ASSUME NEW j \in 1..Len(p \o r), (p \o r)[j].do = "remove"
        PROVE  \E m \in 1..Len(r) : j = Len(p) + m /\ r[m].do = "remove"
    <3>1. j \notin 1..Len(p)
      BY <1>1, <2>1, Joined DEF NoRemove
    <3>2. PICK m \in 1..Len(r) : j = Len(p) + m
      BY <3>1, Joined
    <3>3. r[m].do = "remove"
      BY <2>1, <3>2, Joined
    <3> QED BY <3>2, <3>3
  <2>2. PICK m \in 1..Len(r) : i = Len(p) + m /\ r[m].do = "remove"
    BY <2>1
  <2>3. ASSUME NEW j \in 1..Len(p \o r), (p \o r)[j].do = "remove" PROVE j = i
    <3>1. PICK n \in 1..Len(r) : j = Len(p) + n /\ r[n].do = "remove"
      BY <2>1, <2>3
    <3> QED BY <2>2, <3>1 DEF RemovesOnce
  <2> QED BY <2>2, <2>3 DEF RemovesOnce
<1>2. CASE NoRemove(r)
  <2>1. ASSUME NEW j \in 1..Len(p \o r), (p \o r)[j].do = "remove"
        PROVE  j \in 1..Len(p) /\ p[j].do = "remove"
    <3>1. CASE j \in 1..Len(p)
      BY <2>1, <3>1, Joined
    <3>2. CASE j \notin 1..Len(p)
      <4>1. PICK m \in 1..Len(r) : j = Len(p) + m
        BY <3>2, Joined
      <4> QED BY <1>2, <2>1, <4>1, Joined DEF NoRemove
    <3> QED BY <3>1, <3>2
  <2> QED BY <2>1 DEF RemovesOnce
<1> QED BY <1>1, <1>2

-----------------------------------------------------------------------------
(* The lists of the installers.                                              *)

DockerFirst == <<Step("refresh", "apt"), Step("install", "curl")>>
DockerRemoval == <<Step("remove", "conflict")>>
DockerLast == <<Step("install", "docker"), Step("file", "rotation"), Step("enable", "docker"),
                Step("verify", "docker")>>
CaddyFirst == <<Step("refresh", "apt"), Step("install", "gnupg")>>
CaddyLast == <<Step("install", "caddy"), Step("enable", "caddy"), Step("verify", "caddy")>>
PackageFirst(c) == <<Step("refresh", "apt"), Step("install", c)>>
UpgradesLast == <<Step("file", "periodic"), Step("file", "policy"), Step("enable", "apt-daily"),
                  Step("enable", "apt-daily-upgrade"), Step("verify", "apt-daily"),
                  Step("verify", "apt-daily-upgrade")>>
Fail2banLast == <<Step("file", "jail"), Step("enable", "fail2ban"), Step("reload", "fail2ban"),
                  Step("verify", "fail2ban")>>

\* The steps of the directories.
LEMMA DirectoryList ==
    /\ DirectorySteps \in Seq(AllSteps) /\ Len(DirectorySteps) = 2
    /\ DirectorySteps[1] = Step("file", "directories")
    /\ DirectorySteps[2] = Step("file", "config")
<1>1. Step("file", "directories") \in AllSteps
  BY StepIn DEF Deeds, Names
<1>2. Step("file", "config") \in AllSteps
  BY StepIn DEF Deeds, Names
<1> QED BY <1>1, <1>2 DEF DirectorySteps

\* Each step of the directories has what it needs; what they give.
LEMMA DirectoryFits ==
    ASSUME NEW h, NEW p, NEW port \in Ports
    PROVE  /\ Fits(h, p, DirectorySteps, port) /\ NoRemove(DirectorySteps)
           /\ Yields(DirectorySteps, "file", "directories")
           /\ Yields(DirectorySteps, "file", "config")
<1> DEFINE q == DirectorySteps
<1>1. /\ Len(q) = 2
      /\ q[1].do = "file" /\ q[1].of = "directories"
      /\ q[2].do = "file" /\ q[2].of = "config"
  BY DirectoryList, StepFields
<1> HIDE DEF q
<1>2. Gives(q[1], "file", "directories")
  BY <1>1 DEF Gives, Services, Sourced, SourceOf
<1>3. Gives(q[2], "file", "config")
  BY <1>1 DEF Gives, Services, Sourced, SourceOf
<1>4. ASSUME NEW k, NEW x, Needs(q[1], k, x, port)
      PROVE  From(h, p, k, x) \/ \E j \in 1..(1 - 1) : Gives(q[j], k, x)
  BY <1>1, <1>4 DEF Needs, Timers, Sourced, SourceOf, KeyOf
<1>5. ASSUME NEW k, NEW x, Needs(q[2], k, x, port)
      PROVE  From(h, p, k, x) \/ \E j \in 1..(2 - 1) : Gives(q[j], k, x)
  BY <1>1, <1>5 DEF Needs, Timers, Sourced, SourceOf, KeyOf
<1>6. Fits(h, p, q, port)
  <2> SUFFICES ASSUME NEW i \in 1..Len(q), NEW k, NEW x, Needs(q[i], k, x, port)
               PROVE  From(h, p, k, x) \/ \E j \in 1..(i - 1) : Gives(q[j], k, x)
    BY DEF Fits
  <2>1. i = 1 \/ i = 2
    BY <1>1
  <2> QED BY <2>1, <1>4, <1>5
<1>7. NoRemove(q)
  <2> SUFFICES ASSUME NEW i \in 1..Len(q) PROVE q[i].do # "remove"
    BY DEF NoRemove
  <2>1. i = 1 \/ i = 2
    BY <1>1
  <2> QED BY <1>1, <2>1
<1>8. Yields(q, "file", "directories")
  <2>1. 1 \in 1..Len(q)
    BY <1>1
  <2> QED BY <1>2, <2>1 DEF Yields
<1>9. Yields(q, "file", "config")
  <2>1. 2 \in 1..Len(q)
    BY <1>1
  <2> QED BY <1>3, <2>1 DEF Yields
<1> QED BY <1>6, <1>7, <1>8, <1>9 DEF q

\* The steps of a healthy Docker without rotation.
LEMMA RepairList ==
    /\ RotationSteps \in Seq(AllSteps) /\ Len(RotationSteps) = 3
    /\ RotationSteps[1] = Step("file", "rotation")
    /\ RotationSteps[2] = Step("restart", "docker")
    /\ RotationSteps[3] = Step("verify", "docker")
<1>1. Step("file", "rotation") \in AllSteps
  BY StepIn DEF Deeds, Names
<1>2. Step("restart", "docker") \in AllSteps
  BY StepIn DEF Deeds, Names
<1>3. Step("verify", "docker") \in AllSteps
  BY StepIn DEF Deeds, Names
<1> QED BY <1>1, <1>2, <1>3 DEF RotationSteps

\* Each step of a healthy Docker without rotation has what it needs; what they give.
LEMMA RepairFits ==
    ASSUME NEW h, NEW p, NEW port \in Ports,
           From(h, p, "package", "docker"),
           \A x : From(h, p, "clear", x)
    PROVE  /\ Fits(h, p, RotationSteps, port) /\ NoRemove(RotationSteps)
           /\ Yields(RotationSteps, "file", "rotation")
           /\ Yields(RotationSteps, "running", "docker")
<1> DEFINE q == RotationSteps
<1>1. /\ Len(q) = 3
      /\ q[1].do = "file" /\ q[1].of = "rotation"
      /\ q[2].do = "restart" /\ q[2].of = "docker"
      /\ q[3].do = "verify" /\ q[3].of = "docker"
  BY RepairList, StepFields
<1> HIDE DEF q
<1>2. Gives(q[1], "file", "rotation")
  BY <1>1 DEF Gives, Services, Sourced, SourceOf
<1>3. Gives(q[2], "running", "docker")
  BY <1>1 DEF Gives, Services, Sourced, SourceOf
<1>4. ASSUME NEW k, NEW x, Needs(q[1], k, x, port)
      PROVE  From(h, p, k, x) \/ \E j \in 1..(1 - 1) : Gives(q[j], k, x)
  BY <1>1, <1>4 DEF Needs, Timers, Sourced, SourceOf, KeyOf
<1>5. ASSUME NEW k, NEW x, Needs(q[2], k, x, port)
      PROVE  From(h, p, k, x) \/ \E j \in 1..(2 - 1) : Gives(q[j], k, x)
  <2>1. \/ k = "package" /\ x = "docker"
        \/ k = "clear"
    BY <1>1, <1>5 DEF Needs, Timers, Sourced, SourceOf, KeyOf
  <2> QED BY <2>1
<1>6. ASSUME NEW k, NEW x, Needs(q[3], k, x, port)
      PROVE  From(h, p, k, x) \/ \E j \in 1..(3 - 1) : Gives(q[j], k, x)
  <2>1. k = "running" /\ x = "docker"
    BY <1>1, <1>6 DEF Needs, Timers, Sourced, SourceOf, KeyOf
  <2>2. 2 \in 1..(3 - 1)
    OBVIOUS
  <2> QED BY <2>1, <2>2, <1>3
<1>7. Fits(h, p, q, port)
  <2> SUFFICES ASSUME NEW i \in 1..Len(q), NEW k, NEW x, Needs(q[i], k, x, port)
               PROVE  From(h, p, k, x) \/ \E j \in 1..(i - 1) : Gives(q[j], k, x)
    BY DEF Fits
  <2>1. i = 1 \/ i = 2 \/ i = 3
    BY <1>1
  <2> QED BY <2>1, <1>4, <1>5, <1>6
<1>8. NoRemove(q)
  <2> SUFFICES ASSUME NEW i \in 1..Len(q) PROVE q[i].do # "remove"
    BY DEF NoRemove
  <2>1. i = 1 \/ i = 2 \/ i = 3
    BY <1>1
  <2> QED BY <1>1, <2>1
<1>9. Yields(q, "file", "rotation")
  <2>1. 1 \in 1..Len(q)
    BY <1>1
  <2> QED BY <1>2, <2>1 DEF Yields
<1>10. Yields(q, "running", "docker")
  <2>1. 2 \in 1..Len(q)
    BY <1>1
  <2> QED BY <1>3, <2>1 DEF Yields
<1> QED BY <1>7, <1>8, <1>9, <1>10 DEF q

\* The steps of Docker before its repository.
LEMMA FirstList ==
    /\ DockerFirst \in Seq(AllSteps) /\ Len(DockerFirst) = 2
    /\ DockerFirst[1] = Step("refresh", "apt")
    /\ DockerFirst[2] = Step("install", "curl")
<1>1. Step("refresh", "apt") \in AllSteps
  BY StepIn DEF Deeds, Names
<1>2. Step("install", "curl") \in AllSteps
  BY StepIn DEF Deeds, Names
<1> QED BY <1>1, <1>2 DEF DockerFirst

\* Each step of Docker before its repository has what it needs; what they give.
LEMMA FirstFits ==
    ASSUME NEW h, NEW p, NEW port \in Ports
    PROVE  /\ Fits(h, p, DockerFirst, port) /\ NoRemove(DockerFirst)
           /\ Yields(DockerFirst, "package", "curl")
<1> DEFINE q == DockerFirst
<1>1. /\ Len(q) = 2
      /\ q[1].do = "refresh" /\ q[1].of = "apt"
      /\ q[2].do = "install" /\ q[2].of = "curl"
  BY FirstList, StepFields
<1> HIDE DEF q
<1>2. Gives(q[2], "package", "curl")
  BY <1>1 DEF Gives, Services, Sourced, SourceOf
<1>3. ASSUME NEW k, NEW x, Needs(q[1], k, x, port)
      PROVE  From(h, p, k, x) \/ \E j \in 1..(1 - 1) : Gives(q[j], k, x)
  BY <1>1, <1>3 DEF Needs, Timers, Sourced, SourceOf, KeyOf
<1>4. ASSUME NEW k, NEW x, Needs(q[2], k, x, port)
      PROVE  From(h, p, k, x) \/ \E j \in 1..(2 - 1) : Gives(q[j], k, x)
  BY <1>1, <1>4 DEF Needs, Timers, Sourced, SourceOf, KeyOf
<1>5. Fits(h, p, q, port)
  <2> SUFFICES ASSUME NEW i \in 1..Len(q), NEW k, NEW x, Needs(q[i], k, x, port)
               PROVE  From(h, p, k, x) \/ \E j \in 1..(i - 1) : Gives(q[j], k, x)
    BY DEF Fits
  <2>1. i = 1 \/ i = 2
    BY <1>1
  <2> QED BY <2>1, <1>3, <1>4
<1>6. NoRemove(q)
  <2> SUFFICES ASSUME NEW i \in 1..Len(q) PROVE q[i].do # "remove"
    BY DEF NoRemove
  <2>1. i = 1 \/ i = 2
    BY <1>1
  <2> QED BY <1>1, <2>1
<1>7. Yields(q, "package", "curl")
  <2>1. 2 \in 1..Len(q)
    BY <1>1
  <2> QED BY <1>2, <2>1 DEF Yields
<1> QED BY <1>5, <1>6, <1>7 DEF q

\* The steps of Docker after its repository.
LEMMA LastList ==
    /\ DockerLast \in Seq(AllSteps) /\ Len(DockerLast) = 4
    /\ DockerLast[1] = Step("install", "docker")
    /\ DockerLast[2] = Step("file", "rotation")
    /\ DockerLast[3] = Step("enable", "docker")
    /\ DockerLast[4] = Step("verify", "docker")
<1>1. Step("install", "docker") \in AllSteps
  BY StepIn DEF Deeds, Names
<1>2. Step("file", "rotation") \in AllSteps
  BY StepIn DEF Deeds, Names
<1>3. Step("enable", "docker") \in AllSteps
  BY StepIn DEF Deeds, Names
<1>4. Step("verify", "docker") \in AllSteps
  BY StepIn DEF Deeds, Names
<1> QED BY <1>1, <1>2, <1>3, <1>4 DEF DockerLast

\* Each step of Docker after its repository has what it needs; what they give.
LEMMA LastFits ==
    ASSUME NEW h, NEW p, NEW port \in Ports,
           From(h, p, "index", "docker"),
           \A x : From(h, p, "clear", x)
    PROVE  /\ Fits(h, p, DockerLast, port) /\ NoRemove(DockerLast)
           /\ Yields(DockerLast, "package", "docker")
           /\ Yields(DockerLast, "running", "docker")
           /\ Yields(DockerLast, "file", "rotation")
<1> DEFINE q == DockerLast
<1>1. /\ Len(q) = 4
      /\ q[1].do = "install" /\ q[1].of = "docker"
      /\ q[2].do = "file" /\ q[2].of = "rotation"
      /\ q[3].do = "enable" /\ q[3].of = "docker"
      /\ q[4].do = "verify" /\ q[4].of = "docker"
  BY LastList, StepFields
<1> HIDE DEF q
<1>2. Gives(q[1], "package", "docker")
  BY <1>1 DEF Gives, Services, Sourced, SourceOf
<1>3. Gives(q[1], "running", "docker")
  BY <1>1 DEF Gives, Services, Sourced, SourceOf
<1>4. Gives(q[2], "file", "rotation")
  BY <1>1 DEF Gives, Services, Sourced, SourceOf
<1>5. ASSUME NEW k, NEW x, Needs(q[1], k, x, port)
      PROVE  From(h, p, k, x) \/ \E j \in 1..(1 - 1) : Gives(q[j], k, x)
  <2>1. \/ k = "index" /\ x = "docker"
        \/ k = "clear"
    BY <1>1, <1>5 DEF Needs, Timers, Sourced, SourceOf, KeyOf
  <2> QED BY <2>1
<1>6. ASSUME NEW k, NEW x, Needs(q[2], k, x, port)
      PROVE  From(h, p, k, x) \/ \E j \in 1..(2 - 1) : Gives(q[j], k, x)
  BY <1>1, <1>6 DEF Needs, Timers, Sourced, SourceOf, KeyOf
<1>7. ASSUME NEW k, NEW x, Needs(q[3], k, x, port)
      PROVE  From(h, p, k, x) \/ \E j \in 1..(3 - 1) : Gives(q[j], k, x)
  <2>1. \/ k = "package" /\ x = "docker"
        \/ k = "clear"
    BY <1>1, <1>7 DEF Needs, Timers, Sourced, SourceOf, KeyOf
  <2>2. 1 \in 1..(3 - 1)
    OBVIOUS
  <2> QED BY <2>1, <2>2, <1>2
<1>8. ASSUME NEW k, NEW x, Needs(q[4], k, x, port)
      PROVE  From(h, p, k, x) \/ \E j \in 1..(4 - 1) : Gives(q[j], k, x)
  <2>1. k = "running" /\ x = "docker"
    BY <1>1, <1>8 DEF Needs, Timers, Sourced, SourceOf, KeyOf
  <2>2. 1 \in 1..(4 - 1)
    OBVIOUS
  <2> QED BY <2>1, <2>2, <1>3
<1>9. Fits(h, p, q, port)
  <2> SUFFICES ASSUME NEW i \in 1..Len(q), NEW k, NEW x, Needs(q[i], k, x, port)
               PROVE  From(h, p, k, x) \/ \E j \in 1..(i - 1) : Gives(q[j], k, x)
    BY DEF Fits
  <2>1. i = 1 \/ i = 2 \/ i = 3 \/ i = 4
    BY <1>1
  <2> QED BY <2>1, <1>5, <1>6, <1>7, <1>8
<1>10. NoRemove(q)
  <2> SUFFICES ASSUME NEW i \in 1..Len(q) PROVE q[i].do # "remove"
    BY DEF NoRemove
  <2>1. i = 1 \/ i = 2 \/ i = 3 \/ i = 4
    BY <1>1
  <2> QED BY <1>1, <2>1
<1>11. Yields(q, "package", "docker")
  <2>1. 1 \in 1..Len(q)
    BY <1>1
  <2> QED BY <1>2, <2>1 DEF Yields
<1>12. Yields(q, "running", "docker")
  <2>1. 1 \in 1..Len(q)
    BY <1>1
  <2> QED BY <1>3, <2>1 DEF Yields
<1>13. Yields(q, "file", "rotation")
  <2>1. 2 \in 1..Len(q)
    BY <1>1
  <2> QED BY <1>4, <2>1 DEF Yields
<1> QED BY <1>9, <1>10, <1>11, <1>12, <1>13 DEF q

\* The steps of Docker's repository.
LEMMA DockerRepositoryList ==
    /\ RepositorySteps("docker") \in Seq(AllSteps) /\ Len(RepositorySteps("docker")) = 3
    /\ RepositorySteps("docker")[1] = Step("file", "docker-key")
    /\ RepositorySteps("docker")[2] = Step("file", "docker-source")
    /\ RepositorySteps("docker")[3] = Step("refresh", "docker-source")
<1>1. Step("file", "docker-key") \in AllSteps
  BY StepIn DEF Deeds, Names
<1>2. Step("file", "docker-source") \in AllSteps
  BY StepIn DEF Deeds, Names
<1>3. Step("refresh", "docker-source") \in AllSteps
  BY StepIn DEF Deeds, Names
<1> QED BY <1>1, <1>2, <1>3 DEF RepositorySteps, KeyOf, SourceOf

\* Each step of Docker's repository has what it needs; what they give.
LEMMA DockerRepositoryFits ==
    ASSUME NEW h, NEW p, NEW port \in Ports
    PROVE  /\ Fits(h, p, RepositorySteps("docker"), port) /\ NoRemove(RepositorySteps("docker"))
           /\ Yields(RepositorySteps("docker"), "file", "docker-key")
           /\ Yields(RepositorySteps("docker"), "file", "docker-source")
           /\ Yields(RepositorySteps("docker"), "index", "docker")
<1> DEFINE q == RepositorySteps("docker")
<1>1. /\ Len(q) = 3
      /\ q[1].do = "file" /\ q[1].of = "docker-key"
      /\ q[2].do = "file" /\ q[2].of = "docker-source"
      /\ q[3].do = "refresh" /\ q[3].of = "docker-source"
  BY DockerRepositoryList, StepFields
<1> HIDE DEF q
<1>2. Gives(q[1], "file", "docker-key")
  BY <1>1 DEF Gives, Services, Sourced, SourceOf
<1>3. Gives(q[2], "file", "docker-source")
  BY <1>1 DEF Gives, Services, Sourced, SourceOf
<1>4. Gives(q[3], "index", "docker")
  BY <1>1 DEF Gives, Services, Sourced, SourceOf
<1>5. ASSUME NEW k, NEW x, Needs(q[1], k, x, port)
      PROVE  From(h, p, k, x) \/ \E j \in 1..(1 - 1) : Gives(q[j], k, x)
  BY <1>1, <1>5 DEF Needs, Timers, Sourced, SourceOf, KeyOf
<1>6. ASSUME NEW k, NEW x, Needs(q[2], k, x, port)
      PROVE  From(h, p, k, x) \/ \E j \in 1..(2 - 1) : Gives(q[j], k, x)
  <2>1. k = "file" /\ x = "docker-key"
    BY <1>1, <1>6 DEF Needs, Timers, Sourced, SourceOf, KeyOf
  <2>2. 1 \in 1..(2 - 1)
    OBVIOUS
  <2> QED BY <2>1, <2>2, <1>2
<1>7. ASSUME NEW k, NEW x, Needs(q[3], k, x, port)
      PROVE  From(h, p, k, x) \/ \E j \in 1..(3 - 1) : Gives(q[j], k, x)
  <2>1. k = "file" /\ x = "docker-source"
    BY <1>1, <1>7 DEF Needs, Timers, Sourced, SourceOf, KeyOf
  <2>2. 2 \in 1..(3 - 1)
    OBVIOUS
  <2> QED BY <2>1, <2>2, <1>3
<1>8. Fits(h, p, q, port)
  <2> SUFFICES ASSUME NEW i \in 1..Len(q), NEW k, NEW x, Needs(q[i], k, x, port)
               PROVE  From(h, p, k, x) \/ \E j \in 1..(i - 1) : Gives(q[j], k, x)
    BY DEF Fits
  <2>1. i = 1 \/ i = 2 \/ i = 3
    BY <1>1
  <2> QED BY <2>1, <1>5, <1>6, <1>7
<1>9. NoRemove(q)
  <2> SUFFICES ASSUME NEW i \in 1..Len(q) PROVE q[i].do # "remove"
    BY DEF NoRemove
  <2>1. i = 1 \/ i = 2 \/ i = 3
    BY <1>1
  <2> QED BY <1>1, <2>1
<1>10. Yields(q, "file", "docker-key")
  <2>1. 1 \in 1..Len(q)
    BY <1>1
  <2> QED BY <1>2, <2>1 DEF Yields
<1>11. Yields(q, "file", "docker-source")
  <2>1. 2 \in 1..Len(q)
    BY <1>1
  <2> QED BY <1>3, <2>1 DEF Yields
<1>12. Yields(q, "index", "docker")
  <2>1. 3 \in 1..Len(q)
    BY <1>1
  <2> QED BY <1>4, <2>1 DEF Yields
<1> QED BY <1>8, <1>9, <1>10, <1>11, <1>12 DEF q

\* The steps of Caddy's repository.
LEMMA CaddyRepositoryList ==
    /\ RepositorySteps("caddy") \in Seq(AllSteps) /\ Len(RepositorySteps("caddy")) = 3
    /\ RepositorySteps("caddy")[1] = Step("file", "caddy-key")
    /\ RepositorySteps("caddy")[2] = Step("file", "caddy-source")
    /\ RepositorySteps("caddy")[3] = Step("refresh", "caddy-source")
<1>1. Step("file", "caddy-key") \in AllSteps
  BY StepIn DEF Deeds, Names
<1>2. Step("file", "caddy-source") \in AllSteps
  BY StepIn DEF Deeds, Names
<1>3. Step("refresh", "caddy-source") \in AllSteps
  BY StepIn DEF Deeds, Names
<1> QED BY <1>1, <1>2, <1>3 DEF RepositorySteps, KeyOf, SourceOf

\* Each step of Caddy's repository has what it needs; what they give.
LEMMA CaddyRepositoryFits ==
    ASSUME NEW h, NEW p, NEW port \in Ports,
           From(h, p, "package", "gnupg")
    PROVE  /\ Fits(h, p, RepositorySteps("caddy"), port) /\ NoRemove(RepositorySteps("caddy"))
           /\ Yields(RepositorySteps("caddy"), "file", "caddy-key")
           /\ Yields(RepositorySteps("caddy"), "file", "caddy-source")
           /\ Yields(RepositorySteps("caddy"), "index", "caddy")
<1> DEFINE q == RepositorySteps("caddy")
<1>1. /\ Len(q) = 3
      /\ q[1].do = "file" /\ q[1].of = "caddy-key"
      /\ q[2].do = "file" /\ q[2].of = "caddy-source"
      /\ q[3].do = "refresh" /\ q[3].of = "caddy-source"
  BY CaddyRepositoryList, StepFields
<1> HIDE DEF q
<1>2. Gives(q[1], "file", "caddy-key")
  BY <1>1 DEF Gives, Services, Sourced, SourceOf
<1>3. Gives(q[2], "file", "caddy-source")
  BY <1>1 DEF Gives, Services, Sourced, SourceOf
<1>4. Gives(q[3], "index", "caddy")
  BY <1>1 DEF Gives, Services, Sourced, SourceOf
<1>5. ASSUME NEW k, NEW x, Needs(q[1], k, x, port)
      PROVE  From(h, p, k, x) \/ \E j \in 1..(1 - 1) : Gives(q[j], k, x)
  <2>1. k = "package" /\ x = "gnupg"
    BY <1>1, <1>5 DEF Needs, Timers, Sourced, SourceOf, KeyOf
  <2> QED BY <2>1
<1>6. ASSUME NEW k, NEW x, Needs(q[2], k, x, port)
      PROVE  From(h, p, k, x) \/ \E j \in 1..(2 - 1) : Gives(q[j], k, x)
  <2>1. k = "file" /\ x = "caddy-key"
    BY <1>1, <1>6 DEF Needs, Timers, Sourced, SourceOf, KeyOf
  <2>2. 1 \in 1..(2 - 1)
    OBVIOUS
  <2> QED BY <2>1, <2>2, <1>2
<1>7. ASSUME NEW k, NEW x, Needs(q[3], k, x, port)
      PROVE  From(h, p, k, x) \/ \E j \in 1..(3 - 1) : Gives(q[j], k, x)
  <2>1. k = "file" /\ x = "caddy-source"
    BY <1>1, <1>7 DEF Needs, Timers, Sourced, SourceOf, KeyOf
  <2>2. 2 \in 1..(3 - 1)
    OBVIOUS
  <2> QED BY <2>1, <2>2, <1>3
<1>8. Fits(h, p, q, port)
  <2> SUFFICES ASSUME NEW i \in 1..Len(q), NEW k, NEW x, Needs(q[i], k, x, port)
               PROVE  From(h, p, k, x) \/ \E j \in 1..(i - 1) : Gives(q[j], k, x)
    BY DEF Fits
  <2>1. i = 1 \/ i = 2 \/ i = 3
    BY <1>1
  <2> QED BY <2>1, <1>5, <1>6, <1>7
<1>9. NoRemove(q)
  <2> SUFFICES ASSUME NEW i \in 1..Len(q) PROVE q[i].do # "remove"
    BY DEF NoRemove
  <2>1. i = 1 \/ i = 2 \/ i = 3
    BY <1>1
  <2> QED BY <1>1, <2>1
<1>10. Yields(q, "file", "caddy-key")
  <2>1. 1 \in 1..Len(q)
    BY <1>1
  <2> QED BY <1>2, <2>1 DEF Yields
<1>11. Yields(q, "file", "caddy-source")
  <2>1. 2 \in 1..Len(q)
    BY <1>1
  <2> QED BY <1>3, <2>1 DEF Yields
<1>12. Yields(q, "index", "caddy")
  <2>1. 3 \in 1..Len(q)
    BY <1>1
  <2> QED BY <1>4, <2>1 DEF Yields
<1> QED BY <1>8, <1>9, <1>10, <1>11, <1>12 DEF q

\* The steps of Caddy before its repository.
LEMMA CaddyBeginList ==
    /\ CaddyFirst \in Seq(AllSteps) /\ Len(CaddyFirst) = 2
    /\ CaddyFirst[1] = Step("refresh", "apt")
    /\ CaddyFirst[2] = Step("install", "gnupg")
<1>1. Step("refresh", "apt") \in AllSteps
  BY StepIn DEF Deeds, Names
<1>2. Step("install", "gnupg") \in AllSteps
  BY StepIn DEF Deeds, Names
<1> QED BY <1>1, <1>2 DEF CaddyFirst

\* Each step of Caddy before its repository has what it needs; what they give.
LEMMA CaddyBeginFits ==
    ASSUME NEW h, NEW p, NEW port \in Ports
    PROVE  /\ Fits(h, p, CaddyFirst, port) /\ NoRemove(CaddyFirst)
           /\ Yields(CaddyFirst, "package", "gnupg")
<1> DEFINE q == CaddyFirst
<1>1. /\ Len(q) = 2
      /\ q[1].do = "refresh" /\ q[1].of = "apt"
      /\ q[2].do = "install" /\ q[2].of = "gnupg"
  BY CaddyBeginList, StepFields
<1> HIDE DEF q
<1>2. Gives(q[2], "package", "gnupg")
  BY <1>1 DEF Gives, Services, Sourced, SourceOf
<1>3. ASSUME NEW k, NEW x, Needs(q[1], k, x, port)
      PROVE  From(h, p, k, x) \/ \E j \in 1..(1 - 1) : Gives(q[j], k, x)
  BY <1>1, <1>3 DEF Needs, Timers, Sourced, SourceOf, KeyOf
<1>4. ASSUME NEW k, NEW x, Needs(q[2], k, x, port)
      PROVE  From(h, p, k, x) \/ \E j \in 1..(2 - 1) : Gives(q[j], k, x)
  BY <1>1, <1>4 DEF Needs, Timers, Sourced, SourceOf, KeyOf
<1>5. Fits(h, p, q, port)
  <2> SUFFICES ASSUME NEW i \in 1..Len(q), NEW k, NEW x, Needs(q[i], k, x, port)
               PROVE  From(h, p, k, x) \/ \E j \in 1..(i - 1) : Gives(q[j], k, x)
    BY DEF Fits
  <2>1. i = 1 \/ i = 2
    BY <1>1
  <2> QED BY <2>1, <1>3, <1>4
<1>6. NoRemove(q)
  <2> SUFFICES ASSUME NEW i \in 1..Len(q) PROVE q[i].do # "remove"
    BY DEF NoRemove
  <2>1. i = 1 \/ i = 2
    BY <1>1
  <2> QED BY <1>1, <2>1
<1>7. Yields(q, "package", "gnupg")
  <2>1. 2 \in 1..Len(q)
    BY <1>1
  <2> QED BY <1>2, <2>1 DEF Yields
<1> QED BY <1>5, <1>6, <1>7 DEF q

\* The steps of Caddy after its repository.
LEMMA CaddyEndList ==
    /\ CaddyLast \in Seq(AllSteps) /\ Len(CaddyLast) = 3
    /\ CaddyLast[1] = Step("install", "caddy")
    /\ CaddyLast[2] = Step("enable", "caddy")
    /\ CaddyLast[3] = Step("verify", "caddy")
<1>1. Step("install", "caddy") \in AllSteps
  BY StepIn DEF Deeds, Names
<1>2. Step("enable", "caddy") \in AllSteps
  BY StepIn DEF Deeds, Names
<1>3. Step("verify", "caddy") \in AllSteps
  BY StepIn DEF Deeds, Names
<1> QED BY <1>1, <1>2, <1>3 DEF CaddyLast

\* Each step of Caddy after its repository has what it needs; what they give.
LEMMA CaddyEndFits ==
    ASSUME NEW h, NEW p, NEW port \in Ports,
           From(h, p, "index", "caddy")
    PROVE  /\ Fits(h, p, CaddyLast, port) /\ NoRemove(CaddyLast)
           /\ Yields(CaddyLast, "package", "caddy")
           /\ Yields(CaddyLast, "running", "caddy")
<1> DEFINE q == CaddyLast
<1>1. /\ Len(q) = 3
      /\ q[1].do = "install" /\ q[1].of = "caddy"
      /\ q[2].do = "enable" /\ q[2].of = "caddy"
      /\ q[3].do = "verify" /\ q[3].of = "caddy"
  BY CaddyEndList, StepFields
<1> HIDE DEF q
<1>2. Gives(q[1], "package", "caddy")
  BY <1>1 DEF Gives, Services, Sourced, SourceOf
<1>3. Gives(q[1], "running", "caddy")
  BY <1>1 DEF Gives, Services, Sourced, SourceOf
<1>4. ASSUME NEW k, NEW x, Needs(q[1], k, x, port)
      PROVE  From(h, p, k, x) \/ \E j \in 1..(1 - 1) : Gives(q[j], k, x)
  <2>1. k = "index" /\ x = "caddy"
    BY <1>1, <1>4 DEF Needs, Timers, Sourced, SourceOf, KeyOf
  <2> QED BY <2>1
<1>5. ASSUME NEW k, NEW x, Needs(q[2], k, x, port)
      PROVE  From(h, p, k, x) \/ \E j \in 1..(2 - 1) : Gives(q[j], k, x)
  <2>1. k = "package" /\ x = "caddy"
    BY <1>1, <1>5 DEF Needs, Timers, Sourced, SourceOf, KeyOf
  <2>2. 1 \in 1..(2 - 1)
    OBVIOUS
  <2> QED BY <2>1, <2>2, <1>2
<1>6. ASSUME NEW k, NEW x, Needs(q[3], k, x, port)
      PROVE  From(h, p, k, x) \/ \E j \in 1..(3 - 1) : Gives(q[j], k, x)
  <2>1. k = "running" /\ x = "caddy"
    BY <1>1, <1>6 DEF Needs, Timers, Sourced, SourceOf, KeyOf
  <2>2. 1 \in 1..(3 - 1)
    OBVIOUS
  <2> QED BY <2>1, <2>2, <1>3
<1>7. Fits(h, p, q, port)
  <2> SUFFICES ASSUME NEW i \in 1..Len(q), NEW k, NEW x, Needs(q[i], k, x, port)
               PROVE  From(h, p, k, x) \/ \E j \in 1..(i - 1) : Gives(q[j], k, x)
    BY DEF Fits
  <2>1. i = 1 \/ i = 2 \/ i = 3
    BY <1>1
  <2> QED BY <2>1, <1>4, <1>5, <1>6
<1>8. NoRemove(q)
  <2> SUFFICES ASSUME NEW i \in 1..Len(q) PROVE q[i].do # "remove"
    BY DEF NoRemove
  <2>1. i = 1 \/ i = 2 \/ i = 3
    BY <1>1
  <2> QED BY <1>1, <2>1
<1>9. Yields(q, "package", "caddy")
  <2>1. 1 \in 1..Len(q)
    BY <1>1
  <2> QED BY <1>2, <2>1 DEF Yields
<1>10. Yields(q, "running", "caddy")
  <2>1. 1 \in 1..Len(q)
    BY <1>1
  <2> QED BY <1>3, <2>1 DEF Yields
<1> QED BY <1>7, <1>8, <1>9, <1>10 DEF q

\* The steps of Restic.
LEMMA ResticList ==
    /\ ResticSteps \in Seq(AllSteps) /\ Len(ResticSteps) = 3
    /\ ResticSteps[1] = Step("refresh", "apt")
    /\ ResticSteps[2] = Step("install", "restic")
    /\ ResticSteps[3] = Step("verify", "restic")
<1>1. Step("refresh", "apt") \in AllSteps
  BY StepIn DEF Deeds, Names
<1>2. Step("install", "restic") \in AllSteps
  BY StepIn DEF Deeds, Names
<1>3. Step("verify", "restic") \in AllSteps
  BY StepIn DEF Deeds, Names
<1> QED BY <1>1, <1>2, <1>3 DEF ResticSteps

\* Each step of Restic has what it needs; what they give.
LEMMA ResticFits ==
    ASSUME NEW h, NEW p, NEW port \in Ports
    PROVE  /\ Fits(h, p, ResticSteps, port) /\ NoRemove(ResticSteps)
           /\ Yields(ResticSteps, "package", "restic")
<1> DEFINE q == ResticSteps
<1>1. /\ Len(q) = 3
      /\ q[1].do = "refresh" /\ q[1].of = "apt"
      /\ q[2].do = "install" /\ q[2].of = "restic"
      /\ q[3].do = "verify" /\ q[3].of = "restic"
  BY ResticList, StepFields
<1> HIDE DEF q
<1>2. Gives(q[2], "package", "restic")
  BY <1>1 DEF Gives, Services, Sourced, SourceOf
<1>3. ASSUME NEW k, NEW x, Needs(q[1], k, x, port)
      PROVE  From(h, p, k, x) \/ \E j \in 1..(1 - 1) : Gives(q[j], k, x)
  BY <1>1, <1>3 DEF Needs, Timers, Sourced, SourceOf, KeyOf
<1>4. ASSUME NEW k, NEW x, Needs(q[2], k, x, port)
      PROVE  From(h, p, k, x) \/ \E j \in 1..(2 - 1) : Gives(q[j], k, x)
  BY <1>1, <1>4 DEF Needs, Timers, Sourced, SourceOf, KeyOf
<1>5. ASSUME NEW k, NEW x, Needs(q[3], k, x, port)
      PROVE  From(h, p, k, x) \/ \E j \in 1..(3 - 1) : Gives(q[j], k, x)
  <2>1. k = "package" /\ x = "restic"
    BY <1>1, <1>5 DEF Needs, Timers, Sourced, SourceOf, KeyOf
  <2>2. 2 \in 1..(3 - 1)
    OBVIOUS
  <2> QED BY <2>1, <2>2, <1>2
<1>6. Fits(h, p, q, port)
  <2> SUFFICES ASSUME NEW i \in 1..Len(q), NEW k, NEW x, Needs(q[i], k, x, port)
               PROVE  From(h, p, k, x) \/ \E j \in 1..(i - 1) : Gives(q[j], k, x)
    BY DEF Fits
  <2>1. i = 1 \/ i = 2 \/ i = 3
    BY <1>1
  <2> QED BY <2>1, <1>3, <1>4, <1>5
<1>7. NoRemove(q)
  <2> SUFFICES ASSUME NEW i \in 1..Len(q) PROVE q[i].do # "remove"
    BY DEF NoRemove
  <2>1. i = 1 \/ i = 2 \/ i = 3
    BY <1>1
  <2> QED BY <1>1, <2>1
<1>8. Yields(q, "package", "restic")
  <2>1. 2 \in 1..Len(q)
    BY <1>1
  <2> QED BY <1>2, <2>1 DEF Yields
<1> QED BY <1>6, <1>7, <1>8 DEF q

\* The steps of a package of the distribution.
LEMMA PackageList ==
    ASSUME NEW c \in {"upgrades", "ufw", "fail2ban"}
    PROVE  /\ PackageFirst(c) \in Seq(AllSteps) /\ Len(PackageFirst(c)) = 2
           /\ PackageFirst(c)[1] = Step("refresh", "apt")
           /\ PackageFirst(c)[2] = Step("install", c)
<1>1. Step("refresh", "apt") \in AllSteps
  BY StepIn DEF Deeds, Names
<1>2. Step("install", c) \in AllSteps
  BY StepIn DEF Deeds, Names
<1> QED BY <1>1, <1>2 DEF PackageFirst

\* Each step of a package of the distribution has what it needs; what they give.
LEMMA PackageFits ==
    ASSUME NEW h, NEW p, NEW port \in Ports, NEW c \in {"upgrades", "ufw", "fail2ban"}
    PROVE  /\ Fits(h, p, PackageFirst(c), port) /\ NoRemove(PackageFirst(c))
           /\ Yields(PackageFirst(c), "package", c)
<1> DEFINE q == PackageFirst(c)
<1>1. /\ Len(q) = 2
      /\ q[1].do = "refresh" /\ q[1].of = "apt"
      /\ q[2].do = "install" /\ q[2].of = c
  BY PackageList, StepFields
<1> HIDE DEF q
<1>2. Gives(q[2], "package", c)
  BY <1>1 DEF Gives, Services, Sourced, SourceOf
<1>3. ASSUME NEW k, NEW x, Needs(q[1], k, x, port)
      PROVE  From(h, p, k, x) \/ \E j \in 1..(1 - 1) : Gives(q[j], k, x)
  BY <1>1, <1>3 DEF Needs, Timers, Sourced, SourceOf, KeyOf
<1>4. ASSUME NEW k, NEW x, Needs(q[2], k, x, port)
      PROVE  From(h, p, k, x) \/ \E j \in 1..(2 - 1) : Gives(q[j], k, x)
  BY <1>1, <1>4 DEF Needs, Timers, Sourced, SourceOf, KeyOf
<1>5. Fits(h, p, q, port)
  <2> SUFFICES ASSUME NEW i \in 1..Len(q), NEW k, NEW x, Needs(q[i], k, x, port)
               PROVE  From(h, p, k, x) \/ \E j \in 1..(i - 1) : Gives(q[j], k, x)
    BY DEF Fits
  <2>1. i = 1 \/ i = 2
    BY <1>1
  <2> QED BY <2>1, <1>3, <1>4
<1>6. NoRemove(q)
  <2> SUFFICES ASSUME NEW i \in 1..Len(q) PROVE q[i].do # "remove"
    BY DEF NoRemove
  <2>1. i = 1 \/ i = 2
    BY <1>1
  <2> QED BY <1>1, <2>1
<1>7. Yields(q, "package", c)
  <2>1. 2 \in 1..Len(q)
    BY <1>1
  <2> QED BY <1>2, <2>1 DEF Yields
<1> QED BY <1>5, <1>6, <1>7 DEF q

\* The steps of unattended upgrades once installed.
LEMMA UpgradesEndList ==
    /\ UpgradesLast \in Seq(AllSteps) /\ Len(UpgradesLast) = 6
    /\ UpgradesLast[1] = Step("file", "periodic")
    /\ UpgradesLast[2] = Step("file", "policy")
    /\ UpgradesLast[3] = Step("enable", "apt-daily")
    /\ UpgradesLast[4] = Step("enable", "apt-daily-upgrade")
    /\ UpgradesLast[5] = Step("verify", "apt-daily")
    /\ UpgradesLast[6] = Step("verify", "apt-daily-upgrade")
<1>1. Step("file", "periodic") \in AllSteps
  BY StepIn DEF Deeds, Names
<1>2. Step("file", "policy") \in AllSteps
  BY StepIn DEF Deeds, Names
<1>3. Step("enable", "apt-daily") \in AllSteps
  BY StepIn DEF Deeds, Names
<1>4. Step("enable", "apt-daily-upgrade") \in AllSteps
  BY StepIn DEF Deeds, Names
<1>5. Step("verify", "apt-daily") \in AllSteps
  BY StepIn DEF Deeds, Names
<1>6. Step("verify", "apt-daily-upgrade") \in AllSteps
  BY StepIn DEF Deeds, Names
<1> QED BY <1>1, <1>2, <1>3, <1>4, <1>5, <1>6 DEF UpgradesLast

\* Each step of unattended upgrades once installed has what it needs; what they give.
LEMMA UpgradesEndFits ==
    ASSUME NEW h, NEW p, NEW port \in Ports
    PROVE  /\ Fits(h, p, UpgradesLast, port) /\ NoRemove(UpgradesLast)
           /\ Yields(UpgradesLast, "file", "periodic")
           /\ Yields(UpgradesLast, "file", "policy")
           /\ Yields(UpgradesLast, "running", "apt-daily")
           /\ Yields(UpgradesLast, "running", "apt-daily-upgrade")
<1> DEFINE q == UpgradesLast
<1>1. /\ Len(q) = 6
      /\ q[1].do = "file" /\ q[1].of = "periodic"
      /\ q[2].do = "file" /\ q[2].of = "policy"
      /\ q[3].do = "enable" /\ q[3].of = "apt-daily"
      /\ q[4].do = "enable" /\ q[4].of = "apt-daily-upgrade"
      /\ q[5].do = "verify" /\ q[5].of = "apt-daily"
      /\ q[6].do = "verify" /\ q[6].of = "apt-daily-upgrade"
  BY UpgradesEndList, StepFields
<1> HIDE DEF q
<1>2. Gives(q[1], "file", "periodic")
  BY <1>1 DEF Gives, Services, Sourced, SourceOf
<1>3. Gives(q[2], "file", "policy")
  BY <1>1 DEF Gives, Services, Sourced, SourceOf
<1>4. Gives(q[3], "running", "apt-daily")
  BY <1>1 DEF Gives, Services, Sourced, SourceOf
<1>5. Gives(q[4], "running", "apt-daily-upgrade")
  BY <1>1 DEF Gives, Services, Sourced, SourceOf
<1>6. ASSUME NEW k, NEW x, Needs(q[1], k, x, port)
      PROVE  From(h, p, k, x) \/ \E j \in 1..(1 - 1) : Gives(q[j], k, x)
  BY <1>1, <1>6 DEF Needs, Timers, Sourced, SourceOf, KeyOf
<1>7. ASSUME NEW k, NEW x, Needs(q[2], k, x, port)
      PROVE  From(h, p, k, x) \/ \E j \in 1..(2 - 1) : Gives(q[j], k, x)
  BY <1>1, <1>7 DEF Needs, Timers, Sourced, SourceOf, KeyOf
<1>8. ASSUME NEW k, NEW x, Needs(q[3], k, x, port)
      PROVE  From(h, p, k, x) \/ \E j \in 1..(3 - 1) : Gives(q[j], k, x)
  BY <1>1, <1>8 DEF Needs, Timers, Sourced, SourceOf, KeyOf
<1>9. ASSUME NEW k, NEW x, Needs(q[4], k, x, port)
      PROVE  From(h, p, k, x) \/ \E j \in 1..(4 - 1) : Gives(q[j], k, x)
  BY <1>1, <1>9 DEF Needs, Timers, Sourced, SourceOf, KeyOf
<1>10. ASSUME NEW k, NEW x, Needs(q[5], k, x, port)
      PROVE  From(h, p, k, x) \/ \E j \in 1..(5 - 1) : Gives(q[j], k, x)
  <2>1. k = "running" /\ x = "apt-daily"
    BY <1>1, <1>10 DEF Needs, Timers, Sourced, SourceOf, KeyOf
  <2>2. 3 \in 1..(5 - 1)
    OBVIOUS
  <2> QED BY <2>1, <2>2, <1>4
<1>11. ASSUME NEW k, NEW x, Needs(q[6], k, x, port)
      PROVE  From(h, p, k, x) \/ \E j \in 1..(6 - 1) : Gives(q[j], k, x)
  <2>1. k = "running" /\ x = "apt-daily-upgrade"
    BY <1>1, <1>11 DEF Needs, Timers, Sourced, SourceOf, KeyOf
  <2>2. 4 \in 1..(6 - 1)
    OBVIOUS
  <2> QED BY <2>1, <2>2, <1>5
<1>12. Fits(h, p, q, port)
  <2> SUFFICES ASSUME NEW i \in 1..Len(q), NEW k, NEW x, Needs(q[i], k, x, port)
               PROVE  From(h, p, k, x) \/ \E j \in 1..(i - 1) : Gives(q[j], k, x)
    BY DEF Fits
  <2>1. i = 1 \/ i = 2 \/ i = 3 \/ i = 4 \/ i = 5 \/ i = 6
    BY <1>1
  <2> QED BY <2>1, <1>6, <1>7, <1>8, <1>9, <1>10, <1>11
<1>13. NoRemove(q)
  <2> SUFFICES ASSUME NEW i \in 1..Len(q) PROVE q[i].do # "remove"
    BY DEF NoRemove
  <2>1. i = 1 \/ i = 2 \/ i = 3 \/ i = 4 \/ i = 5 \/ i = 6
    BY <1>1
  <2> QED BY <1>1, <2>1
<1>14. Yields(q, "file", "periodic")
  <2>1. 1 \in 1..Len(q)
    BY <1>1
  <2> QED BY <1>2, <2>1 DEF Yields
<1>15. Yields(q, "file", "policy")
  <2>1. 2 \in 1..Len(q)
    BY <1>1
  <2> QED BY <1>3, <2>1 DEF Yields
<1>16. Yields(q, "running", "apt-daily")
  <2>1. 3 \in 1..Len(q)
    BY <1>1
  <2> QED BY <1>4, <2>1 DEF Yields
<1>17. Yields(q, "running", "apt-daily-upgrade")
  <2>1. 4 \in 1..Len(q)
    BY <1>1
  <2> QED BY <1>5, <2>1 DEF Yields
<1> QED BY <1>12, <1>13, <1>14, <1>15, <1>16, <1>17 DEF q

\* The steps of the firewall.
LEMMA FirewallList ==
    ASSUME NEW port \in Ports
    PROVE  /\ FirewallSteps(port) \in Seq(AllSteps) /\ Len(FirewallSteps(port)) = 7
           /\ FirewallSteps(port)[1] = Step("deny", "incoming")
           /\ FirewallSteps(port)[2] = Step("permit", "outgoing")
           /\ FirewallSteps(port)[3] = Step("allow", port)
           /\ FirewallSteps(port)[4] = Step("allow", 80)
           /\ FirewallSteps(port)[5] = Step("allow", 443)
           /\ FirewallSteps(port)[6] = Step("activate", "ufw")
           /\ FirewallSteps(port)[7] = Step("verify", "ufw")
<1>1. Step("deny", "incoming") \in AllSteps
  BY StepIn DEF Deeds, Names
<1>2. Step("permit", "outgoing") \in AllSteps
  BY StepIn DEF Deeds, Names
<1>3. Step("allow", port) \in AllSteps
  BY StepIn, PortFacts DEF Deeds
<1>4. Step("allow", 80) \in AllSteps
  BY StepIn, PortFacts DEF Deeds
<1>5. Step("allow", 443) \in AllSteps
  BY StepIn, PortFacts DEF Deeds
<1>6. Step("activate", "ufw") \in AllSteps
  BY StepIn DEF Deeds, Names
<1>7. Step("verify", "ufw") \in AllSteps
  BY StepIn DEF Deeds, Names
<1> QED BY <1>1, <1>2, <1>3, <1>4, <1>5, <1>6, <1>7 DEF FirewallSteps

FirewallGiven(q, port) ==
    /\ \A x : Yields(q, "incoming", x)
    /\ \A x : Yields(q, "active", x)
    /\ Yields(q, "shown", port)
    /\ Yields(q, "shown", 80)
    /\ Yields(q, "shown", 443)

\* Each step of the firewall has what it needs; what they give.
LEMMA FirewallFits ==
    ASSUME NEW h, NEW p, NEW port \in Ports,
           From(h, p, "package", "ufw")
    PROVE  /\ Fits(h, p, FirewallSteps(port), port) /\ NoRemove(FirewallSteps(port))
           /\ FirewallGiven(FirewallSteps(port), port)
<1> DEFINE q == FirewallSteps(port)
<1>1. /\ Len(q) = 7
      /\ q[1].do = "deny" /\ q[1].of = "incoming"
      /\ q[2].do = "permit" /\ q[2].of = "outgoing"
      /\ q[3].do = "allow" /\ q[3].of = port
      /\ q[4].do = "allow" /\ q[4].of = 80
      /\ q[5].do = "allow" /\ q[5].of = 443
      /\ q[6].do = "activate" /\ q[6].of = "ufw"
      /\ q[7].do = "verify" /\ q[7].of = "ufw"
  BY FirewallList, StepFields
<1> HIDE DEF q
<1>2. \A x : Gives(q[1], "incoming", x)
  BY <1>1 DEF Gives, Services, Sourced, SourceOf
<1>3. \A x : Gives(q[2], "outgoing", x)
  BY <1>1 DEF Gives, Services, Sourced, SourceOf
<1>4. Gives(q[3], "rule", port)
  BY <1>1 DEF Gives, Services, Sourced, SourceOf
<1>5. Gives(q[3], "shown", port)
  BY <1>1 DEF Gives, Services, Sourced, SourceOf
<1>6. Gives(q[4], "rule", 80)
  BY <1>1 DEF Gives, Services, Sourced, SourceOf
<1>7. Gives(q[4], "shown", 80)
  BY <1>1 DEF Gives, Services, Sourced, SourceOf
<1>8. Gives(q[5], "rule", 443)
  BY <1>1 DEF Gives, Services, Sourced, SourceOf
<1>9. Gives(q[5], "shown", 443)
  BY <1>1 DEF Gives, Services, Sourced, SourceOf
<1>10. \A x : Gives(q[6], "active", x)
  BY <1>1 DEF Gives, Services, Sourced, SourceOf
<1>11. ASSUME NEW k, NEW x, Needs(q[1], k, x, port)
      PROVE  From(h, p, k, x) \/ \E j \in 1..(1 - 1) : Gives(q[j], k, x)
  <2>1. k = "package" /\ x = "ufw"
    BY <1>1, <1>11 DEF Needs, Timers, Sourced, SourceOf, KeyOf
  <2> QED BY <2>1
<1>12. ASSUME NEW k, NEW x, Needs(q[2], k, x, port)
      PROVE  From(h, p, k, x) \/ \E j \in 1..(2 - 1) : Gives(q[j], k, x)
  <2>1. k = "package" /\ x = "ufw"
    BY <1>1, <1>12 DEF Needs, Timers, Sourced, SourceOf, KeyOf
  <2> QED BY <2>1
<1>13. ASSUME NEW k, NEW x, Needs(q[3], k, x, port)
      PROVE  From(h, p, k, x) \/ \E j \in 1..(3 - 1) : Gives(q[j], k, x)
  <2>1. k = "package" /\ x = "ufw"
    BY <1>1, <1>13 DEF Needs, Timers, Sourced, SourceOf, KeyOf
  <2> QED BY <2>1
<1>14. ASSUME NEW k, NEW x, Needs(q[4], k, x, port)
      PROVE  From(h, p, k, x) \/ \E j \in 1..(4 - 1) : Gives(q[j], k, x)
  <2>1. k = "package" /\ x = "ufw"
    BY <1>1, <1>14 DEF Needs, Timers, Sourced, SourceOf, KeyOf
  <2> QED BY <2>1
<1>15. ASSUME NEW k, NEW x, Needs(q[5], k, x, port)
      PROVE  From(h, p, k, x) \/ \E j \in 1..(5 - 1) : Gives(q[j], k, x)
  <2>1. k = "package" /\ x = "ufw"
    BY <1>1, <1>15 DEF Needs, Timers, Sourced, SourceOf, KeyOf
  <2> QED BY <2>1
<1>16. ASSUME NEW k, NEW x, Needs(q[6], k, x, port)
      PROVE  From(h, p, k, x) \/ \E j \in 1..(6 - 1) : Gives(q[j], k, x)
  <2>1. \/ k = "package" /\ x = "ufw"
        \/ k = "rule" /\ x = port
    BY <1>1, <1>16 DEF Needs, Timers, Sourced, SourceOf, KeyOf
  <2>2. 3 \in 1..(6 - 1)
    OBVIOUS
  <2> QED BY <2>1, <2>2, <1>4
<1>17. ASSUME NEW k, NEW x, Needs(q[7], k, x, port)
      PROVE  From(h, p, k, x) \/ \E j \in 1..(7 - 1) : Gives(q[j], k, x)
  <2>1. \/ k = "active"
        \/ k = "incoming"
        \/ k = "outgoing"
        \/ k = "shown" /\ x = port
        \/ k = "shown" /\ x = 80
        \/ k = "shown" /\ x = 443
    BY <1>1, <1>17 DEF Needs, Timers, Sourced, SourceOf, KeyOf
  <2>2. 6 \in 1..(7 - 1) /\ 1 \in 1..(7 - 1) /\ 2 \in 1..(7 - 1) /\ 3 \in 1..(7 - 1) /\ 4 \in 1..(7 - 1) /\ 5 \in 1..(7 - 1)
    OBVIOUS
  <2> QED BY <2>1, <2>2, <1>10, <1>2, <1>3, <1>5, <1>7, <1>9
<1>18. Fits(h, p, q, port)
  <2> SUFFICES ASSUME NEW i \in 1..Len(q), NEW k, NEW x, Needs(q[i], k, x, port)
               PROVE  From(h, p, k, x) \/ \E j \in 1..(i - 1) : Gives(q[j], k, x)
    BY DEF Fits
  <2>1. i = 1 \/ i = 2 \/ i = 3 \/ i = 4 \/ i = 5 \/ i = 6 \/ i = 7
    BY <1>1
  <2> QED BY <2>1, <1>11, <1>12, <1>13, <1>14, <1>15, <1>16, <1>17
<1>19. NoRemove(q)
  <2> SUFFICES ASSUME NEW i \in 1..Len(q) PROVE q[i].do # "remove"
    BY DEF NoRemove
  <2>1. i = 1 \/ i = 2 \/ i = 3 \/ i = 4 \/ i = 5 \/ i = 6 \/ i = 7
    BY <1>1
  <2> QED BY <1>1, <2>1
<1>20. \A x : Yields(q, "incoming", x)
  <2>1. 1 \in 1..Len(q)
    BY <1>1
  <2> QED BY <1>2, <2>1 DEF Yields
<1>21. Yields(q, "shown", port)
  <2>1. 3 \in 1..Len(q)
    BY <1>1
  <2> QED BY <1>5, <2>1 DEF Yields
<1>22. Yields(q, "shown", 80)
  <2>1. 4 \in 1..Len(q)
    BY <1>1
  <2> QED BY <1>7, <2>1 DEF Yields
<1>23. Yields(q, "shown", 443)
  <2>1. 5 \in 1..Len(q)
    BY <1>1
  <2> QED BY <1>9, <2>1 DEF Yields
<1>24. \A x : Yields(q, "active", x)
  <2>1. 6 \in 1..Len(q)
    BY <1>1
  <2> QED BY <1>10, <2>1 DEF Yields
<1> QED BY <1>18, <1>19, <1>20, <1>21, <1>22, <1>23, <1>24 DEF q, FirewallGiven

\* The steps of Fail2ban once installed.
LEMMA Fail2banEndList ==
    /\ Fail2banLast \in Seq(AllSteps) /\ Len(Fail2banLast) = 4
    /\ Fail2banLast[1] = Step("file", "jail")
    /\ Fail2banLast[2] = Step("enable", "fail2ban")
    /\ Fail2banLast[3] = Step("reload", "fail2ban")
    /\ Fail2banLast[4] = Step("verify", "fail2ban")
<1>1. Step("file", "jail") \in AllSteps
  BY StepIn DEF Deeds, Names
<1>2. Step("enable", "fail2ban") \in AllSteps
  BY StepIn DEF Deeds, Names
<1>3. Step("reload", "fail2ban") \in AllSteps
  BY StepIn DEF Deeds, Names
<1>4. Step("verify", "fail2ban") \in AllSteps
  BY StepIn DEF Deeds, Names
<1> QED BY <1>1, <1>2, <1>3, <1>4 DEF Fail2banLast

\* Each step of Fail2ban once installed has what it needs; what they give.
LEMMA Fail2banEndFits ==
    ASSUME NEW h, NEW p, NEW port \in Ports,
           From(h, p, "package", "fail2ban")
    PROVE  /\ Fits(h, p, Fail2banLast, port) /\ NoRemove(Fail2banLast)
           /\ Yields(Fail2banLast, "file", "jail")
           /\ Yields(Fail2banLast, "running", "fail2ban")
           /\ \A x : Yields(Fail2banLast, "jailed", x)
<1> DEFINE q == Fail2banLast
<1>1. /\ Len(q) = 4
      /\ q[1].do = "file" /\ q[1].of = "jail"
      /\ q[2].do = "enable" /\ q[2].of = "fail2ban"
      /\ q[3].do = "reload" /\ q[3].of = "fail2ban"
      /\ q[4].do = "verify" /\ q[4].of = "fail2ban"
  BY Fail2banEndList, StepFields
<1> HIDE DEF q
<1>2. Gives(q[1], "file", "jail")
  BY <1>1 DEF Gives, Services, Sourced, SourceOf
<1>3. Gives(q[2], "running", "fail2ban")
  BY <1>1 DEF Gives, Services, Sourced, SourceOf
<1>4. \A x : Gives(q[3], "jailed", x)
  BY <1>1 DEF Gives, Services, Sourced, SourceOf
<1>5. ASSUME NEW k, NEW x, Needs(q[1], k, x, port)
      PROVE  From(h, p, k, x) \/ \E j \in 1..(1 - 1) : Gives(q[j], k, x)
  BY <1>1, <1>5 DEF Needs, Timers, Sourced, SourceOf, KeyOf
<1>6. ASSUME NEW k, NEW x, Needs(q[2], k, x, port)
      PROVE  From(h, p, k, x) \/ \E j \in 1..(2 - 1) : Gives(q[j], k, x)
  <2>1. k = "package" /\ x = "fail2ban"
    BY <1>1, <1>6 DEF Needs, Timers, Sourced, SourceOf, KeyOf
  <2> QED BY <2>1
<1>7. ASSUME NEW k, NEW x, Needs(q[3], k, x, port)
      PROVE  From(h, p, k, x) \/ \E j \in 1..(3 - 1) : Gives(q[j], k, x)
  <2>1. \/ k = "running" /\ x = "fail2ban"
        \/ k = "file" /\ x = "jail"
    BY <1>1, <1>7 DEF Needs, Timers, Sourced, SourceOf, KeyOf
  <2>2. 2 \in 1..(3 - 1) /\ 1 \in 1..(3 - 1)
    OBVIOUS
  <2> QED BY <2>1, <2>2, <1>3, <1>2
<1>8. ASSUME NEW k, NEW x, Needs(q[4], k, x, port)
      PROVE  From(h, p, k, x) \/ \E j \in 1..(4 - 1) : Gives(q[j], k, x)
  <2>1. k = "jailed"
    BY <1>1, <1>8 DEF Needs, Timers, Sourced, SourceOf, KeyOf
  <2>2. 3 \in 1..(4 - 1)
    OBVIOUS
  <2> QED BY <2>1, <2>2, <1>4
<1>9. Fits(h, p, q, port)
  <2> SUFFICES ASSUME NEW i \in 1..Len(q), NEW k, NEW x, Needs(q[i], k, x, port)
               PROVE  From(h, p, k, x) \/ \E j \in 1..(i - 1) : Gives(q[j], k, x)
    BY DEF Fits
  <2>1. i = 1 \/ i = 2 \/ i = 3 \/ i = 4
    BY <1>1
  <2> QED BY <2>1, <1>5, <1>6, <1>7, <1>8
<1>10. NoRemove(q)
  <2> SUFFICES ASSUME NEW i \in 1..Len(q) PROVE q[i].do # "remove"
    BY DEF NoRemove
  <2>1. i = 1 \/ i = 2 \/ i = 3 \/ i = 4
    BY <1>1
  <2> QED BY <1>1, <2>1
<1>11. Yields(q, "file", "jail")
  <2>1. 1 \in 1..Len(q)
    BY <1>1
  <2> QED BY <1>2, <2>1 DEF Yields
<1>12. Yields(q, "running", "fail2ban")
  <2>1. 2 \in 1..Len(q)
    BY <1>1
  <2> QED BY <1>3, <2>1 DEF Yields
<1>13. \A x : Yields(q, "jailed", x)
  <2>1. 3 \in 1..Len(q)
    BY <1>1
  <2> QED BY <1>4, <2>1 DEF Yields
<1> QED BY <1>9, <1>10, <1>11, <1>12, <1>13 DEF q

\* The steps of `host update`.
LEMMA UpdateList ==
    /\ UpdateSteps \in Seq(AllSteps) /\ Len(UpdateSteps) = 2
    /\ UpdateSteps[1] = Step("refresh", "apt")
    /\ UpdateSteps[2] = Step("upgrade", "apt")
<1>1. Step("refresh", "apt") \in AllSteps
  BY StepIn DEF Deeds, Names
<1>2. Step("upgrade", "apt") \in AllSteps
  BY StepIn DEF Deeds, Names
<1> QED BY <1>1, <1>2 DEF UpdateSteps

\* Each step of `host update` has what it needs; what they give.
LEMMA UpdateFits ==
    ASSUME NEW h, NEW p, NEW port \in Ports
    PROVE  /\ Fits(h, p, UpdateSteps, port) /\ NoRemove(UpdateSteps)
<1> DEFINE q == UpdateSteps
<1>1. /\ Len(q) = 2
      /\ q[1].do = "refresh" /\ q[1].of = "apt"
      /\ q[2].do = "upgrade" /\ q[2].of = "apt"
  BY UpdateList, StepFields
<1> HIDE DEF q
<1>2. ASSUME NEW k, NEW x, Needs(q[1], k, x, port)
      PROVE  From(h, p, k, x) \/ \E j \in 1..(1 - 1) : Gives(q[j], k, x)
  BY <1>1, <1>2 DEF Needs, Timers, Sourced, SourceOf, KeyOf
<1>3. ASSUME NEW k, NEW x, Needs(q[2], k, x, port)
      PROVE  From(h, p, k, x) \/ \E j \in 1..(2 - 1) : Gives(q[j], k, x)
  BY <1>1, <1>3 DEF Needs, Timers, Sourced, SourceOf, KeyOf
<1>4. Fits(h, p, q, port)
  <2> SUFFICES ASSUME NEW i \in 1..Len(q), NEW k, NEW x, Needs(q[i], k, x, port)
               PROVE  From(h, p, k, x) \/ \E j \in 1..(i - 1) : Gives(q[j], k, x)
    BY DEF Fits
  <2>1. i = 1 \/ i = 2
    BY <1>1
  <2> QED BY <2>1, <1>2, <1>3
<1>5. NoRemove(q)
  <2> SUFFICES ASSUME NEW i \in 1..Len(q) PROVE q[i].do # "remove"
    BY DEF NoRemove
  <2>1. i = 1 \/ i = 2
    BY <1>1
  <2> QED BY <1>1, <2>1
<1> QED BY <1>4, <1>5 DEF q

\* The steps of the removal of the distribution's Docker.
LEMMA RemovalList ==
    /\ DockerRemoval \in Seq(AllSteps) /\ Len(DockerRemoval) = 1
    /\ DockerRemoval[1] = Step("remove", "conflict")
<1>1. Step("remove", "conflict") \in AllSteps
  BY StepIn DEF Deeds, Names
<1> QED BY <1>1 DEF DockerRemoval

\* Each step of the removal of the distribution's Docker has what it needs; what they give.
LEMMA RemovalFits ==
    ASSUME NEW h, NEW p, NEW port \in Ports, "conflict" \in h.packages
    PROVE  /\ Fits(h, p, DockerRemoval, port) /\ RemovesOnce(h, DockerRemoval)
           /\ \A x : Yields(DockerRemoval, "clear", x)
<1> DEFINE q == DockerRemoval
<1>1. Len(q) = 1 /\ q[1].do = "remove" /\ q[1].of = "conflict"
  BY RemovalList, StepFields
<1> HIDE DEF q
<1>2. \A x : Gives(q[1], "clear", x)
  BY <1>1 DEF Gives
<1>3. \A k, x : ~Needs(q[1], k, x, port)
  BY <1>1 DEF Needs
<1>4. \A i \in 1..Len(q) : i = 1
  BY <1>1
<1>5. Fits(h, p, q, port)
  BY <1>3, <1>4 DEF Fits
<1>6. RemovesOnce(h, q)
  BY <1>4 DEF RemovesOnce
<1>7. \A x : Yields(q, "clear", x)
  BY <1>1, <1>2 DEF Yields
<1> QED BY <1>5, <1>6, <1>7 DEF q
\* What the steps of a component leave to be wished for on the host they start from.
Prepared(h, c, q, port) ==
    /\ q \in Seq(AllSteps) /\ Fits(h, <<>>, q, port) /\ RemovesOnce(h, q)
    /\ \A k, x : GoalOf(c, k, x, port) => From(h, q, k, x)

\* The list without steps.
LEMMA EmptyList ==
    ASSUME NEW h, NEW p, NEW port
    PROVE  /\ <<>> \in Seq(AllSteps) /\ Len(<<>>) = 0
           /\ Fits(h, p, <<>>, port) /\ NoRemove(<<>>) /\ RemovesOnce(h, <<>>)
<1>1. <<>> \in Seq(AllSteps) /\ Len(<<>>) = 0
  BY EmptySeq
<1> DEFINE q == <<>>
<1>2. Len(q) = 0
  BY <1>1
<1> HIDE DEF q
<1>3. Fits(h, p, q, port) /\ NoRemove(q) /\ RemovesOnce(h, q)
  BY <1>2 DEF Fits, NoRemove, RemovesOnce
<1> QED BY <1>1, <1>3 DEF q

\* The steps of Docker, for a Docker that is healthy, missing or conflicting.
LEMMA DockerPrepared ==
    ASSUME NEW h, GoodHost(h), NEW port \in Ports
    PROVE  Prepared(h, "docker", DockerSteps(h), port)
<1>1. CASE DockerHealthy(h)
  <2> DEFINE q == RotationSteps
  <2>1. DockerSteps(h) = q
    BY <1>1 DEF DockerSteps
  <2>2. /\ "docker" \in h.packages /\ "docker" \in h.running /\ "conflict" \notin h.packages
        /\ "docker-key" \in h.files /\ "docker-source" \in h.files
    BY <1>1 DEF DockerHealthy, GoodHost
  <2>3. /\ Has(h, "package", "docker") /\ Has(h, "running", "docker")
        /\ \A x : Has(h, "clear", x)
        /\ Has(h, "file", "docker-key") /\ Has(h, "file", "docker-source")
    BY <2>2 DEF Has
  <2>4. From(h, <<>>, "package", "docker") /\ \A x : From(h, <<>>, "clear", x)
    BY <2>3 DEF From
  <2>5. /\ Fits(h, <<>>, q, port) /\ NoRemove(q)
        /\ Yields(q, "file", "rotation")
    BY <2>4, RepairFits
  <2>6. q \in Seq(AllSteps)
    BY RepairList
  <2> HIDE DEF q
  <2>7. ASSUME NEW k, NEW x, GoalOf("docker", k, x, port) PROVE From(h, q, k, x)
    <3>1. \/ k = "package" /\ x = "docker"
          \/ k = "running" /\ x = "docker"
          \/ k = "clear"
          \/ k = "file" /\ x \in {"docker-key", "docker-source", "rotation"}
      BY <2>7 DEF GoalOf
    <3> QED BY <2>3, <2>5, <3>1 DEF From
  <2> QED BY <2>1, <2>5, <2>6, <2>7, RemovesNever DEF Prepared
<1>2. CASE ~DockerHealthy(h)
  <2>1. PICK r : r = IF "conflict" \in h.packages THEN DockerRemoval ELSE <<>>
    OBVIOUS
  <2>2. /\ r \in Seq(AllSteps) /\ Fits(h, DockerFirst, r, port) /\ RemovesOnce(h, r)
        /\ \A x : From(h, r, "clear", x)
    <3>1. CASE "conflict" \in h.packages
      BY <2>1, <3>1, RemovalList, RemovalFits DEF From
    <3>2. CASE "conflict" \notin h.packages
      <4>1. \A x : Has(h, "clear", x)
        BY <3>2 DEF Has
      <4> QED BY <2>1, <3>2, <4>1, EmptyList DEF From
    <3> QED BY <3>1, <3>2
  <2> DEFINE a == DockerFirst
             b == a \o r
             c == RepositorySteps("docker")
             d == b \o c
             e == DockerLast
             q == d \o e
  <2>3. DockerSteps(h) = q
    BY <1>2, <2>1 DEF DockerSteps, DockerFirst, DockerLast, DockerRemoval
  <2>4. /\ a \in Seq(AllSteps) /\ c \in Seq(AllSteps) /\ e \in Seq(AllSteps)
        /\ Fits(h, <<>>, a, port) /\ NoRemove(a)
        /\ Fits(h, b, c, port) /\ NoRemove(c)
        /\ Yields(c, "file", "docker-key") /\ Yields(c, "file", "docker-source")
        /\ Yields(c, "index", "docker")
    BY FirstList, FirstFits, DockerRepositoryList, DockerRepositoryFits, LastList
  <2> HIDE DEF a, c
  <2>5. b \in Seq(AllSteps) /\ Fits(h, <<>>, b, port) /\ RemovesOnce(h, b)
    BY <2>2, <2>4, Joined, FitsJoined, RemovesJoined, RemovesNever DEF a
  <2>6. \A x : From(h, b, "clear", x)
    BY <2>2, <2>4, YieldsJoined DEF From
  <2> HIDE DEF b
  <2>7. d \in Seq(AllSteps) /\ Fits(h, <<>>, d, port) /\ RemovesOnce(h, d)
    BY <2>4, <2>5, Joined, FitsJoined, RemovesJoined, RemovesNever
  <2>8. /\ \A x : From(h, d, "clear", x)
        /\ Yields(d, "file", "docker-key") /\ Yields(d, "file", "docker-source")
        /\ From(h, d, "index", "docker")
    BY <2>4, <2>5, <2>6, YieldsJoined DEF From
  <2> HIDE DEF d
  <2>9. /\ Fits(h, d, e, port) /\ NoRemove(e)
        /\ Yields(e, "package", "docker") /\ Yields(e, "running", "docker")
        /\ Yields(e, "file", "rotation")
    BY <2>8, LastFits
  <2> HIDE DEF e
  <2>10. q \in Seq(AllSteps) /\ Fits(h, <<>>, q, port) /\ RemovesOnce(h, q)
    BY <2>4, <2>7, <2>9, Joined, FitsJoined, RemovesJoined, RemovesNever
  <2>11. /\ \A x : From(h, q, "clear", x)
         /\ Yields(q, "file", "docker-key") /\ Yields(q, "file", "docker-source")
         /\ Yields(q, "package", "docker") /\ Yields(q, "running", "docker")
         /\ Yields(q, "file", "rotation")
    BY <2>4, <2>7, <2>8, <2>9, YieldsJoined DEF From
  <2> HIDE DEF q
  <2>12. ASSUME NEW k, NEW x, GoalOf("docker", k, x, port) PROVE From(h, q, k, x)
    <3>1. \/ k = "package" /\ x = "docker"
          \/ k = "running" /\ x = "docker"
          \/ k = "clear"
          \/ k = "file" /\ x \in {"docker-key", "docker-source", "rotation"}
      BY <2>12 DEF GoalOf
    <3> QED BY <2>11, <3>1 DEF From
  <2> QED BY <2>3, <2>10, <2>12 DEF Prepared
<1> QED BY <1>1, <1>2

\* The steps of Caddy.
LEMMA CaddyPrepared ==
    ASSUME NEW h, NEW port \in Ports
    PROVE  Prepared(h, "caddy", CaddySteps, port)
<1> DEFINE a == CaddyFirst
           b == RepositorySteps("caddy")
           c == a \o b
           d == CaddyLast
           q == c \o d
<1>1. CaddySteps = q
  BY DEF CaddySteps, CaddyFirst, CaddyLast
<1>2. /\ a \in Seq(AllSteps) /\ b \in Seq(AllSteps) /\ d \in Seq(AllSteps)
      /\ Fits(h, <<>>, a, port) /\ NoRemove(a) /\ Yields(a, "package", "gnupg")
  BY CaddyBeginList, CaddyBeginFits, CaddyRepositoryList, CaddyEndList
<1>3. From(h, a, "package", "gnupg")
  BY <1>2 DEF From
<1> HIDE DEF a
<1>4. Fits(h, a, b, port) /\ NoRemove(b) /\ Yields(b, "index", "caddy")
  BY <1>3, CaddyRepositoryFits
<1> HIDE DEF b
<1>5. /\ c \in Seq(AllSteps) /\ Fits(h, <<>>, c, port) /\ NoRemove(c)
      /\ From(h, c, "index", "caddy")
  BY <1>2, <1>4, Joined, FitsJoined, NoRemoveJoined, YieldsJoined DEF From
<1> HIDE DEF c
<1>6. /\ Fits(h, c, d, port) /\ NoRemove(d)
      /\ Yields(d, "package", "caddy") /\ Yields(d, "running", "caddy")
  BY <1>5, CaddyEndFits
<1> HIDE DEF d
<1>7. /\ q \in Seq(AllSteps) /\ Fits(h, <<>>, q, port) /\ NoRemove(q)
      /\ Yields(q, "package", "caddy") /\ Yields(q, "running", "caddy")
  BY <1>2, <1>5, <1>6, Joined, FitsJoined, NoRemoveJoined, YieldsJoined
<1> HIDE DEF q
<1>8. ASSUME NEW k, NEW x, GoalOf("caddy", k, x, port) PROVE From(h, q, k, x)
  <2>1. k \in {"package", "running"} /\ x = "caddy"
    BY <1>8 DEF GoalOf
  <2> QED BY <1>7, <2>1 DEF From
<1> QED BY <1>1, <1>7, <1>8, RemovesNever DEF Prepared

\* A package of the distribution is there or is installed first.
LEMMA PackagePrepared ==
    ASSUME NEW h, NEW port \in Ports, NEW c \in {"upgrades", "ufw", "fail2ban"}
    PROVE  /\ PackageSteps(h, c) \in Seq(AllSteps)
           /\ Fits(h, <<>>, PackageSteps(h, c), port) /\ NoRemove(PackageSteps(h, c))
           /\ From(h, PackageSteps(h, c), "package", c)
<1>1. CASE c \in h.packages
  <2>1. PackageSteps(h, c) = <<>>
    BY <1>1 DEF PackageSteps
  <2>2. Has(h, "package", c)
    BY <1>1 DEF Has
  <2> QED BY <2>1, <2>2, EmptyList DEF From
<1>2. CASE c \notin h.packages
  <2>1. PackageSteps(h, c) = PackageFirst(c)
    BY <1>2 DEF PackageSteps, PackageFirst
  <2> QED BY <2>1, PackageList, PackageFits DEF From
<1> QED BY <1>1, <1>2

\* The steps of unattended upgrades.
LEMMA UpgradesPrepared ==
    ASSUME NEW h, NEW port \in Ports
    PROVE  Prepared(h, "upgrades", UpgradesSteps(h), port)
<1> DEFINE a == PackageSteps(h, "upgrades")
           b == UpgradesLast
           q == a \o b
<1>1. UpgradesSteps(h) = q
  BY DEF UpgradesSteps, UpgradesLast
<1>2. /\ a \in Seq(AllSteps) /\ b \in Seq(AllSteps)
      /\ Fits(h, <<>>, a, port) /\ NoRemove(a) /\ From(h, a, "package", "upgrades")
  BY PackagePrepared, UpgradesEndList
<1> HIDE DEF a
<1>3. /\ Fits(h, a, b, port) /\ NoRemove(b)
      /\ Yields(b, "file", "periodic")
      /\ Yields(b, "file", "policy")
      /\ Yields(b, "running", "apt-daily")
      /\ Yields(b, "running", "apt-daily-upgrade")
  BY <1>2, UpgradesEndFits
<1> HIDE DEF b
<1>4. /\ q \in Seq(AllSteps) /\ Fits(h, <<>>, q, port) /\ NoRemove(q)
  BY <1>2, <1>3, Joined, FitsJoined, NoRemoveJoined
<1>5. /\ From(h, q, "package", "upgrades")
      /\ Yields(q, "file", "periodic")
      /\ Yields(q, "file", "policy")
      /\ Yields(q, "running", "apt-daily")
      /\ Yields(q, "running", "apt-daily-upgrade")
  BY <1>2, <1>3, YieldsJoined DEF From
<1> HIDE DEF q
<1>6. ASSUME NEW k, NEW x, GoalOf("upgrades", k, x, port) PROVE From(h, q, k, x)
  <2>1. \/ k = "package" /\ x = "upgrades"
        \/ k = "file" /\ x \in {"periodic", "policy"}
        \/ k = "running" /\ x \in {"apt-daily", "apt-daily-upgrade"}
    BY <1>6 DEF GoalOf, PolicyFiles, Timers
  <2> QED BY <1>5, <2>1 DEF From
<1> QED BY <1>1, <1>4, <1>6, RemovesNever DEF Prepared

\* The steps of the firewall.
LEMMA UfwPrepared ==
    ASSUME NEW h, NEW port \in Ports
    PROVE  Prepared(h, "ufw", PackageSteps(h, "ufw") \o FirewallSteps(port), port)
<1> DEFINE a == PackageSteps(h, "ufw")
           b == FirewallSteps(port)
           q == a \o b
<1>1. PackageSteps(h, "ufw") \o FirewallSteps(port) = q
  OBVIOUS
<1>2. /\ a \in Seq(AllSteps) /\ b \in Seq(AllSteps)
      /\ Fits(h, <<>>, a, port) /\ NoRemove(a) /\ From(h, a, "package", "ufw")
  BY PackagePrepared, FirewallList
<1> HIDE DEF a
<1>3. /\ Fits(h, a, b, port) /\ NoRemove(b)
      /\ \A x : Yields(b, "active", x)
      /\ \A x : Yields(b, "incoming", x)
      /\ Yields(b, "shown", port)
      /\ Yields(b, "shown", 80)
      /\ Yields(b, "shown", 443)
  <2>1. /\ Fits(h, a, FirewallSteps(port), port) /\ NoRemove(FirewallSteps(port))
        /\ FirewallGiven(FirewallSteps(port), port)
    BY <1>2, FirewallFits
  <2> QED BY <2>1 DEF FirewallGiven
<1> HIDE DEF b
<1>4. /\ q \in Seq(AllSteps) /\ Fits(h, <<>>, q, port) /\ NoRemove(q)
  BY <1>2, <1>3, Joined, FitsJoined, NoRemoveJoined
<1>5. /\ From(h, q, "package", "ufw")
      /\ \A x : Yields(q, "active", x)
      /\ \A x : Yields(q, "incoming", x)
      /\ Yields(q, "shown", port)
      /\ Yields(q, "shown", 80)
      /\ Yields(q, "shown", 443)
  BY <1>2, <1>3, YieldsJoined DEF From
<1> HIDE DEF q
<1>6. ASSUME NEW k, NEW x, GoalOf("ufw", k, x, port) PROVE From(h, q, k, x)
  <2>1. \/ k = "package" /\ x = "ufw"
        \/ k \in {"active", "incoming"}
        \/ k = "shown" /\ x \in {port, 80, 443}
    BY <1>6 DEF GoalOf, PolicyFiles, Timers
  <2> QED BY <1>5, <2>1 DEF From
<1> QED BY <1>1, <1>4, <1>6, RemovesNever DEF Prepared

\* The steps of Fail2ban.
LEMMA Fail2banPrepared ==
    ASSUME NEW h, NEW port \in Ports
    PROVE  Prepared(h, "fail2ban", Fail2banSteps(h), port)
<1> DEFINE a == PackageSteps(h, "fail2ban")
           b == Fail2banLast
           q == a \o b
<1>1. Fail2banSteps(h) = q
  BY DEF Fail2banSteps, Fail2banLast
<1>2. /\ a \in Seq(AllSteps) /\ b \in Seq(AllSteps)
      /\ Fits(h, <<>>, a, port) /\ NoRemove(a) /\ From(h, a, "package", "fail2ban")
  BY PackagePrepared, Fail2banEndList
<1> HIDE DEF a
<1>3. /\ Fits(h, a, b, port) /\ NoRemove(b)
      /\ Yields(b, "running", "fail2ban")
      /\ \A x : Yields(b, "jailed", x)
  BY <1>2, Fail2banEndFits
<1> HIDE DEF b
<1>4. /\ q \in Seq(AllSteps) /\ Fits(h, <<>>, q, port) /\ NoRemove(q)
  BY <1>2, <1>3, Joined, FitsJoined, NoRemoveJoined
<1>5. /\ From(h, q, "package", "fail2ban")
      /\ Yields(q, "running", "fail2ban")
      /\ \A x : Yields(q, "jailed", x)
  BY <1>2, <1>3, YieldsJoined DEF From
<1> HIDE DEF q
<1>6. ASSUME NEW k, NEW x, GoalOf("fail2ban", k, x, port) PROVE From(h, q, k, x)
  <2>1. \/ k = "package" /\ x = "fail2ban"
        \/ k = "running" /\ x = "fail2ban"
        \/ k = "jailed"
    BY <1>6 DEF GoalOf, PolicyFiles, Timers
  <2> QED BY <1>5, <2>1 DEF From
<1> QED BY <1>1, <1>4, <1>6, RemovesNever DEF Prepared

\* Whatever the host is like, the steps of a component fit it and set the component up.
LEMMA StepsPrepared ==
    ASSUME NEW h, GoodHost(h), NEW port \in Ports, NEW c \in Components
    PROVE  Prepared(h, c, Steps(h, c, port), port)
<1>1. CASE c = "directories"
  <2> DEFINE q == DirectorySteps
  <2>1. /\ q \in Seq(AllSteps) /\ Fits(h, <<>>, q, port) /\ NoRemove(q)
        /\ Yields(q, "file", "directories") /\ Yields(q, "file", "config")
    BY DirectoryList, DirectoryFits
  <2>2. Steps(h, c, port) = q
    BY <1>1 DEF Steps
  <2> HIDE DEF q
  <2>3. ASSUME NEW k, NEW x, GoalOf(c, k, x, port) PROVE From(h, q, k, x)
    <3>1. k = "file" /\ x \in {"directories", "config"}
      BY <1>1, <2>3 DEF GoalOf
    <3> QED BY <2>1, <3>1 DEF From
  <2> QED BY <2>1, <2>2, <2>3, RemovesNever DEF Prepared
<1>2. CASE c = "restic"
  <2> DEFINE q == ResticSteps
  <2>1. /\ q \in Seq(AllSteps) /\ Fits(h, <<>>, q, port) /\ NoRemove(q)
        /\ Yields(q, "package", "restic")
    BY ResticList, ResticFits
  <2>2. Steps(h, c, port) = q
    BY <1>2 DEF Steps
  <2> HIDE DEF q
  <2>3. ASSUME NEW k, NEW x, GoalOf(c, k, x, port) PROVE From(h, q, k, x)
    <3>1. k = "package" /\ x = "restic"
      BY <1>2, <2>3 DEF GoalOf
    <3> QED BY <2>1, <3>1 DEF From
  <2> QED BY <2>1, <2>2, <2>3, RemovesNever DEF Prepared
<1>3. CASE c = "update"
  <2> DEFINE q == UpdateSteps
  <2>1. q \in Seq(AllSteps) /\ Fits(h, <<>>, q, port) /\ NoRemove(q)
    BY UpdateList, UpdateFits
  <2>2. Steps(h, c, port) = q
    BY <1>3 DEF Steps
  <2> HIDE DEF q
  <2>3. \A k, x : ~GoalOf(c, k, x, port)
    BY <1>3 DEF GoalOf
  <2> QED BY <2>1, <2>2, <2>3, RemovesNever DEF Prepared
<1>4. CASE c = "docker"
  BY <1>4, DockerPrepared DEF Steps
<1>5. CASE c = "caddy"
  BY <1>5, CaddyPrepared DEF Steps
<1>6. CASE c = "upgrades"
  BY <1>6, UpgradesPrepared DEF Steps
<1>7. CASE c = "ufw"
  BY <1>7, UfwPrepared DEF Steps
<1>8. CASE c = "fail2ban"
  BY <1>8, Fail2banPrepared DEF Steps
<1> QED BY <1>1, <1>2, <1>3, <1>4, <1>5, <1>6, <1>7, <1>8 DEF Components

\* A component that is found healthy is set up already.
LEMMA HealthyGoals ==
    ASSUME NEW h, GoodHost(h), NEW port \in Ports, NEW c \in Components, Healthy(h, c, port),
           NEW k, NEW x, GoalOf(c, k, x, port)
    PROVE  Has(h, k, x)
<1>1. CASE c = "docker"
  <2>1. /\ "docker" \in h.packages /\ "docker" \in h.running /\ "conflict" \notin h.packages
        /\ {"docker-key", "docker-source", "rotation"} \subseteq h.files
    BY <1>1 DEF Healthy, DockerHealthy, GoodHost
  <2>2. \/ k = "package" /\ x = "docker"
        \/ k = "running" /\ x = "docker"
        \/ k = "clear"
        \/ k = "file" /\ x \in {"docker-key", "docker-source", "rotation"}
    BY <1>1 DEF GoalOf
  <2> QED BY <2>1, <2>2 DEF Has
<1>2. CASE c = "caddy"
  <2>1. "caddy" \in h.packages /\ "caddy" \in h.running
    BY <1>2 DEF Healthy, CaddyHealthy
  <2>2. k \in {"package", "running"} /\ x = "caddy"
    BY <1>2 DEF GoalOf
  <2> QED BY <2>1, <2>2 DEF Has
<1>3. CASE c = "restic"
  <2>1. "restic" \in h.packages
    BY <1>3 DEF Healthy
  <2>2. k = "package" /\ x = "restic"
    BY <1>3 DEF GoalOf
  <2> QED BY <2>1, <2>2 DEF Has
<1>4. CASE c = "upgrades"
  <2>1. "upgrades" \in h.packages /\ PolicyFiles \subseteq h.files /\ Timers \subseteq h.running
    BY <1>4 DEF Healthy, UpgradesHealthy
  <2>2. \/ k = "package" /\ x = "upgrades"
        \/ k = "file" /\ x \in PolicyFiles
        \/ k = "running" /\ x \in Timers
    BY <1>4 DEF GoalOf
  <2> QED BY <2>1, <2>2 DEF Has, Timers, PolicyFiles
<1>5. CASE c = "ufw"
  <2>1. /\ "ufw" \in h.packages /\ h.firewall.active /\ h.firewall.incoming = "deny"
        /\ \A p \in {port, 80, 443} : Shown(h, p)
    BY <1>5 DEF Healthy, UfwConfigured
  <2>2. \/ k = "package" /\ x = "ufw"
        \/ k \in {"active", "incoming"}
        \/ k = "shown" /\ x \in {port, 80, 443}
    BY <1>5 DEF GoalOf
  <2> QED BY <2>1, <2>2, PortFacts DEF Has
<1>6. CASE c = "fail2ban"
  <2>1. /\ "fail2ban" \in h.packages /\ "fail2ban" \in h.running /\ "jail" \in h.files
        /\ h.jailed
    BY <1>6 DEF Healthy, Fail2banHealthy
  <2>2. (k \in {"package", "running"} /\ x = "fail2ban") \/ k = "jailed"
    BY <1>6 DEF GoalOf
  <2> QED BY <2>1, <2>2 DEF Has
<1>7. CASE c \in {"directories", "update"}
  <2>1. ~Healthy(h, c, port)
    BY <1>7 DEF Healthy
  <2> QED BY <2>1
<1> QED BY <1>1, <1>2, <1>3, <1>4, <1>5, <1>6, <1>7 DEF Components

\* What the goals of a component come to.
LEMMA GoalsSetUp ==
    ASSUME NEW h, GoodHost(h), NEW port \in Ports, NEW c \in Components,
           \A k, x : GoalOf(c, k, x, port) => Has(h, k, x)
    PROVE  SetUp(h, c, {port, 80, 443} \ OnlyShown(h)) /\ c \notin Complaints(h)
<1>1. CASE c = "docker"
  <2>1. /\ GoalOf(c, "package", "docker", port) /\ GoalOf(c, "running", "docker", port)
        /\ GoalOf(c, "clear", c, port) /\ GoalOf(c, "file", "docker-key", port)
        /\ GoalOf(c, "file", "docker-source", port) /\ GoalOf(c, "file", "rotation", port)
    BY <1>1 DEF GoalOf
  <2>2. /\ "docker" \in h.packages /\ "docker" \in h.running /\ "conflict" \notin h.packages
        /\ {"docker-key", "docker-source", "rotation"} \subseteq h.files
    BY <2>1 DEF Has
  <2> QED BY <1>1, <2>2 DEF SetUp, Complaints
<1>2. CASE c = "caddy"
  <2>1. GoalOf(c, "package", "caddy", port) /\ GoalOf(c, "running", "caddy", port)
    BY <1>2 DEF GoalOf
  <2>2. "caddy" \in h.packages /\ "caddy" \in h.running
    BY <2>1 DEF Has
  <2> QED BY <1>2, <2>2 DEF SetUp, Complaints
<1>3. CASE c = "restic"
  <2>1. GoalOf(c, "package", "restic", port)
    BY <1>3 DEF GoalOf
  <2>2. "restic" \in h.packages
    BY <2>1 DEF Has
  <2> QED BY <1>3, <2>2 DEF SetUp, Complaints
<1>4. CASE c = "upgrades"
  <2>1. /\ GoalOf(c, "package", "upgrades", port)
        /\ \A x \in PolicyFiles : GoalOf(c, "file", x, port)
        /\ \A x \in Timers : GoalOf(c, "running", x, port)
    BY <1>4 DEF GoalOf
  <2>2. "upgrades" \in h.packages /\ PolicyFiles \subseteq h.files /\ Timers \subseteq h.running
    BY <2>1 DEF Has
  <2> QED BY <1>4, <2>2 DEF SetUp, Complaints, UpgradesHealthy
<1>5. CASE c = "ufw"
  <2>1. /\ GoalOf(c, "package", "ufw", port) /\ GoalOf(c, "active", c, port)
        /\ GoalOf(c, "incoming", c, port)
        /\ \A p \in {port, 80, 443} : GoalOf(c, "shown", p, port)
    BY <1>5 DEF GoalOf
  <2>2. /\ "ufw" \in h.packages /\ h.firewall.active /\ h.firewall.incoming = "deny"
        /\ \A p \in {port, 80, 443} : Shown(h, p)
    BY <2>1 DEF Has
  <2>3. {port, 80, 443} \ OnlyShown(h) \subseteq h.firewall.rules
    BY <2>2, PortFacts DEF OnlyShown
  <2> QED BY <1>5, <2>2, <2>3 DEF SetUp, Complaints
<1>6. CASE c = "fail2ban"
  <2>1. /\ GoalOf(c, "package", "fail2ban", port) /\ GoalOf(c, "running", "fail2ban", port)
        /\ GoalOf(c, "jailed", c, port)
    BY <1>6 DEF GoalOf
  <2>2. "fail2ban" \in h.packages /\ "fail2ban" \in h.running /\ h.jailed
    BY <2>1 DEF Has
  <2> QED BY <1>6, <2>2 DEF SetUp, Complaints
<1>7. CASE c = "directories"
  <2>1. GoalOf(c, "file", "directories", port) /\ GoalOf(c, "file", "config", port)
    BY <1>7 DEF GoalOf
  <2>2. {"directories", "config"} \subseteq h.files
    BY <2>1 DEF Has
  <2> QED BY <1>7, <2>2 DEF SetUp, Complaints
<1>8. CASE c = "update"
  BY <1>8 DEF SetUp, Complaints
<1> QED BY <1>1, <1>2, <1>3, <1>4, <1>5, <1>6, <1>7, <1>8 DEF Components

-----------------------------------------------------------------------------
(* A step, and what the operator changes, as the lists see them.             *)

\* What step i needs holds on host h or comes from a step from n on that is done before.
Backed(h, q, n, i, k, x) == Has(h, k, x) \/ \E j \in n..(i - 1) : Gives(q[j], k, x)

\* From step n on, what is needed is backed: in a command that is not disturbed all of
\* it, in every command what is lasting.
NeedsMet(h, q, n, port, calm) ==
    \A i \in n..Len(q) : \A k, x :
        Needs(q[i], k, x, port) /\ (calm \/ Lasting(k, x)) => Backed(h, q, n, i, k, x)

RemovesFrom(h, q, n) ==
    \A i \in n..Len(q) :
        q[i].do = "remove" =>
            "conflict" \in h.packages /\ \A j \in n..Len(q) : q[j].do = "remove" => j = i

\* What the next step needs holds: nothing is ahead of it.
LEMMA FirstStepBacked ==
    ASSUME NEW h, NEW q, NEW n \in Nat, n <= Len(q), Len(q) \in Nat, NEW port, NEW calm,
           NeedsMet(h, q, n, port, calm),
           NEW k, NEW x, Needs(q[n], k, x, port), calm \/ Lasting(k, x)
    PROVE  Has(h, k, x)
<1>1. n \in n..Len(q) /\ \A j \in n..(n - 1) : FALSE
  OBVIOUS
<1>2. Backed(h, q, n, n, k, x)
  BY <1>1 DEF NeedsMet
<1> QED BY <1>1, <1>2 DEF Backed

\* A step that is taken keeps the host good: Docker comes after the removal of the packages
\* that conflict with it.
LEMMA StepKeepsGood ==
    ASSUME NEW h, GoodHost(h), NEW s \in AllSteps, NEW port,
           \A k, x : Needs(s, k, x, port) /\ Lasting(k, x) => Has(h, k, x)
    PROVE  GoodHost(Effect(h, s))
<1> DEFINE g == Effect(h, s)
<1>0. /\ s.do \in Deeds /\ (s.do = "install" => s.of # "conflict")
      /\ (s.do = "allow" => s.of \in Ports) /\ WholeHost(h)
  BY StepTyped DEF GoodHost
<1>1. EffectOf(h, s, g)
  BY <1>0, Effects
<1>2. g.firewall.rules \subseteq Ports
  <2>1. g.firewall = FirewallAfter(h.firewall, s) /\ h.firewall.rules \subseteq Ports
    BY <1>1 DEF EffectOf, GoodHost
  <2> QED BY <1>0, <2>1 DEF FirewallAfter
<1>3. ASSUME "docker" \in g.packages PROVE "conflict" \notin g.packages
  <2>1. CASE s.do = "install" /\ s.of = "docker"
    <3>1. Needs(s, "clear", s.of, port) /\ Lasting("clear", s.of)
      BY <2>1 DEF Needs, Lasting
    <3>2. "conflict" \notin h.packages
      BY <3>1 DEF Has
    <3> QED BY <1>1, <2>1, <3>2 DEF EffectOf
  <2>2. CASE ~(s.do = "install" /\ s.of = "docker")
    <3>1. "docker" \in h.packages
      BY <1>1, <1>3, <2>2 DEF EffectOf
    <3>2. "conflict" \notin h.packages
      BY <3>1 DEF GoodHost
    <3> QED BY <1>0, <1>1, <3>2 DEF EffectOf
  <2> QED BY <2>1, <2>2
<1> QED BY <1>1, <1>2, <1>3 DEF GoodHost, EffectOf

\* From step n on, a source is written after its key, or the key is there.
KeysFirst(h, q, n) ==
    \A i \in n..Len(q), c \in Sourced :
        q[i].do = "file" /\ q[i].of = SourceOf(c) =>
            \/ KeyOf(c) \in h.files
            \/ \E j \in n..(i - 1) : q[j].do = "file" /\ q[j].of = KeyOf(c)

\* A step leaves no source without its key.
LEMMA StepKeepsKeys ==
    ASSUME NEW h, WholeHost(h), ~SourceWithoutKey(h), NEW q \in Seq(AllSteps),
           NEW n \in Nat \ {0}, n <= Len(q), KeysFirst(h, q, n)
    PROVE  ~SourceWithoutKey(Effect(h, q[n])) /\ KeysFirst(Effect(h, q[n]), q, n + 1)
<1> DEFINE s == q[n]
           g == Effect(h, s)
<1>1. /\ Len(q) \in Nat /\ n \in 1..Len(q) /\ s \in AllSteps /\ s.do \in Deeds
      /\ (s.do = "install" => s.of # "conflict")
  BY LenProperties, ElementOfSeq, StepTyped
<1> HIDE DEF s
<1>2. g.files = IF s.do = "file" THEN h.files \cup {s.of} ELSE h.files
  BY <1>1, Effects DEF EffectOf
<1> HIDE DEF g
<1>3. ASSUME NEW c \in Sourced, SourceOf(c) \in g.files
      PROVE  KeyOf(c) \in g.files
  <2>1. CASE SourceOf(c) \in h.files
    BY <1>2, <2>1 DEF SourceWithoutKey, Sourced
  <2>2. CASE SourceOf(c) \notin h.files
    <3>1. s.do = "file" /\ s.of = SourceOf(c)
      BY <1>2, <1>3, <2>2
    <3>2. n \in n..Len(q) /\ \A j \in n..(n - 1) : FALSE
      BY <1>1
    <3>3. KeyOf(c) \in h.files
      BY <3>1, <3>2 DEF KeysFirst, s
    <3> QED BY <1>2, <3>3
  <2> QED BY <2>1, <2>2
<1>4. ~SourceWithoutKey(g)
  BY <1>3 DEF SourceWithoutKey, Sourced
<1>5. ASSUME NEW i \in (n + 1)..Len(q), NEW c \in Sourced,
             q[i].do = "file" /\ q[i].of = SourceOf(c)
      PROVE  \/ KeyOf(c) \in g.files
             \/ \E j \in (n + 1)..(i - 1) : q[j].do = "file" /\ q[j].of = KeyOf(c)
  <2>1. i \in n..Len(q)
    BY <1>1
  <2>2. \/ KeyOf(c) \in h.files
        \/ \E j \in n..(i - 1) : q[j].do = "file" /\ q[j].of = KeyOf(c)
    BY <1>5, <2>1 DEF KeysFirst
  <2>3. CASE KeyOf(c) \in h.files
    BY <1>2, <2>3
  <2>4. ASSUME NEW j \in n..(i - 1), q[j].do = "file" /\ q[j].of = KeyOf(c)
        PROVE  \/ KeyOf(c) \in g.files
               \/ \E m \in (n + 1)..(i - 1) : q[m].do = "file" /\ q[m].of = KeyOf(c)
    <3>1. CASE j = n
      BY <1>2, <2>4, <3>1 DEF s
    <3>2. CASE j # n
      <4>1. j \in (n + 1)..(i - 1)
        BY <1>1, <3>2
      <4> QED BY <2>4, <4>1
    <3> QED BY <3>1, <3>2
  <2> QED BY <2>2, <2>3, <2>4
<1>6. KeysFirst(g, q, n + 1)
  BY <1>5 DEF KeysFirst
<1> QED BY <1>4, <1>6 DEF s, g

\* In steps that fit a host the keys come first.
LEMMA FittingKeys ==
    ASSUME NEW h, NEW q \in Seq(AllSteps), NEW port, Fits(h, <<>>, q, port)
    PROVE  KeysFirst(h, q, 1)
<1> SUFFICES ASSUME NEW i \in 1..Len(q), NEW c \in Sourced,
                    q[i].do = "file", q[i].of = SourceOf(c)
             PROVE  \/ KeyOf(c) \in h.files
                    \/ \E j \in 1..(i - 1) : q[j].do = "file" /\ q[j].of = KeyOf(c)
  BY DEF KeysFirst
<1>1. Needs(q[i], "file", KeyOf(c), port)
  BY DEF Needs
<1>2. From(h, <<>>, "file", KeyOf(c)) \/ \E j \in 1..(i - 1) : Gives(q[j], "file", KeyOf(c))
  BY <1>1 DEF Fits
<1>3. ~Yields(<<>>, "file", KeyOf(c))
  BY EmptySeq DEF Yields
<1>4. Has(h, "file", KeyOf(c)) => KeyOf(c) \in h.files
  BY DEF Has
<1>5. \A j \in 1..(i - 1) :
         Gives(q[j], "file", KeyOf(c)) => q[j].do = "file" /\ q[j].of = KeyOf(c)
  BY DEF Gives
<1> QED BY <1>2, <1>3, <1>4, <1>5 DEF From

\* What is ahead after a step.
LEMMA StepMeets ==
    ASSUME NEW h, GoodHost(h), NEW q \in Seq(AllSteps), NEW n \in Nat \ {0}, n <= Len(q),
           NEW port, NEW calm, NeedsMet(h, q, n, port, calm), RemovesFrom(h, q, n)
    PROVE  /\ \A k, x : Has(h, k, x) => Has(Effect(h, q[n]), k, x)
           /\ \A k, x : Gives(q[n], k, x) /\ (calm \/ Lasting(k, x))
                           => Has(Effect(h, q[n]), k, x)
           /\ NeedsMet(Effect(h, q[n]), q, n + 1, port, calm)
           /\ RemovesFrom(Effect(h, q[n]), q, n + 1)
           /\ GoodHost(Effect(h, q[n]))
<1> DEFINE s == q[n]
           g == Effect(h, s)
<1>0. /\ Len(q) \in Nat /\ n \in 1..Len(q) /\ s \in AllSteps /\ WholeHost(h)
      /\ s.do \in Deeds /\ (s.do = "install" => s.of # "conflict")
  BY LenProperties, ElementOfSeq, StepTyped DEF GoodHost
<1>1. s.do = "remove" => "conflict" \in h.packages
  BY <1>0 DEF RemovesFrom
<1>2. \A k, x : Needs(s, k, x, port) /\ (calm \/ Lasting(k, x)) => Has(h, k, x)
  BY <1>0, FirstStepBacked
<1> HIDE DEF s
<1>3. \A k, x : Has(h, k, x) => Has(g, k, x)
  BY <1>0, <1>1, HoldsOn
<1>4. ASSUME NEW k, NEW x, Gives(s, k, x), calm \/ Lasting(k, x) PROVE Has(g, k, x)
  <2>1. CASE Lasting(k, x)
    BY <1>0, <1>4, <2>1, GivesIt
  <2>2. CASE calm
    <3>1. \A k1, x1 : Needs(s, k1, x1, port) => Has(h, k1, x1)
      BY <1>2, <2>2
    <3> QED BY <1>0, <1>4, <3>1, GivesIt
  <2> QED BY <1>4, <2>1, <2>2
<1>5. GoodHost(g)
  BY <1>0, <1>2, StepKeepsGood
<1>6. EffectOf(h, s, g)
  BY <1>0, Effects
<1> HIDE DEF g
<1>7. ASSUME NEW i \in (n + 1)..Len(q), NEW k, NEW x, Needs(q[i], k, x, port),
             calm \/ Lasting(k, x)
      PROVE  Backed(g, q, n + 1, i, k, x)
  <2>1. i \in n..Len(q)
    BY <1>0
  <2>2. Backed(h, q, n, i, k, x)
    BY <1>7, <2>1 DEF NeedsMet
  <2>3. CASE Has(h, k, x)
    BY <1>3, <2>3 DEF Backed
  <2>4. CASE \E j \in n..(i - 1) : Gives(q[j], k, x)
    <3>1. PICK j \in n..(i - 1) : Gives(q[j], k, x)
      BY <2>4
    <3>2. CASE j = n
      BY <1>4, <1>7, <3>1, <3>2 DEF Backed, s
    <3>3. CASE j # n
      <4>1. j \in (n + 1)..(i - 1)
        BY <1>0, <3>3
      <4> QED BY <3>1, <4>1 DEF Backed
    <3> QED BY <3>2, <3>3
  <2> QED BY <2>2, <2>3, <2>4 DEF Backed
<1>8. NeedsMet(g, q, n + 1, port, calm)
  BY <1>7 DEF NeedsMet
<1>9. ASSUME NEW i \in (n + 1)..Len(q), q[i].do = "remove"
      PROVE  /\ "conflict" \in g.packages
             /\ \A j \in (n + 1)..Len(q) : q[j].do = "remove" => j = i
  <2>1. i \in n..Len(q) /\ n \in n..Len(q) /\ i # n
        /\ \A j \in (n + 1)..Len(q) : j \in n..Len(q)
    BY <1>0
  <2>2. "conflict" \in h.packages /\ \A j \in n..Len(q) : q[j].do = "remove" => j = i
    BY <1>9, <2>1 DEF RemovesFrom
  <2>3. s.do # "remove"
    BY <2>1, <2>2 DEF s
  <2>4. "conflict" \in g.packages
    BY <1>6, <2>2, <2>3 DEF EffectOf
  <2> QED BY <2>1, <2>2, <2>4
<1>10. RemovesFrom(g, q, n + 1)
  BY <1>9 DEF RemovesFrom
<1> QED BY <1>3, <1>4, <1>5, <1>8, <1>10 DEF s, g

\* What the operator or a restart of the host may change.
DriftsTo(h, g) ==
    /\ WholeHost(g)
    /\ g.firewall.rules = h.firewall.rules
    /\ g.firewall.active => h.firewall.active
    /\ g.packages \subseteq h.packages
    /\ "conflict" \in h.packages => "conflict" \in g.packages
    /\ g.files \subseteq h.files

\* What changes between the steps leaves what is lasting.
LEMMA DriftMeets ==
    ASSUME NEW h, GoodHost(h), NEW g, DriftsTo(h, g), NEW q, NEW n, NEW port, NEW calm,
           NeedsMet(h, q, n, port, calm), RemovesFrom(h, q, n)
    PROVE  NeedsMet(g, q, n, port, FALSE) /\ RemovesFrom(g, q, n)
<1>1. \A k, x : Has(h, k, x) /\ Lasting(k, x) => Has(g, k, x)
  BY DEF DriftsTo, Has, Lasting
<1>2. NeedsMet(g, q, n, port, FALSE)
  BY <1>1 DEF NeedsMet, Backed
<1>3. RemovesFrom(g, q, n)
  BY DEF RemovesFrom, DriftsTo
<1> QED BY <1>2, <1>3

\* A host stays good when the operator changes it.
LEMMA DriftKeepsGood ==
    ASSUME NEW h, GoodHost(h), NEW g, DriftsTo(h, g)
    PROVE  GoodHost(g)
  BY DEF GoodHost, DriftsTo

\* What Drift may change.
LEMMA Drifts ==
    ASSUME GoodHost(host), Drift
    PROVE  DriftsTo(host, host')
<1>0. WholeHost(host) /\ WholeFirewall(host.firewall)
  BY DEF GoodHost, WholeHost
<1>1. ASSUME NEW s \in host.running, host' = Stopped(host, {s}) PROVE DriftsTo(host, host')
  <2>1. StoppedAs(host, {s}, host')
    BY <1>0, <1>1, StoppedFields
  <2> QED BY <2>1 DEF StoppedAs, DriftsTo
<1>2. ASSUME NEW f \in host.files,
             host' = [host EXCEPT !.files = @ \ {f}]
      PROVE  DriftsTo(host, host')
  <2>1. PICK g : g = [host EXCEPT !.files = @ \ {f}]
    OBVIOUS
  <2>2. /\ g.packages = host.packages /\ g.files = host.files \ {f} /\ g.index = host.index
        /\ g.running = host.running /\ g.enabled = host.enabled
        /\ g.rotates = host.rotates /\ g.jailed = host.jailed /\ g.firewall = host.firewall
    BY <1>0, <2>1 DEF WholeHost
  <2>3. g = [packages |-> g.packages, files |-> g.files, index |-> g.index,
             running |-> g.running, enabled |-> g.enabled, rotates |-> g.rotates,
             jailed |-> g.jailed, firewall |-> g.firewall]
    BY <1>0, <2>1 DEF WholeHost
  <2>4. WholeHost(g)
    BY <1>0, <2>2, <2>3 DEF WholeHost
  <2> QED BY <1>2, <2>1, <2>2, <2>4 DEF DriftsTo
<1>3. ASSUME NEW p \in host.packages \ {"conflict"},
             host' = Stopped([host EXCEPT !.packages = @ \ {p}], {p})
      PROVE  DriftsTo(host, host')
  <2>1. PICK g : g = [host EXCEPT !.packages = @ \ {p}]
    OBVIOUS
  <2>2. /\ g.packages = host.packages \ {p} /\ g.files = host.files /\ g.index = host.index
        /\ g.running = host.running /\ g.enabled = host.enabled
        /\ g.rotates = host.rotates /\ g.jailed = host.jailed /\ g.firewall = host.firewall
    BY <1>0, <2>1 DEF WholeHost
  <2>3. g = [packages |-> g.packages, files |-> g.files, index |-> g.index,
             running |-> g.running, enabled |-> g.enabled, rotates |-> g.rotates,
             jailed |-> g.jailed, firewall |-> g.firewall]
    BY <1>0, <2>1 DEF WholeHost
  <2>4. WholeHost(g)
    BY <1>0, <2>2, <2>3 DEF WholeHost
  <2>5. StoppedAs(g, {p}, host')
    BY <1>3, <2>1, <2>4, StoppedFields
  <2> QED BY <1>3, <2>2, <2>5 DEF StoppedAs, DriftsTo
<1>4. ASSUME host.firewall.active, host' = [host EXCEPT !.firewall.active = FALSE]
      PROVE  DriftsTo(host, host')
  <2>1. PICK g : g = [host EXCEPT !.firewall.active = FALSE]
    OBVIOUS
  <2>2. /\ g.packages = host.packages /\ g.files = host.files /\ g.index = host.index
        /\ g.running = host.running /\ g.enabled = host.enabled
        /\ g.rotates = host.rotates /\ g.jailed = host.jailed
        /\ g.firewall = [host.firewall EXCEPT !.active = FALSE]
    BY <1>0, <2>1 DEF WholeHost
  <2>3. g = [packages |-> g.packages, files |-> g.files, index |-> g.index,
             running |-> g.running, enabled |-> g.enabled, rotates |-> g.rotates,
             jailed |-> g.jailed, firewall |-> g.firewall]
    BY <1>0, <2>1 DEF WholeHost
  <2>4. WholeFirewall(g.firewall) /\ g.firewall.rules = host.firewall.rules
    BY <1>0, <2>2 DEF WholeFirewall
  <2>5. WholeHost(g)
    BY <1>0, <2>2, <2>3, <2>4 DEF WholeHost
  <2> QED BY <1>4, <2>1, <2>2, <2>4, <2>5 DEF DriftsTo
<1>5. ASSUME host' = Started(Stopped(host, host.running), host.enabled)
      PROVE  DriftsTo(host, host')
  <2>1. PICK g : g = Stopped(host, host.running)
    OBVIOUS
  <2>2. StoppedAs(host, host.running, g)
    BY <1>0, <2>1, StoppedFields
  <2>3. WholeHost(g)
    BY <2>2 DEF StoppedAs
  <2>4. StartedAs(g, host.enabled, host')
    BY <1>5, <2>1, <2>3, StartedFields
  <2> QED BY <2>2, <2>4 DEF StoppedAs, StartedAs, DriftsTo
<1> QED BY <1>1, <1>2, <1>3, <1>4, <1>5 DEF Drift

-----------------------------------------------------------------------------
(* The invariant of the host's commands.                                     *)

CommandSet ==
    [status : {"none", "running", "refused", "failed", "success"}, pending : SUBSET Components,
     on : Components \cup {"none"}, steps : Seq(AllSteps), next : Nat \ {0},
     of : SUBSET Components, replace : BOOLEAN, port : Ports, undisturbed : BOOLEAN]

\* Each component that the command has reached is set up, or will be by what is ahead.
GoalsMet(h, c) ==
    \A d \in c.of \ c.pending : \A k, x :
        GoalOf(d, k, x, c.port) =>
            \/ Has(h, k, x)
            \/ /\ c.status = "running" /\ d = c.on
               /\ \E j \in c.next..Len(c.steps) : Gives(c.steps[j], k, x)

AheadMet(h, c) ==
    c.status = "running" =>
        NeedsMet(h, c.steps, c.next, c.port, c.undisturbed) /\ RemovesFrom(h, c.steps, c.next)
CalmMet(h, c) ==
    /\ c.status \in {"running", "success"} /\ c.undisturbed => GoalsMet(h, c)
    /\ c.status = "success" => c.pending = {}
SshLetIn(h, c, exc) ==
    ~exc => /\ h.firewall.active => Ssh \in h.firewall.rules
            /\ c.status = "running" => c.port = Ssh

\* A source has its key, unless the operator has taken a key away; and then a command may
\* fail that is not disturbed.
KeysMet(h, c, exc) ==
    /\ ~exc => ~SourceWithoutKey(h) /\ (c.status = "running" => KeysFirst(h, c.steps, c.next))
    /\ c.status = "failed" /\ c.undisturbed => exc /\ SourceWithoutKey(h)

\* How far a command has come that writes the rotation of the logs for a healthy Docker.
RotationMet(h, c) ==
    c.status \in {"running", "success"} /\ c.undisturbed /\ c.steps = RotationSteps =>
        /\ c.next >= 2 => "rotation" \in h.files
        /\ c.next >= 3 => h.rotates
        /\ c.status = "success" => c.next >= 3

SetupInv ==
    /\ GoodHost(host) /\ command \in CommandSet
    /\ AheadMet(host, command) /\ CalmMet(host, command) /\ SshLetIn(host, command, exempt)
    /\ KeysMet(host, command, keyless) /\ RotationMet(host, command)

\* The fields of a command.
LEMMA CommandFields ==
    ASSUME NEW c \in CommandSet
    PROVE  /\ c.status \in {"none", "running", "refused", "failed", "success"}
           /\ c.pending \subseteq Components /\ c.on \in Components \cup {"none"}
           /\ c.steps \in Seq(AllSteps) /\ c.next \in Nat \ {0} /\ Len(c.steps) \in Nat
           /\ c.of \subseteq Components
           /\ c.replace \in BOOLEAN /\ c.port \in Ports /\ c.undisturbed \in BOOLEAN
<1>1. c.steps \in Seq(AllSteps)
  BY DEF CommandSet
<1>2. Len(c.steps) \in Nat
  BY <1>1, LenProperties
<1> QED BY <1>1, <1>2 DEF CommandSet

\* The command before the first.
LEMMA NoCommandFields ==
    /\ NoCommand \in CommandSet
    /\ NoCommand.status = "none" /\ NoCommand.of = {} /\ NoCommand.pending = {}
    /\ NoCommand.undisturbed = TRUE /\ NoCommand.steps = <<>> /\ NoCommand.next = 1
<1>1. <<>> \in Seq(AllSteps)
  BY EmptySeq
<1> QED BY <1>1, PortFacts DEF NoCommand, CommandSet

\* A command that does not run asks nothing of the host.
LEMMA IdleCommand ==
    ASSUME NEW h, NEW c, c.status \in {"none", "refused"}, NEW exc, NEW lost,
           ~exc => (h.firewall.active => Ssh \in h.firewall.rules),
           ~lost => ~SourceWithoutKey(h)
    PROVE  /\ AheadMet(h, c) /\ CalmMet(h, c) /\ SshLetIn(h, c, exc)
           /\ KeysMet(h, c, lost) /\ RotationMet(h, c)
  BY DEF AheadMet, CalmMet, SshLetIn, KeysMet, RotationMet

\* The invariant holds of a host that is handed over.
LEMMA SetupStart == SetupInit => SetupInv
<1> SUFFICES ASSUME SetupInit PROVE SetupInv
  OBVIOUS
<1>1. PICK conflict \in SUBSET {"conflict"}, firewall \in Firewalls :
         host = [packages |-> conflict \cup (IF firewall.active THEN {"ufw"} ELSE {}),
                 files |-> {}, index |-> {},
                 running |-> IF conflict = {} THEN {} ELSE {"docker"},
                 enabled |-> IF conflict = {} THEN {} ELSE {"docker"},
                 rotates |-> FALSE, jailed |-> FALSE, firewall |-> firewall]
  BY DEF SetupInit
<1>2. WholeFirewall(firewall) /\ firewall.rules \subseteq Ports
  <2>1. CASE firewall = [active |-> FALSE, incoming |-> "deny", outgoing |-> "allow", rules |-> {}]
    BY <2>1 DEF WholeFirewall
  <2>2. CASE firewall \in [active : {TRUE}, incoming : {"allow", "deny"}, outgoing : {"allow"},
                          rules : {{Ssh}, Ports \ {Ssh}}]
    <3>1. firewall = [active |-> firewall.active, incoming |-> firewall.incoming,
                      outgoing |-> firewall.outgoing, rules |-> firewall.rules]
      BY <2>2
    <3>2. firewall.active = TRUE
      BY <2>2
    <3>3. firewall.rules = {Ssh} \/ firewall.rules = Ports \ {Ssh}
      BY <2>2
    <3>4. firewall.active \in BOOLEAN
      BY <3>2
    <3>5. firewall.rules \subseteq Ports
      <4>1. {Ssh} \subseteq Ports
        BY PortFacts
      <4> QED BY <3>3, <4>1
    <3> QED BY <3>1, <3>4, <3>5 DEF WholeFirewall
  <2> QED BY <2>1, <2>2 DEF Firewalls
<1>3. /\ host.packages = conflict \cup (IF firewall.active THEN {"ufw"} ELSE {})
      /\ host.files = {} /\ host.firewall = firewall
      /\ host.rotates = FALSE /\ host.jailed = FALSE
  BY <1>1
<1>4. host = [packages |-> host.packages, files |-> host.files, index |-> host.index,
              running |-> host.running, enabled |-> host.enabled, rotates |-> host.rotates,
              jailed |-> host.jailed, firewall |-> host.firewall]
  BY <1>1
<1>5. WholeHost(host)
  BY <1>2, <1>3, <1>4 DEF WholeHost
<1>6. GoodHost(host)
  BY <1>2, <1>3, <1>5 DEF GoodHost
<1>7. command = NoCommand /\ exempt = (host.firewall.active /\ Ssh \notin host.firewall.rules)
  BY DEF SetupInit
<1>8. ~exempt => (host.firewall.active => Ssh \in host.firewall.rules)
  BY <1>7
<1>9. command \in CommandSet /\ command.status \in {"none", "refused"}
  BY <1>7, NoCommandFields
<1>10. ~SourceWithoutKey(host)
  BY <1>3 DEF SourceWithoutKey
<1> QED BY <1>6, <1>8, <1>9, <1>10, IdleCommand DEF SetupInv

\* It is kept when a command begins: nothing is ahead, nothing has been reached.
LEMMA SetupBegin == SetupInv /\ Begin => SetupInv'
<1> SUFFICES ASSUME SetupInv, Begin PROVE SetupInv'
  OBVIOUS
<1>1. PICK cs \in Selections, replace \in BOOLEAN, port \in Ports \ {80, 443} :
         /\ command.status # "running" /\ runs < MaxRuns
         /\ "docker" \notin cs => ~replace
         /\ "ufw" \notin cs => port = Ssh
         /\ runs' = runs + 1
         /\ command' = [NoCommand EXCEPT !.status = "running", !.of = cs, !.replace = replace,
                                         !.port = port, !.pending = cs]
         /\ exempt' = (exempt \/ port # Ssh)
         /\ UNCHANGED <<host, keyless, breaks, drifts>>
  BY Zenon DEF Begin
<1>9. UNCHANGED <<host, keyless>>
  BY <1>1
<1>2. cs \subseteq Components
  BY DEF Selections, Installers, Components
<1>3. PICK c : c = [NoCommand EXCEPT !.status = "running", !.of = cs, !.replace = replace,
                                     !.port = port, !.pending = cs]
  OBVIOUS
<1>4. /\ c \in CommandSet
      /\ c.status = "running" /\ c.of = cs /\ c.pending = cs /\ c.port = port
      /\ c.steps = <<>> /\ c.next = 1
  BY <1>2, <1>3, NoCommandFields DEF CommandSet
<1>5. Len(c.steps) = 0 /\ \A i \in c.next..Len(c.steps) : FALSE
  BY <1>4, EmptySeq
<1>6. AheadMet(host, c)
  BY <1>5 DEF AheadMet, NeedsMet, RemovesFrom
<1>7. CalmMet(host, c)
  BY <1>4 DEF CalmMet, GoalsMet
<1>8. SshLetIn(host, c, exempt')
  BY <1>1, <1>4 DEF SetupInv, SshLetIn
<1>10. KeysMet(host, c, keyless)
  BY <1>4, <1>5 DEF SetupInv, KeysMet, KeysFirst
<1>11. RotationMet(host, c)
  BY <1>4 DEF RotationMet
<1> QED BY <1>1, <1>9, <1>3, <1>4, <1>6, <1>7, <1>8, <1>10, <1>11 DEF SetupInv

\* The goals of the components a command has been through.
LEMMA GoalsRested ==
    ASSUME NEW h, NEW c, GoalsMet(h, c), c.next \in Nat, Len(c.steps) \in Nat,
           c.next > Len(c.steps) \/ c.status # "running",
           NEW d \in c.of \ c.pending, NEW k, NEW x, GoalOf(d, k, x, c.port)
    PROVE  Has(h, k, x)
<1>1. c.next > Len(c.steps) => \A j \in c.next..Len(c.steps) : FALSE
  OBVIOUS
<1> QED BY <1>1 DEF GoalsMet

\* It is kept when an installer looks at the host: the component is healthy or its steps
\* are prepared for the host as it is.
LEMMA SetupNextComponent == SetupInv /\ NextComponent => SetupInv'
<1> SUFFICES ASSUME SetupInv, NextComponent PROVE SetupInv'
  OBVIOUS
<1>1. PICK c \in command.pending :
         command' = [command EXCEPT !.pending = @ \ {c}, !.on = c, !.next = 1,
                        !.steps = IF Healthy(host, c, command.port) THEN <<>>
                                  ELSE Steps(host, c, command.port)]
  BY DEF NextComponent
<1>2. /\ command \in CommandSet /\ GoodHost(host) /\ CalmMet(host, command)
      /\ SshLetIn(host, command, exempt)
      /\ command.status = "running" /\ command.next > Len(command.steps)
      /\ KeysMet(host, command, keyless) /\ UNCHANGED <<host, exempt, keyless>>
  BY DEF SetupInv, NextComponent, Rested, Running
<1>3. /\ c \in Components /\ command.port \in Ports /\ command.next \in Nat
      /\ Len(command.steps) \in Nat /\ command.undisturbed \in BOOLEAN
  BY <1>2, CommandFields
<1>4. PICK q : q = IF Healthy(host, c, command.port) THEN <<>> ELSE Steps(host, c, command.port)
  OBVIOUS
<1>5. Prepared(host, c, q, command.port)
  <2>1. CASE Healthy(host, c, command.port)
    <3>1. \A k, x : GoalOf(c, k, x, command.port) => From(host, <<>>, k, x)
      BY <1>2, <1>3, <2>1, HealthyGoals DEF From
    <3> QED BY <1>4, <2>1, <3>1, EmptyList DEF Prepared
  <2>2. CASE ~Healthy(host, c, command.port)
    BY <1>2, <1>3, <1>4, <2>2, StepsPrepared
  <2> QED BY <2>1, <2>2
<1>6. PICK d : d = [command EXCEPT !.pending = @ \ {c}, !.on = c, !.next = 1, !.steps = q]
  OBVIOUS
<1>7. q \in Seq(AllSteps) /\ Len(q) \in Nat
  BY <1>5, LenProperties DEF Prepared
<1>8. /\ d \in CommandSet
      /\ d.status = command.status /\ d.of = command.of /\ d.pending = command.pending \ {c}
      /\ d.on = c /\ d.next = 1 /\ d.steps = q /\ d.port = command.port
      /\ d.undisturbed = command.undisturbed
  <2>1. /\ d.status = command.status /\ d.of = command.of /\ d.pending = command.pending \ {c}
        /\ d.on = c /\ d.next = 1 /\ d.steps = q /\ d.port = command.port
        /\ d.undisturbed = command.undisturbed /\ d.replace = command.replace
    BY <1>2, <1>6 DEF CommandSet
  <2>2. d = [status |-> d.status, pending |-> d.pending, on |-> d.on, steps |-> d.steps,
             next |-> d.next, of |-> d.of, replace |-> d.replace, port |-> d.port,
             undisturbed |-> d.undisturbed]
    BY <1>2, <1>6 DEF CommandSet
  <2>3. /\ d.status \in {"none", "running", "refused", "failed", "success"}
        /\ d.pending \subseteq Components /\ d.on \in Components \cup {"none"}
        /\ d.steps \in Seq(AllSteps) /\ d.next \in Nat \ {0} /\ d.of \subseteq Components
        /\ d.replace \in BOOLEAN /\ d.port \in Ports /\ d.undisturbed \in BOOLEAN
    BY <1>2, <1>3, <1>7, <2>1, CommandFields
  <2>4. d \in CommandSet
    BY <2>2, <2>3 DEF CommandSet
  <2> QED BY <2>1, <2>4
<1>9. NeedsMet(host, q, 1, command.port, command.undisturbed)
  <2> SUFFICES ASSUME NEW i \in 1..Len(q), NEW k, NEW x, Needs(q[i], k, x, command.port)
               PROVE  Backed(host, q, 1, i, k, x)
    BY DEF NeedsMet
  <2>1. From(host, <<>>, k, x) \/ \E j \in 1..(i - 1) : Gives(q[j], k, x)
    BY <1>5 DEF Prepared, Fits
  <2>2. ~Yields(<<>>, k, x)
    BY EmptySeq DEF Yields
  <2> QED BY <2>1, <2>2 DEF Backed, From
<1>10. RemovesFrom(host, q, 1)
  BY <1>5 DEF Prepared, RemovesOnce, RemovesFrom
<1>11. AheadMet(host, d)
  BY <1>8, <1>9, <1>10 DEF AheadMet
<1>12. ASSUME d.undisturbed, NEW e \in d.of \ d.pending, NEW k, NEW x, GoalOf(e, k, x, d.port)
       PROVE  \/ Has(host, k, x)
              \/ /\ d.status = "running" /\ e = d.on
                 /\ \E j \in d.next..Len(d.steps) : Gives(d.steps[j], k, x)
  <2>1. CASE e = c
    <3>1. From(host, q, k, x)
      BY <1>5, <1>8, <1>12, <2>1 DEF Prepared
    <3> QED BY <1>2, <1>8, <2>1, <3>1 DEF From, Yields
  <2>2. CASE e # c
    <3>1. GoalsMet(host, command) /\ e \in command.of \ command.pending
      BY <1>2, <1>8, <1>12, <2>2 DEF CalmMet
    <3>2. Has(host, k, x)
      BY <1>2, <1>3, <1>8, <1>12, <3>1, GoalsRested
    <3> QED BY <3>2
  <2> QED BY <2>1, <2>2
<1>13. CalmMet(host, d)
  BY <1>2, <1>8, <1>12 DEF CalmMet, GoalsMet
<1>14. SshLetIn(host, d, exempt)
  BY <1>2, <1>8 DEF SshLetIn
<1>15. KeysFirst(host, q, 1)
  BY <1>5, <1>7, FittingKeys DEF Prepared
<1>16. KeysMet(host, d, keyless) /\ RotationMet(host, d)
  BY <1>2, <1>8, <1>15 DEF KeysMet, RotationMet
<1> QED BY <1>1, <1>2, <1>4, <1>6, <1>8, <1>11, <1>13, <1>14, <1>16 DEF SetupInv

\* It is kept when a conflicting Docker is refused.
LEMMA SetupRefuse == SetupInv /\ RefuseConflict => SetupInv'
<1> SUFFICES ASSUME SetupInv, RefuseConflict PROVE SetupInv'
  OBVIOUS
<1>1. PICK d : d = [command EXCEPT !.status = "refused"]
  OBVIOUS
<1>2. command' = d /\ UNCHANGED <<host, exempt, keyless>>
  BY <1>1 DEF RefuseConflict
<1>3. d \in CommandSet /\ d.status = "refused"
  BY <1>1 DEF SetupInv, CommandSet
<1> QED BY <1>2, <1>3, IdleCommand DEF SetupInv, SshLetIn, KeysMet

\* It is kept when a command succeeds: nothing is ahead, so every goal holds.
LEMMA SetupSucceed == SetupInv /\ Succeed => SetupInv'
<1> SUFFICES ASSUME SetupInv, Succeed PROVE SetupInv'
  OBVIOUS
<1>1. PICK d : d = [command EXCEPT !.status = "success"]
  OBVIOUS
<1>2. command' = d /\ UNCHANGED <<host, exempt, keyless>>
  BY <1>1 DEF Succeed
<1>3. /\ command \in CommandSet /\ CalmMet(host, command) /\ SshLetIn(host, command, exempt)
      /\ KeysMet(host, command, keyless) /\ RotationMet(host, command)
      /\ command.status = "running" /\ command.next > Len(command.steps)
      /\ command.pending = {} /\ command.next \in Nat /\ Len(command.steps) \in Nat
  BY CommandFields DEF SetupInv, Succeed, Rested, Running
<1>4. /\ d \in CommandSet /\ d.status = "success" /\ d.of = command.of
      /\ d.pending = command.pending /\ d.port = command.port
      /\ d.undisturbed = command.undisturbed
      /\ d.steps = command.steps /\ d.next = command.next
  BY <1>1, <1>3 DEF CommandSet
<1>5. ASSUME d.undisturbed, NEW e \in d.of \ d.pending, NEW k, NEW x, GoalOf(e, k, x, d.port)
      PROVE  Has(host, k, x)
  <2>1. GoalsMet(host, command)
    BY <1>3, <1>4, <1>5 DEF CalmMet
  <2> QED BY <1>3, <1>4, <1>5, <2>1, GoalsRested
<1>6. CalmMet(host, d)
  BY <1>3, <1>4, <1>5 DEF CalmMet, GoalsMet
<1>7. AheadMet(host, d) /\ SshLetIn(host, d, exempt)
  BY <1>3, <1>4 DEF AheadMet, SshLetIn
<1>8. KeysMet(host, d, keyless)
  BY <1>3, <1>4 DEF KeysMet
<1>9. RotationMet(host, d)
  <2>1. ASSUME command.steps = RotationSteps PROVE command.next >= 3
    <3>1. Len(command.steps) = 3
      BY <2>1, RepairList
    <3> QED BY <1>3, <3>1
  <2> QED BY <1>3, <1>4, <2>1 DEF RotationMet
<1> QED BY <1>2, <1>4, <1>6, <1>7, <1>8, <1>9 DEF SetupInv

\* A step's effect on what lets SSH in.
LEMMA StepLetsSshIn ==
    ASSUME NEW h, GoodHost(h), NEW s \in AllSteps, NEW port,
           \A k, x : Needs(s, k, x, port) /\ Lasting(k, x) => Has(h, k, x),
           h.firewall.active => port \in h.firewall.rules
    PROVE  LET g == Effect(h, s) IN g.firewall.active => port \in g.firewall.rules
<1> DEFINE g == Effect(h, s)
<1>0. s.do \in Deeds /\ WholeHost(h)
  BY StepTyped DEF GoodHost
<1>1. g.firewall = FirewallAfter(h.firewall, s)
  BY <1>0, Effects DEF EffectOf
<1>2. h.firewall.rules \subseteq g.firewall.rules
  BY <1>1 DEF FirewallAfter
<1>3. ASSUME g.firewall.active PROVE port \in h.firewall.rules
  <2>1. h.firewall.active \/ s.do = "activate"
    BY <1>1, <1>3, Activated
  <2>2. ASSUME s.do = "activate" PROVE port \in h.firewall.rules
    <3>1. Needs(s, "rule", port, port) /\ Lasting("rule", port)
      BY <2>2 DEF Needs, Lasting
    <3> QED BY <3>1 DEF Has
  <2> QED BY <2>1, <2>2
<1> QED BY <1>2, <1>3

\* What every step that is taken leaves.
LEMMA StepTaken ==
    ASSUME SetupInv, InStep
    PROVE  /\ TheStep \in AllSteps /\ WholeHost(host)
           /\ GoodHost(Effect(host, TheStep))
           /\ \A k, x : Has(host, k, x) => Has(Effect(host, TheStep), k, x)
           /\ \A k, x : Gives(TheStep, k, x) /\ command.undisturbed
                           => Has(Effect(host, TheStep), k, x)
           /\ NeedsMet(Effect(host, TheStep), command.steps, command.next + 1, command.port,
                       command.undisturbed)
           /\ RemovesFrom(Effect(host, TheStep), command.steps, command.next + 1)
           /\ command.undisturbed =>
                 Works(host, TheStep, command.port) \/ (keyless /\ SourceWithoutKey(host))
           /\ ~keyless => /\ ~SourceWithoutKey(Effect(host, TheStep))
                          /\ KeysFirst(Effect(host, TheStep), command.steps, command.next + 1)
           /\ ~exempt /\ Effect(host, TheStep).firewall.active
                 => Ssh \in Effect(host, TheStep).firewall.rules
<1>1. /\ command \in CommandSet /\ GoodHost(host) /\ WholeHost(host)
      /\ NeedsMet(host, command.steps, command.next, command.port, command.undisturbed)
      /\ RemovesFrom(host, command.steps, command.next)
      /\ command.next <= Len(command.steps)
  BY DEF SetupInv, AheadMet, InStep, Running, GoodHost
<1>2. /\ command.steps \in Seq(AllSteps) /\ command.next \in Nat \ {0}
      /\ Len(command.steps) \in Nat /\ command.port \in Ports
  BY <1>1, CommandFields
<1>3. command.next \in 1..Len(command.steps)
  BY <1>1, <1>2
<1>4. TheStep \in AllSteps
  BY <1>2, <1>3, ElementOfSeq DEF TheStep
<1>5. /\ \A k, x : Has(host, k, x) => Has(Effect(host, TheStep), k, x)
      /\ \A k, x : Gives(TheStep, k, x) /\ (command.undisturbed \/ Lasting(k, x))
                      => Has(Effect(host, TheStep), k, x)
      /\ NeedsMet(Effect(host, TheStep), command.steps, command.next + 1, command.port,
                  command.undisturbed)
      /\ RemovesFrom(Effect(host, TheStep), command.steps, command.next + 1)
      /\ GoodHost(Effect(host, TheStep))
  BY <1>1, <1>2, StepMeets DEF TheStep
<1>6. \A k, x : Needs(TheStep, k, x, command.port) /\ (command.undisturbed \/ Lasting(k, x))
                   => Has(host, k, x)
  BY <1>1, <1>2, FirstStepBacked DEF TheStep
<1>7. command.undisturbed =>
         Works(host, TheStep, command.port) \/ (keyless /\ SourceWithoutKey(host))
  <2>1. ~keyless => ~SourceWithoutKey(host)
    BY DEF SetupInv, KeysMet
  <2> QED BY <1>2, <1>4, <1>6, <2>1, NeedsSuffice
<1>9. ASSUME ~keyless
      PROVE  /\ ~SourceWithoutKey(Effect(host, TheStep))
             /\ KeysFirst(Effect(host, TheStep), command.steps, command.next + 1)
  <2>1. ~SourceWithoutKey(host) /\ KeysFirst(host, command.steps, command.next)
    BY <1>9 DEF SetupInv, KeysMet, InStep, Running
  <2> QED BY <1>1, <1>2, <2>1, StepKeepsKeys DEF TheStep
<1>8. ASSUME ~exempt, Effect(host, TheStep).firewall.active
      PROVE  Ssh \in Effect(host, TheStep).firewall.rules
  <2>1. command.port = Ssh /\ (host.firewall.active => Ssh \in host.firewall.rules)
    BY <1>8 DEF SetupInv, SshLetIn, InStep, Running
  <2> QED BY <1>1, <1>4, <1>6, <1>8, <2>1, StepLetsSshIn
<1> QED BY <1>1, <1>4, <1>5, <1>7, <1>8, <1>9

\* A step of the list that writes the rotation of the logs.
LEMMA RotationStep ==
    ASSUME NEW h, WholeHost(h), NEW c, RotationMet(h, c), NEW d, c.status = "running",
           d.status = "running", c.next \in Nat \ {0}, c.next <= Len(c.steps),
           d.steps = c.steps, d.next = c.next + 1, d.undisturbed = c.undisturbed
    PROVE  RotationMet(Effect(h, c.steps[c.next]), d)
<1> SUFFICES ASSUME d.undisturbed, d.steps = RotationSteps
             PROVE  /\ d.next >= 2 => "rotation" \in Effect(h, c.steps[c.next]).files
                    /\ d.next >= 3 => Effect(h, c.steps[c.next]).rotates
  BY DEF RotationMet
<1>1. /\ c.next >= 2 => "rotation" \in h.files
      /\ c.next >= 3 => h.rotates
  BY DEF RotationMet
<1>2. c.next = 1 \/ c.next = 2 \/ c.next = 3
  BY RepairList
<1>3. CASE c.next = 1
  <2>1. c.steps[c.next] = Step("file", "rotation")
    BY <1>3, RepairList
  <2>2. "rotation" \in Effect(h, Step("file", "rotation")).files
    BY DEF Effect, Step, WholeHost
  <2> QED BY <1>3, <2>1, <2>2
<1>4. CASE c.next = 2
  <2>1. c.steps[c.next] = Step("restart", "docker")
    BY <1>4, RepairList
  <2>2. Effect(h, Step("restart", "docker")) = Started(h, {"docker"})
    BY DEF Effect, Step
  <2>3. PICK g : g = Effect(h, c.steps[c.next])
    OBVIOUS
  <2>6. g = Started(h, {"docker"})
    BY <2>1, <2>2, <2>3
  <2>7. /\ g.files = h.files
        /\ g.rotates = IF "docker" \in {"docker"} THEN "rotation" \in h.files ELSE h.rotates
    BY <2>6 DEF Started, WholeHost
  <2>4. g.files = h.files /\ ("rotation" \in h.files => g.rotates)
    BY <2>7
  <2>5. "rotation" \in h.files
    BY <1>1, <1>4
  <2> QED BY <2>3, <2>4, <2>5
<1>5. CASE c.next = 3
  <2>1. c.steps[c.next] = Step("verify", "docker")
    BY <1>5, RepairList
  <2>2. Effect(h, Step("verify", "docker")) = h
    BY DEF Effect, Step
  <2> QED BY <1>1, <1>5, <2>1, <2>2
<1> QED BY <1>2, <1>3, <1>4, <1>5

\* It is kept by a step: what the step gives moves from what is ahead to what holds.
LEMMA SetupDoStep == SetupInv /\ DoStep => SetupInv'
<1> SUFFICES ASSUME SetupInv, DoStep PROVE SetupInv'
  OBVIOUS
<1>0. /\ InStep /\ command \in CommandSet /\ command.status = "running"
      /\ UNCHANGED <<exempt, keyless>>
  BY DEF SetupInv, DoStep, InStep, Running
<1>f. /\ command.next \in Nat \ {0} /\ Len(command.steps) \in Nat
      /\ command.next <= Len(command.steps) /\ command.undisturbed \in BOOLEAN
  BY <1>0, CommandFields DEF InStep
<1>1. CASE Works(host, TheStep, command.port)
  <2>1. host' = Effect(host, TheStep)
    BY <1>1 DEF DoStep
  <2>2. PICK d : d = [command EXCEPT !.next = @ + 1]
    OBVIOUS
  <2>3. command' = d
    BY <1>1, <2>2 DEF DoStep
  <2>4. /\ d \in CommandSet /\ d.status = "running" /\ d.of = command.of
        /\ d.pending = command.pending /\ d.port = command.port /\ d.on = command.on
        /\ d.steps = command.steps /\ d.next = command.next + 1
        /\ d.undisturbed = command.undisturbed
    BY <1>0, <1>f, <2>2 DEF CommandSet
  <2> DEFINE g == Effect(host, TheStep)
  <2>5. /\ GoodHost(g) /\ NeedsMet(g, d.steps, d.next, d.port, d.undisturbed)
        /\ RemovesFrom(g, d.steps, d.next)
        /\ \A k, x : Has(host, k, x) => Has(g, k, x)
        /\ \A k, x : Gives(TheStep, k, x) /\ d.undisturbed => Has(g, k, x)
        /\ ~exempt /\ g.firewall.active => Ssh \in g.firewall.rules
        /\ ~keyless => ~SourceWithoutKey(g) /\ KeysFirst(g, d.steps, d.next)
    BY <1>0, <2>4, StepTaken
  <2>10. host' = g
    BY <2>1
  <2>15. RotationMet(g, d)
    <3>1. RotationMet(host, command) /\ WholeHost(host)
      BY DEF SetupInv, GoodHost
    <3>2. RotationMet(Effect(host, command.steps[command.next]), d)
      BY <1>0, <1>f, <2>4, <3>1, RotationStep
    <3> QED BY <3>2 DEF TheStep
  <2> HIDE DEF g
  <2>6. AheadMet(g, d)
    BY <2>5 DEF AheadMet
  <2>7. SshLetIn(g, d, exempt)
    BY <1>0, <2>4, <2>5 DEF SetupInv, SshLetIn
  <2>8. ASSUME d.undisturbed, NEW e \in d.of \ d.pending, NEW k, NEW x, GoalOf(e, k, x, d.port)
        PROVE  \/ Has(g, k, x)
               \/ /\ d.status = "running" /\ e = d.on
                  /\ \E j \in d.next..Len(d.steps) : Gives(d.steps[j], k, x)
    <3>1. GoalsMet(host, command)
      BY <1>0, <2>4, <2>8 DEF SetupInv, CalmMet
    <3>2. CASE Has(host, k, x)
      BY <2>5, <3>2
    <3>3. CASE e = command.on
               /\ \E j \in command.next..Len(command.steps) : Gives(command.steps[j], k, x)
      <4>1. PICK j \in command.next..Len(command.steps) : Gives(command.steps[j], k, x)
        BY <3>3
      <4>2. CASE j = command.next
        BY <2>5, <2>8, <4>1, <4>2 DEF TheStep
      <4>3. CASE j # command.next
        <5>1. j \in d.next..Len(d.steps)
          BY <1>f, <2>4, <4>3
        <5> QED BY <2>4, <3>3, <4>1, <5>1
      <4> QED BY <4>2, <4>3
    <3> QED BY <2>4, <2>8, <3>1, <3>2, <3>3 DEF GoalsMet
  <2>9. CalmMet(g, d)
    BY <2>4, <2>8 DEF CalmMet, GoalsMet
  <2>11. command' = d /\ exempt' = exempt /\ keyless' = keyless
    BY <1>0, <2>3
  <2>16. KeysMet(g, d, keyless)
    BY <2>4, <2>5 DEF KeysMet
  <2>17. KeysMet(host', command', keyless') /\ RotationMet(host', command')
    BY <2>10, <2>11, <2>15, <2>16
  <2>12. GoodHost(host') /\ command' \in CommandSet
    BY <2>4, <2>5, <2>10, <2>11
  <2>13. AheadMet(host', command') /\ CalmMet(host', command')
    BY <2>6, <2>9, <2>10, <2>11
  <2>14. SshLetIn(host', command', exempt')
    BY <2>7, <2>10, <2>11
  <2> QED BY <2>12, <2>13, <2>14, <2>17 DEF SetupInv
<1>2. CASE ~Works(host, TheStep, command.port)
  <2>1. PICK d : d = [command EXCEPT !.status = "failed"]
    OBVIOUS
  <2>2. command' = d /\ UNCHANGED host
    BY <1>2, <2>1 DEF DoStep
  <2>3. d \in CommandSet /\ d.status = "failed" /\ d.undisturbed = command.undisturbed
    BY <1>0, <2>1 DEF CommandSet
  <2>4. d.undisturbed => keyless /\ SourceWithoutKey(host)
    BY <1>0, <1>2, <2>3, StepTaken
  <2>5. /\ AheadMet(host, d) /\ CalmMet(host, d) /\ SshLetIn(host, d, exempt)
        /\ KeysMet(host, d, keyless) /\ RotationMet(host, d)
    BY <2>3, <2>4 DEF AheadMet, CalmMet, SshLetIn, KeysMet, RotationMet, SetupInv
  <2> QED BY <1>0, <2>2, <2>3, <2>5 DEF SetupInv
<1> QED BY <1>1, <1>2

\* It is kept by a failure, before or after the effect: what is lasting stays.
LEMMA SetupBreaks == SetupInv /\ StepBreaks => SetupInv'
<1> SUFFICES ASSUME SetupInv, StepBreaks PROVE SetupInv'
  OBVIOUS
<1>0. InStep /\ command \in CommandSet /\ UNCHANGED <<exempt, keyless>>
  BY DEF SetupInv, StepBreaks
<1>1. PICK d : d = [command EXCEPT !.status = "failed", !.undisturbed = FALSE]
  OBVIOUS
<1>2. command' = d
  BY <1>1 DEF StepBreaks
<1>3. d \in CommandSet /\ d.status = "failed" /\ d.undisturbed = FALSE
  BY <1>0, <1>1 DEF CommandSet
<1>4. \A h : AheadMet(h, d) /\ CalmMet(h, d)
  BY <1>3 DEF AheadMet, CalmMet
<1>5. host' = host \/ host' = Effect(host, TheStep)
  BY DEF StepBreaks
<1>6. GoodHost(host')
  BY <1>0, <1>5, StepTaken DEF SetupInv
<1>7. ~exempt => (host'.firewall.active => Ssh \in host'.firewall.rules)
  BY <1>0, <1>5, StepTaken DEF SetupInv, SshLetIn
<1>8. SshLetIn(host', d, exempt)
  BY <1>3, <1>7 DEF SshLetIn
<1>9. ~keyless => ~SourceWithoutKey(host')
  <2>1. ~keyless => ~SourceWithoutKey(host) /\ ~SourceWithoutKey(Effect(host, TheStep))
    BY <1>0, StepTaken DEF SetupInv, KeysMet
  <2> QED BY <1>5, <2>1
<1>10. KeysMet(host', d, keyless) /\ RotationMet(host', d)
  BY <1>3, <1>9 DEF KeysMet, RotationMet
<1> QED BY <1>0, <1>2, <1>3, <1>4, <1>6, <1>8, <1>10 DEF SetupInv

\* It is kept when the operator changes the host: the command is disturbed.
LEMMA SetupDrift == SetupInv /\ Drift => SetupInv'
<1> SUFFICES ASSUME SetupInv, Drift PROVE SetupInv'
  OBVIOUS
<1>0. /\ GoodHost(host) /\ command \in CommandSet /\ UNCHANGED exempt
      /\ AheadMet(host, command) /\ SshLetIn(host, command, exempt)
      /\ KeysMet(host, command, keyless)
  BY DEF SetupInv, Drift
<1>1. DriftsTo(host, host')
  BY <1>0, Drifts
<1>2. GoodHost(host')
  BY <1>0, <1>1, DriftKeepsGood
<1>3. ~exempt => (host'.firewall.active => Ssh \in host'.firewall.rules)
  BY <1>0, <1>1 DEF SshLetIn, DriftsTo
<1>6. ~keyless' => ~keyless /\ \A c \in Sourced : KeyOf(c) \in host.files => KeyOf(c) \in host'.files
  BY DEF Drift, Sourced
<1>7. ~keyless' => ~SourceWithoutKey(host')
  BY <1>0, <1>1, <1>6 DEF KeysMet, SourceWithoutKey, DriftsTo, Sourced
<1>4. CASE Running
  <2>1. PICK d : d = [command EXCEPT !.undisturbed = FALSE]
    OBVIOUS
  <2>2. command' = d
    BY <1>4, <2>1 DEF Drift
  <2>3. /\ d \in CommandSet /\ d.status = "running" /\ d.undisturbed = FALSE
        /\ d.steps = command.steps /\ d.next = command.next /\ d.port = command.port
    BY <1>0, <1>4, <2>1 DEF CommandSet, Running
  <2>4. /\ NeedsMet(host, d.steps, d.next, d.port, command.undisturbed)
        /\ RemovesFrom(host, d.steps, d.next)
    BY <1>0, <1>4, <2>3 DEF AheadMet, Running
  <2>5. NeedsMet(host', d.steps, d.next, d.port, FALSE) /\ RemovesFrom(host', d.steps, d.next)
    BY <1>0, <1>1, <2>4, DriftMeets
  <2>6. AheadMet(host', d) /\ CalmMet(host', d)
    BY <2>3, <2>5 DEF AheadMet, CalmMet
  <2>7. SshLetIn(host', d, exempt)
    BY <1>0, <1>3, <1>4, <2>3 DEF SshLetIn, Running
  <2>8. ~keyless' => KeysFirst(host', d.steps, d.next)
    BY <1>0, <1>4, <1>6, <2>3 DEF KeysMet, KeysFirst, Running
  <2>9. KeysMet(host', d, keyless') /\ RotationMet(host', d)
    BY <1>7, <2>3, <2>8 DEF KeysMet, RotationMet
  <2> QED BY <1>0, <1>2, <2>2, <2>3, <2>6, <2>7, <2>9 DEF SetupInv
<1>5. CASE ~Running
  <2>1. command' = NoCommand
    BY <1>5 DEF Drift
  <2>2. command' \in CommandSet /\ command'.status \in {"none", "refused"}
    BY <2>1, NoCommandFields
  <2>3. /\ AheadMet(host', command') /\ CalmMet(host', command')
        /\ SshLetIn(host', command', exempt')
        /\ KeysMet(host', command', keyless') /\ RotationMet(host', command')
    <3>1. PICK h, c, lost : h = host' /\ c = command' /\ lost = keyless'
      OBVIOUS
    <3>2. /\ AheadMet(h, c) /\ CalmMet(h, c) /\ SshLetIn(h, c, exempt)
          /\ KeysMet(h, c, lost) /\ RotationMet(h, c)
      <4>1. c.status \in {"none", "refused"}
        BY <2>2, <3>1
      <4>2. ~exempt => (h.firewall.active => Ssh \in h.firewall.rules)
        BY <1>3, <3>1
      <4>3. ~lost => ~SourceWithoutKey(h)
        BY <1>7, <3>1
      <4> QED BY <4>1, <4>2, <4>3 DEF AheadMet, CalmMet, SshLetIn, KeysMet, RotationMet
    <3> QED BY <1>0, <3>1, <3>2
  <2>4. exempt' = exempt
    BY <1>0
  <2> QED BY <1>2, <2>2, <2>3, <2>4 DEF SetupInv
<1> QED BY <1>4, <1>5

\* The invariant of the commands on a host.
THEOREM SetupInvariance == SetupSpec => []SetupInv
<1>1. SetupInit => SetupInv
  BY SetupStart
<1>2. SetupInv /\ [SetupNext]_setupVars => SetupInv'
  <2>1. ASSUME SetupInv, UNCHANGED setupVars PROVE SetupInv'
    BY <2>1 DEF setupVars, SetupInv
  <2> QED BY <2>1, SetupBegin, SetupNextComponent, SetupRefuse, SetupSucceed, SetupDoStep,
             SetupBreaks, SetupDrift DEF SetupNext
<1> QED BY <1>1, <1>2, PTL DEF SetupSpec

\* A command that nothing external disturbs fails only while a key is missing that the
\* operator has taken away, and once it succeeds everything it names is set up and the
\* doctor does not complain of it, whatever earlier commands and the operator have left;
\* but for ports that are only shown, and for the rotation of the logs of a Docker that was
\* not restarted for it (runHostInstallers, the installers of internal/host).
THEOREM HostIsSetUp == SetupSpec => []UndisturbedRunSetsUp
<1>1. ASSUME SetupInv PROVE UndisturbedRunSetsUp
  <2>1. command.status = "failed" /\ command.undisturbed => keyless /\ SourceWithoutKey(host)
    BY <1>1 DEF SetupInv, KeysMet
  <2>2. ASSUME command.status = "success", command.undisturbed, NEW c \in command.of
        PROVE  /\ SetUp(host, c, {command.port, 80, 443} \ OnlyShown(host))
               /\ c \notin Complaints(host)
    <3>1. /\ GoodHost(host) /\ command.port \in Ports /\ c \in Components
          /\ command.next \in Nat /\ Len(command.steps) \in Nat
          /\ GoalsMet(host, command) /\ c \in command.of \ command.pending
      BY <1>1, <2>2, CommandFields DEF SetupInv, CalmMet
    <3>2. \A k, x : GoalOf(c, k, x, command.port) => Has(host, k, x)
      BY <2>2, <3>1, GoalsRested
    <3> QED BY <3>1, <3>2, GoalsSetUp
  <2>3. ASSUME command.status = "success", command.undisturbed, command.steps = RotationSteps
        PROVE  host.rotates
    BY <1>1, <2>3 DEF SetupInv, RotationMet
  <2> QED BY <2>1, <2>2, <2>3 DEF UndisturbedRunSetsUp
<1> QED BY <1>1, SetupInvariance, PTL

\* A firewall that keeps others out lets SSH in, at every step of every command and after
\* every failure (InstallUFW).
THEOREM SshStaysAllowed == SetupSpec => []FirewallKeepsSsh
<1>1. SetupInv => FirewallKeepsSsh
  BY DEF SetupInv, SshLetIn, FirewallKeepsSsh
<1> QED BY <1>1, SetupInvariance, PTL
=============================================================================
