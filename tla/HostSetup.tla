------------------------------- MODULE HostSetup -------------------------------
(***************************************************************************)
(* `host init`, `host install` and `host update` (cli/host.go, the         *)
(* installers of internal/host), and what `doctor` says of the host        *)
(* (host/doctor.go).                                                       *)
(*                                                                         *)
(* An installer looks at the host, leaves a healthy component alone and    *)
(* otherwise runs its steps, each a command or a file that is replaced.    *)
(* The first that fails ends the command, with all it has done left as it  *)
(* is: the command is run again and must cope with what it finds.          *)
(*                                                                         *)
(* What a step does to the host is external: apt, systemd, Docker, UFW and *)
(* Fail2ban, as far as the code relies on them.                            *)
(*  - apt-get update fails on a source without its key, and a package of   *)
(*    its own repository is found only after an update.                    *)
(*  - A package starts its service when it is installed; `enable --now`    *)
(*    does nothing to a service that runs.                                 *)
(*  - Docker reads daemon.json and Fail2ban its jails when they start.     *)
(* Simplifications: --dry-run only shows the steps; a key or a package     *)
(* list that cannot be downloaded is a step that fails; one command runs   *)
(* at a time.  Between commands an operator may change the host (Drift).   *)
(* Definitions named X_mistake are not part of the model: each is an       *)
(* erroneous variant of X, and a property must tell the two apart.         *)
(***************************************************************************)
EXTENDS Naturals, Sequences, FiniteSets

CONSTANTS
    Ssh,      \* the port the SSH server listens on
    Ports,    \* ports a firewall may allow, Ssh, 80 and 443 among them
    MaxRuns, MaxBreaks, MaxDrifts  \* bounds

ASSUME PortsAssumption ==
    /\ {Ssh, 80, 443} \subseteq Ports
    /\ \A p \in Ports : p \in Nat /\ 1 <= p /\ p <= 65535

VARIABLES
    host,     \* the facts about the host that the installers look at or change
    command,  \* the command that runs or the last one that ran
    exempt,   \* history: the operator's own firewall or port keeps SSH out
    keyless,  \* history: the operator has taken away the key of a repository
    runs, breaks, drifts

setupVars == <<host, command, exempt, keyless, runs, breaks, drifts>>

\* In the order of runHostInstallers, after the directories of `host init`.
Order == <<"directories", "docker", "caddy", "restic", "upgrades", "ufw", "fail2ban", "update">>
Installers == {"docker", "caddy", "restic", "upgrades", "ufw", "fail2ban"}
Selections == {{c} : c \in Installers} \cup
              {Installers, Installers \cup {"directories"}, {"update"}}

NoCommand == [status |-> "none", pending |-> {}, on |-> "none", steps |-> <<>>, next |-> 1,
              of |-> {}, replace |-> FALSE, port |-> Ssh, undisturbed |-> TRUE]

Firewalls ==
    {[active |-> FALSE, incoming |-> "deny", outgoing |-> "allow", rules |-> {}]} \cup
    [active : {TRUE}, incoming : {"allow", "deny"}, outgoing : {"allow"},
     rules : {{Ssh}, Ports \ {Ssh}}]

\* A host as it is handed over: without anything, or with Docker as the distribution
\* packages it; UFW is there when it has been configured.
SetupInit ==
    /\ \E conflict \in SUBSET {"conflict"}, firewall \in Firewalls :
          host = [packages |-> conflict \cup (IF firewall.active THEN {"ufw"} ELSE {}),
                  files |-> {}, index |-> {},
                  running |-> IF conflict = {} THEN {} ELSE {"docker"},
                  enabled |-> IF conflict = {} THEN {} ELSE {"docker"},
                  rotates |-> FALSE, jailed |-> FALSE, firewall |-> firewall]
    /\ command = NoCommand
    /\ exempt = (host.firewall.active /\ Ssh \notin host.firewall.rules) /\ keyless = FALSE
    /\ runs = 0 /\ breaks = 0 /\ drifts = 0

-----------------------------------------------------------------------------
(* What the code sees of the host.                                           *)

\* ufwConfigured looks for "22/tcp" in the output of `ufw status`, and finds it in
\* "2222/tcp" too: port q ends with the digits of port p.
EndsWith(q, p) == \E t \in {10, 100, 1000, 10000, 100000} : p < t /\ t <= 10 * p /\ q % t = p
Shown(h, p) == \E q \in h.firewall.rules : EndsWith(q, p)

UfwConfigured(h, port) ==
    /\ h.firewall.active /\ h.firewall.incoming = "deny" /\ h.firewall.outgoing = "allow"
    /\ \A p \in {port, 80, 443} : Shown(h, p)

\* The files of a repository.
KeyOf(c) == IF c = "docker" THEN "docker-key" ELSE "caddy-key"
SourceOf(c) == IF c = "docker" THEN "docker-source" ELSE "caddy-source"

DockerHealthy(h) ==
    /\ "docker" \in h.packages \cap h.running
    /\ {"docker-key", "docker-source"} \subseteq h.files

CaddyHealthy(h) ==
    /\ "caddy" \in h.packages \cap h.running
    /\ {"caddy-key", "caddy-source"} \subseteq h.files

PolicyFiles == {"periodic", "policy"}
Timers == {"apt-daily", "apt-daily-upgrade"}

UpgradesHealthy(h) ==
    "upgrades" \in h.packages /\ PolicyFiles \subseteq h.files /\ Timers \subseteq h.running

Fail2banHealthy(h) ==
    "fail2ban" \in h.packages \cap h.running /\ "jail" \in h.files /\ h.jailed

\* The check at the start of each installer.
Healthy(h, c, port) ==
    CASE c = "docker"   -> DockerHealthy(h) /\ "rotation" \in h.files
      [] c = "caddy"    -> CaddyHealthy(h)
      [] c = "restic"   -> "restic" \in h.packages
      [] c = "upgrades" -> UpgradesHealthy(h)
      [] c = "ufw"      -> "ufw" \in h.packages /\ UfwConfigured(h, port)
      [] c = "fail2ban" -> Fail2banHealthy(h)
      [] OTHER -> FALSE

\* Checks of the doctor that do not pass.
Complaints(h) ==
    (IF "directories" \in h.files THEN {} ELSE {"directories"}) \cup
    (IF UpgradesHealthy(h) THEN {} ELSE {"upgrades"}) \cup
    (IF "docker" \in h.running THEN {} ELSE {"docker"}) \cup
    (IF "caddy" \in h.packages \cap h.running THEN {} ELSE {"caddy"}) \cup
    (IF "ufw" \in h.packages /\ h.firewall.active THEN {} ELSE {"ufw"}) \cup
    (IF "fail2ban" \in h.packages \cap h.running /\ h.jailed THEN {} ELSE {"fail2ban"})

-----------------------------------------------------------------------------
(* The steps.                                                                *)

Step(do, of) == [do |-> do, of |-> of]

RepositorySteps_sourceFirst(c) ==
    <<Step("file", SourceOf(c)), Step("file", KeyOf(c)), Step("refresh", SourceOf(c))>>
\* The key is there before the source that names it, and the index after both.  The
\* index of every source is read again; the step names the one it is read for.
RepositorySteps(c) ==
    <<Step("file", KeyOf(c)), Step("file", SourceOf(c)), Step("refresh", SourceOf(c))>>

\* Packages of the distribution are installed only when they are not there.
PackageSteps(h, c) ==
    IF c \in h.packages THEN <<>> ELSE <<Step("refresh", "apt"), Step("install", c)>>

FirewallSteps_enableFirst(port) ==
    <<Step("deny", "incoming"), Step("permit", "outgoing"), Step("activate", "ufw"),
      Step("allow", port), Step("allow", 80), Step("allow", 443), Step("verify", "ufw")>>
\* SSH is allowed before the firewall is enabled.
FirewallSteps(port) ==
    <<Step("deny", "incoming"), Step("permit", "outgoing"), Step("allow", port),
      Step("allow", 80), Step("allow", 443), Step("activate", "ufw"), Step("verify", "ufw")>>

DirectorySteps == <<Step("file", "directories"), Step("file", "config")>>

\* A Docker that is healthy lacks only the rotation of its logs.
RotationSteps == <<Step("file", "rotation"), Step("restart", "docker"), Step("verify", "docker")>>
DockerSteps(h) ==
    IF DockerHealthy(h)
    THEN RotationSteps
    ELSE <<Step("refresh", "apt"), Step("install", "curl")>>
         \o (IF "conflict" \in h.packages THEN <<Step("remove", "conflict")>> ELSE <<>>)
         \o RepositorySteps("docker")
         \o <<Step("install", "docker"), Step("file", "rotation"), Step("enable", "docker"),
              Step("verify", "docker")>>

CaddySteps ==
    <<Step("refresh", "apt"), Step("install", "gnupg")>> \o RepositorySteps("caddy")
    \o <<Step("install", "caddy"), Step("enable", "caddy"), Step("verify", "caddy")>>

ResticSteps == <<Step("refresh", "apt"), Step("install", "restic"), Step("verify", "restic")>>

UpgradesSteps(h) ==
    PackageSteps(h, "upgrades")
    \o <<Step("file", "periodic"), Step("file", "policy"), Step("enable", "apt-daily"),
         Step("enable", "apt-daily-upgrade"), Step("verify", "apt-daily"),
         Step("verify", "apt-daily-upgrade")>>

Fail2banSteps(h) ==
    PackageSteps(h, "fail2ban")
    \o <<Step("file", "jail"), Step("enable", "fail2ban"), Step("reload", "fail2ban"),
         Step("verify", "fail2ban")>>

UpdateSteps == <<Step("refresh", "apt"), Step("upgrade", "apt")>>

\* The steps of component c on the host it found.
Steps(h, c, port) ==
    CASE c = "directories" -> DirectorySteps
      [] c = "docker"   -> DockerSteps(h)
      [] c = "caddy"    -> CaddySteps
      [] c = "restic"   -> ResticSteps
      [] c = "upgrades" -> UpgradesSteps(h)
      [] c = "ufw"      -> PackageSteps(h, "ufw") \o FirewallSteps(port)
      [] c = "fail2ban" -> Fail2banSteps(h)
      [] c = "update"   -> UpdateSteps

\* Without --replace-conflicting-docker the distribution's packages are not touched.
Refuses(h, c) == c = "docker" /\ ~DockerHealthy(h) /\ "conflict" \in h.packages /\ ~command.replace

Services == {"docker", "caddy", "fail2ban"}
PackageOf(service) == IF service \in Timers THEN "apt" ELSE service

\* A step succeeds when nothing external fails.
Works(h, s, port) ==
    CASE s.do = "refresh" ->
            \A c \in {"docker", "caddy"} : SourceOf(c) \in h.files => KeyOf(c) \in h.files
      [] s.do = "install" -> s.of \in {"docker", "caddy"} => s.of \in h.index
      [] s.do = "file" -> s.of = "caddy-key" => "gnupg" \in h.packages
      [] s.do \in {"enable", "restart"} -> PackageOf(s.of) \in h.packages \cup {"apt"}
      [] s.do = "reload" -> "fail2ban" \in h.running
      [] s.do \in {"deny", "permit", "allow", "activate"} -> "ufw" \in h.packages
      [] s.do = "verify" /\ s.of = "restic" -> "restic" \in h.packages
      [] s.do = "verify" /\ s.of = "fail2ban" -> h.jailed
      [] s.do = "verify" /\ s.of = "ufw" -> UfwConfigured(h, port)
      [] s.do = "verify" /\ s.of \notin {"restic", "fail2ban", "ufw"} -> s.of \in h.running
      [] OTHER -> TRUE

\* Services that start read their configuration.
Started(h, services) ==
    [h EXCEPT !.running = @ \cup services,
              !.rotates = IF "docker" \in services THEN "rotation" \in h.files ELSE @,
              !.jailed = IF "fail2ban" \in services THEN "jail" \in h.files ELSE @]
Stopped(h, services) ==
    [h EXCEPT !.running = @ \ services, !.rotates = @ /\ "docker" \notin services,
              !.jailed = @ /\ "fail2ban" \notin services]

Effect(h, s) ==
    CASE s.do = "refresh" -> [h EXCEPT !.index = {c \in {"docker", "caddy"} : SourceOf(c) \in h.files}]
      [] s.do = "install" ->
            LET new == {s.of} \cap (Services \ h.running) IN
            Started([h EXCEPT !.packages = @ \cup {s.of}, !.enabled = @ \cup new], new)
      [] s.do = "remove" ->
            Stopped([h EXCEPT !.packages = @ \ {"conflict"}, !.enabled = @ \ {"docker"}], {"docker"})
      [] s.do = "file" -> [h EXCEPT !.files = @ \cup {s.of}]
      [] s.do = "enable" -> Started([h EXCEPT !.enabled = @ \cup {s.of}], {s.of} \ h.running)
      [] s.do = "restart" -> Started(h, {s.of})
      [] s.do = "upgrade" -> Started(h, Services \cap h.packages \cap h.running)
      [] s.do = "reload" -> [h EXCEPT !.jailed = "jail" \in h.files]
      [] s.do = "deny" -> [h EXCEPT !.firewall.incoming = "deny"]
      [] s.do = "permit" -> [h EXCEPT !.firewall.outgoing = "allow"]
      [] s.do = "allow" -> [h EXCEPT !.firewall.rules = @ \cup {s.of}]
      [] s.do = "activate" -> [h EXCEPT !.firewall.active = TRUE]
      [] s.do = "verify" -> h

-----------------------------------------------------------------------------
(* The commands.                                                             *)

Begin == \E cs \in Selections, replace \in BOOLEAN, port \in Ports \ {80, 443} :
    /\ command.status # "running" /\ runs < MaxRuns
    /\ "docker" \notin cs => ~replace
    /\ "ufw" \notin cs => port = Ssh
    /\ runs' = runs + 1
    /\ command' = [NoCommand EXCEPT !.status = "running", !.of = cs, !.replace = replace, !.port = port,
                                    !.pending = cs]
    /\ exempt' = (exempt \/ port # Ssh)
    /\ UNCHANGED <<host, keyless, breaks, drifts>>

Running == command.status = "running"

Rested == Running /\ command.next > Len(command.steps)

\* c is the next of those to come.
Comes(c) ==
    \E i \in DOMAIN Order :
        /\ Order[i] = c /\ c \in command.pending
        /\ \A k \in 1..(i - 1) : Order[k] \notin command.pending

\* The next installer looks at the host.
NextComponent ==
    /\ Rested
    /\ \E c \in command.pending :
         /\ Comes(c) /\ ~Refuses(host, c)
         /\ command' = [command EXCEPT
               !.pending = @ \ {c}, !.on = c, !.next = 1,
               !.steps = IF Healthy(host, c, command.port) THEN <<>>
                         ELSE Steps(host, c, command.port)]
    /\ UNCHANGED <<host, exempt, keyless, runs, breaks, drifts>>

RefuseConflict ==
    /\ Rested
    /\ \E c \in command.pending : Comes(c) /\ Refuses(host, c)
    /\ command' = [command EXCEPT !.status = "refused"]
    /\ UNCHANGED <<host, exempt, keyless, runs, breaks, drifts>>

InStep == Running /\ command.next <= Len(command.steps)
TheStep == command.steps[command.next]

DoStep ==
    /\ InStep
    /\ IF Works(host, TheStep, command.port)
       THEN /\ host' = Effect(host, TheStep)
            /\ command' = [command EXCEPT !.next = @ + 1]
       ELSE /\ command' = [command EXCEPT !.status = "failed"]
            /\ UNCHANGED host
    /\ UNCHANGED <<exempt, keyless, runs, breaks, drifts>>

Succeed ==
    /\ Rested /\ command.pending = {}
    /\ command' = [command EXCEPT !.status = "success"]
    /\ UNCHANGED <<host, exempt, keyless, runs, breaks, drifts>>

\* A command, a download or a write fails, before or after it took effect, or the
\* process dies: nothing is undone.
StepBreaks ==
    /\ InStep /\ breaks < MaxBreaks
    /\ breaks' = breaks + 1
    /\ \/ UNCHANGED host
       \/ Works(host, TheStep, command.port) /\ host' = Effect(host, TheStep)
    /\ command' = [command EXCEPT !.status = "failed", !.undisturbed = FALSE]
    /\ UNCHANGED <<exempt, keyless, runs, drifts>>

\* The operator, or the host's restart, changes what the installers have set up.
Drift ==
    /\ drifts < MaxDrifts
    /\ drifts' = drifts + 1
    /\ \/ \E s \in host.running : host' = Stopped(host, {s})
       \/ \E f \in host.files : host' = [host EXCEPT !.files = @ \ {f}]
       \/ \E p \in host.packages \ {"conflict"} :
             host' = Stopped([host EXCEPT !.packages = @ \ {p}], {p})
       \/ host.firewall.active /\ host' = [host EXCEPT !.firewall.active = FALSE]
       \/ host' = Started(Stopped(host, host.running), host.enabled)
    /\ keyless' = (keyless \/ \E c \in {"docker", "caddy"} : KeyOf(c) \in host.files \ host'.files)
    /\ command' = IF Running THEN [command EXCEPT !.undisturbed = FALSE] ELSE NoCommand
    /\ UNCHANGED <<exempt, runs, breaks>>

SetupNext ==
    Begin \/ NextComponent \/ RefuseConflict \/ DoStep \/ Succeed \/ StepBreaks \/ Drift

SetupSpec == SetupInit /\ [][SetupNext]_setupVars

-----------------------------------------------------------------------------
(* Properties.                                                               *)

\* Component c is set up, with the firewall open for ports.
SetUp(h, c, ports) ==
    CASE c = "docker"   -> /\ "docker" \in h.packages \cap h.running /\ "conflict" \notin h.packages
                           /\ {"docker-key", "docker-source", "rotation"} \subseteq h.files
      [] c = "caddy"    -> "caddy" \in h.packages \cap h.running
      [] c = "restic"   -> "restic" \in h.packages
      [] c = "upgrades" -> PolicyFiles \subseteq h.files /\ Timers \subseteq h.running
      [] c = "ufw"      -> /\ h.firewall.active /\ h.firewall.incoming = "deny"
                           /\ ports \subseteq h.firewall.rules
      [] c = "fail2ban" -> "fail2ban" \in h.running /\ h.jailed
      [] c = "directories" -> {"directories", "config"} \subseteq h.files
      [] OTHER -> TRUE

\* apt cannot refresh: a source names a key that is not there.
SourceWithoutKey(h) ==
    \E c \in {"docker", "caddy"} : SourceOf(c) \in h.files /\ KeyOf(c) \notin h.files

\* Ports that are taken for allowed because a port that ends with their digits is.
OnlyShown(h) == {p \in Ports : Shown(h, p) /\ p \notin h.firewall.rules}

\* A command that nothing external disturbs succeeds, whatever earlier ones have left
\* half done and the operator has taken away since, and then everything it names is
\* set up and the doctor has no complaint about it.  Three exceptions are the code's:
\*  - it fails while a key is missing that the operator has taken away, since it
\*    refreshes the indexes before it puts the key back;
\*  - a port that is only shown ("2222/tcp" for "22/tcp") is not allowed;
\*  - the log rotation of Docker is written, but is in effect only when Docker was
\*    restarted for it: a Docker that is installed starts before the file is written,
\*    and one that is found with the file is left alone.
UndisturbedRunSetsUp ==
    /\ command.status = "failed" /\ command.undisturbed => keyless /\ SourceWithoutKey(host)
    /\ command.status = "success" /\ command.undisturbed =>
          /\ \A c \in command.of :
                /\ SetUp(host, c, {command.port, 80, 443} \ OnlyShown(host))
                /\ c \notin Complaints(host)
          /\ command.steps = RotationSteps => host.rotates

\* A firewall that keeps others out lets SSH in, at every step and after every failure;
\* unless it was active without a rule for SSH before, or was told another port.
\* (InstallUFW.)
FirewallKeepsSsh ==
    exempt \/ ~host.firewall.active \/ host.firewall.incoming # "deny" \/ Ssh \in host.firewall.rules
=============================================================================
