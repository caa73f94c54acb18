------------------------------- MODULE MCStores -------------------------------
(***************************************************************************)
(* The secret store and the configuration files, for TLC.  No command      *)
(* works on both, so a behaviour exercises one of the two, its subject;    *)
(* and the two share their model values, so that one symmetry serves both. *)
(***************************************************************************)
EXTENDS SecretStore, ConfigFiles, TLC

VARIABLE subject

Symmetric ==
    UNION {Permutations(S) : S \in {Commands, Projects, Names, Values}}

ASSUME SharedValues == Callers = Commands /\ Entries = Names /\ Hooks = Names
                         /\ Addresses = Values /\ SecretFiles = Values

Init == SecretInit /\ ConfigInit /\ subject \in {"secrets", "files"}

Next ==
    \/ subject = "secrets" /\ SecretNext /\ UNCHANGED <<configVars, subject>>
    \/ subject = "files" /\ ConfigNext /\ UNCHANGED <<secretVars, subject>>

Spec == Init /\ [][Next]_<<secretVars, configVars, subject>>

\* Every variable of the two has a value of its type.
TypeOK == SecretTypeOK /\ ConfigTypeOK

\* What a command that succeeded has stored stays stored, whatever fails or dies beside
\* it, and no credentials stay that no profile stands for.
StoredIsKept == SecretsKept /\ EntriesKept /\ LoginsHaveProfile
=============================================================================
