-------------------------------- MODULE MCHost --------------------------------
(***************************************************************************)
(* The setup of a host and the services Omurga manages on it, for TLC.     *)
(* No command works on both, so a behaviour exercises one, its subject.    *)
(***************************************************************************)
EXTENDS HostSetup, ManagedServices, TLC

VARIABLE subject

Symmetric == Permutations(Clients)

\* The services do not depend on which host they are on.
Init ==
    /\ SetupInit /\ ManagedInit
    /\ \/ subject = "setup"
       \/ subject = "services" /\ host.packages = {}

Next ==
    \/ subject = "setup" /\ SetupNext /\ UNCHANGED <<managedVars, subject>>
    \/ subject = "services" /\ ManagedNext /\ UNCHANGED <<setupVars, subject>>

Spec == Init /\ [][Next]_<<setupVars, managedVars, subject>>
=============================================================================
