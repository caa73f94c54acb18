------------------------------- MODULE PortTable -------------------------------
(***************************************************************************)
(* What the state database promises to the rest of the program about the   *)
(* gateway ports and the deployments: an assignment is one host port of    *)
(* the managed range that no other key has, and stays until its owner is   *)
(* deleted; who asks for several ports gets all of them at once or none;   *)
(* an owner's assignments and its deployment go together.                  *)
(***************************************************************************)
CONSTANTS Procs,    \* those who ask
          Owners,   \* pairs of a project and an environment
          Targets,  \* pairs of a service and a container port
          HostPorts,
          Nil       \* no assignment

VARIABLES assigned,  \* the assignments
          recorded,  \* the owners with a deployment
          asked      \* asked[p]: the keys that p waits for

Keys == Owners \X Targets

Requests == {{o} \X W : o \in Owners, W \in SUBSET Targets}

Injective(f) ==
    \A k, l \in Keys : (k # l /\ f[k] # Nil) => f[k] # f[l]

Init ==
    /\ assigned \in [Keys -> HostPorts \cup {Nil}] /\ Injective(assigned)
    /\ recorded = {}
    /\ asked = [p \in Procs |-> {}]

Ask(p) ==
    /\ asked[p] = {}
    /\ \E K \in Requests : asked' = [asked EXCEPT ![p] = K]
    /\ UNCHANGED <<assigned, recorded>>

\* All that was asked for is assigned, and nothing else changes.
Grant(p) ==
    /\ assigned' \in [Keys -> HostPorts \cup {Nil}] /\ Injective(assigned')
    /\ \A k \in asked[p] : assigned'[k] # Nil
    /\ \A k \in Keys : (k \notin asked[p] \/ assigned[k] # Nil) => assigned'[k] = assigned[k]
    /\ asked' = [asked EXCEPT ![p] = {}]
    /\ UNCHANGED recorded

Refuse(p) == asked' = [asked EXCEPT ![p] = {}] /\ UNCHANGED <<assigned, recorded>>

Record(o) == recorded' = recorded \cup {o} /\ UNCHANGED <<assigned, asked>>

Release(o) ==
    /\ assigned' = [k \in Keys |-> IF k[1] = o THEN Nil ELSE assigned[k]]
    /\ recorded' = recorded \ {o}
    /\ UNCHANGED asked

Next ==
    \/ \E p \in Procs : Ask(p) \/ Grant(p) \/ Refuse(p)
    \/ \E o \in Owners : Record(o) \/ Release(o)

Spec == Init /\ [][Next]_<<assigned, recorded, asked>>
=============================================================================
