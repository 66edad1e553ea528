---------------------------- MODULE LeaseService ---------------------------
(***************************************************************************)
(* What the bastion's control plane promises, with no threads, files or    *)
(* failures in sight: a port belongs to one key at a time, a key keeps its *)
(* port until it is released, and a restart falls back to the last         *)
(* complete copy that was saved, never to a mixture of two.                *)
(***************************************************************************)
EXTENDS RegistryOps

VARIABLES lease,  \* the ports now held
          saved   \* the copy a restart comes back with

vars == <<lease, saved>>

Init == lease = EmptyRegistry /\ saved = EmptyRegistry

\* Any free port would do: which one is the implementation's choice.
Grant(k) ==
    /\ lease[k] = NoPort
    /\ \E p \in Ports \ Used(lease) : lease' = [lease EXCEPT ![k] = p]
    /\ UNCHANGED saved

Release(k) ==
    /\ lease[k] # NoPort
    /\ lease' = [lease EXCEPT ![k] = NoPort]
    /\ UNCHANGED saved

Save == saved' = lease /\ UNCHANGED lease

Restart == lease' = saved /\ UNCHANGED saved

Next == \/ \E k \in Composites : Grant(k) \/ Release(k)
        \/ Save
        \/ Restart

Spec == Init /\ [][Next]_vars
=============================================================================
