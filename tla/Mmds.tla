-------------------------------- MODULE Mmds --------------------------------
(***************************************************************************)
(* The refresh of the AWS credentials that each VM finds in its metadata:  *)
(* refresh_all_vm_mmds of mmds.rs, run by the timer of main.rs, for a      *)
(* server with use_iam_creds, where every entry has_iam_creds.             *)
(*                                                                         *)
(* A pass fetches the host's credentials, collects the sockets under the   *)
(* registry's mutex, and writes to one after the other without it.         *)
(* Meanwhile VMs are provisioned with credentials of their own fetch, and  *)
(* removed by a disconnect, the sweep or a reset. Credentials are numbered *)
(* as the host gets them.                                                  *)
(***************************************************************************)
EXTENDS Naturals

CONSTANTS
    Vms,
    MaxIssued       \* bound: credentials the host is given

ASSUME IssuedAssumption == MaxIssued \in Nat \ {0}

VARIABLES
    host,       \* the credentials the host has
    entry,      \* what became of each VM
    creds,      \* the credentials in its metadata
    pass,       \* the refresh task: at which await
    fresh,      \* the credentials of its last fetch
    sockets,    \* the VMs it still has to write to
    collected,  \* history: those it collected in the last pass
    failed      \* history: those it could not write to in that pass

passVars == <<pass, fresh, sockets, collected, failed>>
mmdsVars == <<host, entry, creds, passVars>>

Issued == 1..MaxIssued

MmdsTypeOK ==
    /\ host \in Issued /\ fresh \in 0..host
    /\ entry \in [Vms -> {"none", "booting", "registered", "removed"}]
    /\ creds \in [Vms -> 0..host]
    /\ pass \in {"waiting", "fetching", "writing", "aborted"}
    /\ sockets \subseteq collected /\ failed \subseteq collected /\ collected \subseteq Vms

MmdsInit ==
    /\ host = 1
    /\ entry = [v \in Vms |-> "none"] /\ creds = [v \in Vms |-> 0]
    /\ pass = "waiting" /\ fresh = 0
    /\ sockets = {} /\ collected = {} /\ failed = {}

HostRotates ==
    /\ host < MaxIssued /\ host' = host + 1
    /\ UNCHANGED <<entry, creds, passVars>>

-----------------------------------------------------------------------------
(* The VMs.                                                                *)

\* provision_new_vm: the credentials of the VM's configuration.
FetchForVm(v) ==
    /\ entry[v] = "none"
    /\ entry' = [entry EXCEPT ![v] = "booting"]
    /\ creds' = [creds EXCEPT ![v] = host]
    /\ UNCHANGED <<host, passVars>>

Register(v) ==
    /\ entry[v] = "booting"
    /\ entry' = [entry EXCEPT ![v] = "registered"]
    /\ UNCHANGED <<host, creds, passVars>>

Remove(v) ==
    /\ entry[v] = "registered"
    /\ entry' = [entry EXCEPT ![v] = "removed"]
    /\ UNCHANGED <<host, creds, passVars>>

-----------------------------------------------------------------------------
(* A pass.                                                                 *)

\* The timer ticks, and the request is answered.
Fetch ==
    /\ pass = "waiting"
    /\ pass' = "fetching" /\ fresh' = host
    /\ collected' = {} /\ failed' = {}
    /\ UNCHANGED <<host, entry, creds, sockets>>

\* No credentials: the VMs keep theirs until the next tick.
FetchFails ==
    /\ pass = "fetching"
    /\ pass' = "waiting"
    /\ UNCHANGED <<host, entry, creds, fresh, sockets, collected, failed>>

Collect ==
    /\ pass = "fetching"
    /\ pass' = "writing"
    /\ collected' = {v \in Vms : entry[v] = "registered"}
    /\ sockets' = collected'
    /\ UNCHANGED <<host, entry, creds, fresh, failed>>

\* put_mmds, to a VM that may have been removed since.
Write(v) ==
    /\ pass = "writing" /\ v \in sockets /\ entry[v] = "registered"
    /\ creds' = [creds EXCEPT ![v] = fresh]
    /\ sockets' = sockets \ {v}
    /\ UNCHANGED <<host, entry, pass, fresh, collected, failed>>

\* Bug: the first VM that cannot be written to ends the pass.
WriteFails_Stops(v) ==
    /\ pass = "writing" /\ v \in sockets
    /\ failed' = failed \cup {v} /\ sockets' = {}
    /\ UNCHANGED <<host, entry, creds, pass, fresh, collected>>

WriteFails(v) ==
    /\ pass = "writing" /\ v \in sockets
    /\ failed' = failed \cup {v} /\ sockets' = sockets \ {v}
    /\ UNCHANGED <<host, entry, creds, pass, fresh, collected>>

PassEnds ==
    /\ pass = "writing" /\ sockets = {}
    /\ pass' = "waiting"
    /\ UNCHANGED <<host, entry, creds, fresh, sockets, collected, failed>>

\* shutdown_signal, at any await.
Abort ==
    /\ pass # "aborted"
    /\ pass' = "aborted"
    /\ UNCHANGED <<host, entry, creds, fresh, sockets, collected, failed>>

-----------------------------------------------------------------------------
MmdsNext ==
    \/ HostRotates
    \/ \E v \in Vms : FetchForVm(v) \/ Register(v) \/ Remove(v)
    \/ Fetch \/ FetchFails \/ Collect
    \/ \E v \in Vms : Write(v) \/ WriteFails(v)
    \/ PassEnds \/ Abort

MmdsSpec == MmdsInit /\ [][MmdsNext]_mmdsVars

-----------------------------------------------------------------------------
\* Between two passes every VM that was in the registry when the last one
\* collected has the credentials of that pass, or newer ones, but for those it
\* could not write to: no other VM's failure or removal keeps them from it.
RefreshReachesAll ==
    pass = "waiting" =>
        \A v \in collected \ failed : entry[v] = "registered" => creds[v] >= fresh
=============================================================================
