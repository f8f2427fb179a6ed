----------------------------- MODULE MCImports -----------------------------
(***************************************************************************)
(* The import providers of OLVM, Hyper-V and Proxmox, one at a time: the   *)
(* tasks and the platform are those of ImportCalls, and the methods those  *)
(* of the provider.                                                        *)
(***************************************************************************)
EXTENDS ImportCalls

CONSTANT Providers   \* those which are checked

VARIABLES network,   \* OLVM's
          provider

mcVars == <<vars, network, provider>>

Olvm == INSTANCE OlvmImport
Hyperv == INSTANCE HypervImport
Proxmox == INSTANCE ProxmoxImport

MCInit ==
  /\ provider \in Providers
  /\ Init
  /\ IF provider = "olvm" THEN Olvm!OlvmInit ELSE network = Olvm!NoNetwork

MCNext ==
  /\ UNCHANGED provider
  /\ \/ provider = "olvm" /\ Olvm!OlvmNext
     \/ provider = "hyperv" /\ Hyperv!HypervNext /\ UNCHANGED network
     \/ provider = "proxmox" /\ Proxmox!ProxmoxNext /\ UNCHANGED network

MCSpec == MCInit /\ [][MCNext]_mcVars

-----------------------------------------------------------------------------
\* Before REPLICATE_DISKS, deploy_replica_disks has extended every volume which
\* was kept to the size of the source's disk, with the providers which resize.
SourceFitsResized == provider # "proxmox" => SourceFits

\* With Hyper-V, whose copies have names of their own, the VM which is started
\* has the data of the last transfer execution on every disk.
StartedCurrentHyperv == provider = "hyperv" => StartedCurrent

\* _ensure_network_and_vnic_profile never gives a NIC a profile of a network
\* of another VLAN than its source's.
NicOnItsVlan == network.used => network.vlan = Olvm!SourceVlan

\* A volume which volumes_info has is removed only by delete_replica_disks, or
\* with the VM which it was deployed to without cloning, or after a failure to
\* detach it from its VM was logged: the replica survives failed executions.
ReplicaKept ==
  [][\A i \in DOMAIN volumes_info :
       volumes_info[i] \in DOMAIN disk \ DOMAIN disk' =>
         \/ method = "delete_replica_disks" \/ warned
         \/ LET v == disk[volumes_info[i]].at
            IN v # 0 /\ vm[v].kind = "target"]_mcVars

\* If no call has failed, the cleanup tasks leave nothing of the minions behind
\* between the executions: neither a VM nor a VM's own disk.
NoMinionLeft ==
  method = "idle" /\ failures = 0 =>
    /\ \A v \in DOMAIN vm : vm[v].kind = "target"
    /\ \A d \in DOMAIN disk : disk[d].of # 0

\* ... which the provider of Hyper-V keeps to.
NoMinionLeftHyperv == provider = "hyperv" => NoMinionLeft
=============================================================================
