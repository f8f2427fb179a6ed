---------------------------- MODULE MCTransfers ----------------------------
(***************************************************************************)
(* Instances of Transfers.                                                 *)
(***************************************************************************)
EXTENDS Transfers

\* Every combination of pools.  A task which only comes between others, like
\* SHUTDOWN_INSTANCE and GET_OPTIMAL_FLAVOR, is there in half of the combinations.
AllTransferOptions ==
  {o \in Options :
     /\ \A p \in {"osmorphing_minion_pool", "clone_disks", "skip_os_morphing",
                  "instance_flavor"} : ~o[p]
     /\ o.shutdown_instances = o.origin_minion_pool_id}

\* Cloning or not, and OSMorphing on a pool's machine, on a temporary one or not
\* at all.
AllDeploymentOptions ==
  {o \in Options :
     /\ \A p \in {"origin_minion_pool_id", "destination_minion_pool_id",
                  "shutdown_instances"} : ~o[p]
     /\ o.skip_os_morphing => ~o.osmorphing_minion_pool
     /\ o.instance_flavor = o.clone_disks}
=============================================================================
