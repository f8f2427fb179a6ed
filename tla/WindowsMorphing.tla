--------------------------- MODULE WindowsMorphing ---------------------------
(***************************************************************************)
(* morph_image on the OSMorphing minion of a Windows VM: the VM's disks    *)
(* are made writable, brought online and given drive letters, Windows is   *)
(* looked for, its registry is loaded to detect it and to read its static  *)
(* addresses, the script which sets them at the first boot is written, and *)
(* the disks are taken offline.  Then the VM boots and runs the script.    *)
(*                                                                         *)
(* Commands go over WinRM.  One may fail, or its answer may be lost: then  *)
(* _exec_command runs it again.  What Windows does with a disk, a hive or  *)
(* an address is external.                                                 *)
(***************************************************************************)
EXTENDS Integers, SequencesExt, FiniteSetsExt

CONSTANTS Vms,          \* the VMs: records as of MCWindowsVms in the MC module
          MaxFailures   \* bound: commands which fail and answers which are lost

VARIABLES
  vm,         \* the VM
  at,         \* where morph_image is
  online, writable, hidden,  \* the disks which are; `hidden': NoDefaultDriveLetter
  lettered,   \* the disks whose partition has a drive letter on the minion
  disk_nums,  \* of _set_volumes_drive_letter
  missed,     \* the disks which dismount_os logged as "Failed setting disk %s offline"
  hives,      \* the VM's registry hives which the minion has loaded
  script,     \* 01-static-ip-config.ps1: "none", "whole", or "garbled" by an append twice
  nic_config, \* of each NIC of the new VM: [addresses, gateways, dns]
  raised,     \* the exception with which morph_image ended, or "none"
  failures

vars == <<vm, at, online, writable, hidden, lettered, disk_nums, missed, hives, script,
          nic_config, raised, failures>>
disks == <<online, writable, hidden, lettered, disk_nums, missed>>

\* A NIC which nobody has configured.
Dhcp == [addresses |-> {"dhcp"}, gateways |-> {"dhcp"}, dns |-> "dhcp"]

Init ==
  /\ vm \in Vms /\ at = "rw"
  /\ online = vm.online /\ writable = vm.writable /\ hidden = vm.hidden
  /\ lettered = vm.online \ vm.hidden /\ disk_nums = {} /\ missed = {}
  /\ hives = {} /\ script = "none"
  /\ nic_config = [n \in DOMAIN vm.nics |-> Dhcp]
  /\ raised = "none" /\ failures = 0

Costs(n) == failures + n <= MaxFailures /\ failures' = failures + n

\* A loop over disks, all of which are tried: those of `failed' are logged and skipped.
Skipping(nums, failed) == failed \subseteq nums /\ Costs(Cardinality(failed))

\* Whatever is not a CoriolisException ends mount_os, where nothing is undone, and
\* morph_image with it.  How far the loop had got is not told.
MountRaises ==
  /\ at \in {"rw", "online", "letters", "re_offline", "re_online", "find"}
  /\ Costs(1) /\ at' = "over" /\ raised' = "error"
  /\ UNCHANGED <<vm, disks, hives, script, nic_config>>

-----------------------------------------------------------------------------
(* mount_os                                                                *)

_set_basic_disks_rw_mode ==
  /\ at = "rw"
  /\ \E failed \in SUBSET (vm.disks \ writable) :
       /\ Skipping(vm.disks \ writable, failed)
       /\ writable' = vm.disks \ failed
  /\ at' = "online"
  /\ UNCHANGED <<vm, online, hidden, lettered, disk_nums, missed, hives, script,
                 nic_config, raised>>

\* A partition gets its letter when its disk comes online.
_bring_disks_online(nums, next) ==
  /\ \E failed \in SUBSET nums :
       /\ Skipping(nums, failed)
       /\ online' = online \cup (nums \ failed)
       /\ lettered' = lettered \cup ((nums \ failed) \ hidden)
  /\ at' = next
  /\ UNCHANGED <<vm, writable, hidden, disk_nums, missed, hives, script, nic_config,
                 raised>>

BringOnline == at = "online" /\ _bring_disks_online(vm.disks \ online, "letters")

\* The flag of a partition can be cleared only on a writable disk.
_set_volumes_drive_letter ==
  /\ at = "letters"
  /\ \E failed \in SUBSET (online \cap hidden) :
       LET refused == (online \cap hidden) \ writable IN
       /\ refused \subseteq failed
       /\ Skipping(online \cap hidden, failed \ refused)
       /\ disk_nums' = (online \cap hidden) \ failed
       /\ hidden' = hidden \ disk_nums'
  /\ at' = "re_offline"
  /\ UNCHANGED <<vm, online, writable, lettered, missed, hives, script, nic_config,
                 raised>>

_bring_nonboot_disks_offline(nums, failed) ==
  /\ Skipping(nums, failed)
  /\ online' = online \ (nums \ failed)
  /\ lettered' = lettered \ (nums \ failed)

\* Offline and online again, so that the letters are assigned.
_rebring_disks_online ==
  \/ /\ at = "re_offline" /\ at' = "re_online"
     /\ \E failed \in SUBSET disk_nums : _bring_nonboot_disks_offline(disk_nums, failed)
     /\ UNCHANGED <<vm, writable, hidden, disk_nums, missed, hives, script, nic_config,
                    raised>>
  \/ at = "re_online" /\ _bring_disks_online(disk_nums, "find")

\* The first root which has a Windows\System32 and is not the minion's system drive.
mount_os ==
  /\ at = "find"
  /\ IF lettered \cap vm.windows # {}
       THEN at' = "detect_load" /\ UNCHANGED raised
       ELSE at' = "over" /\ raised' = "OperatingSystemNotFound"
  /\ UNCHANGED <<vm, disks, hives, script, nic_config, failures>>

-----------------------------------------------------------------------------
(* _morph_image: an exception goes through the finally of morph_image.     *)

Raise == at' = "dismount" /\ raised' = "error"

\* The hives: that of run_os_detect, and that of set_net_config.
Hive == [detect_load |-> "SOFTWARE", net_load |-> "SYSTEM"]
Within == [detect_load |-> "detect", net_load |-> "net"]

\* Where Windows was found: a hive of a disk which is read-only cannot be loaded.
Root == CHOOSE d \in lettered \cap vm.windows : \A e \in lettered \cap vm.windows : d <= e

\* A `reg load' whose answer is lost is run again and finds the hive in use, which
\* raises ahead of the try whose finally would unload it.
_load_registry_hive ==
  /\ at \in DOMAIN Hive
  /\ \/ /\ Root \in writable
        /\ hives' = hives \cup {Hive[at]} /\ at' = Within[at]
        /\ UNCHANGED <<raised, failures>>
     \/ Root \notin writable /\ Raise /\ UNCHANGED <<hives, failures>>
     \/ Costs(1) /\ Raise /\ hives' \in {hives, hives \cup {Hive[at]}}
  /\ UNCHANGED <<vm, disks, script, nic_config>>

\* The finally which unloads the hive: an unload which fails raises as well.
Unloads(next, failed) ==
  \/ /\ ~failed /\ at' = next /\ hives' = {} /\ UNCHANGED <<raised, failures>>
  \/ /\ failed /\ Raise /\ hives' = {} /\ Costs(1)
  \/ /\ Raise /\ Costs(1) /\ UNCHANGED hives

\* run_os_detect: _get_image_version_info.
DetectOs ==
  /\ at = "detect"
  /\ \E failed \in BOOLEAN :
       Unloads(IF vm.dhcp THEN "firstboot" ELSE "net_load", failed)
  /\ UNCHANGED <<vm, disks, script, nic_config>>

-----------------------------------------------------------------------------
(* The static addresses, from the registry and the NICs of the source VM.  *)

\* The interfaces of the registry: [static, ips, prefixes], in their order.
_compile_static_ip_conf_from_registry ==
  SelectSeq(vm.registry, LAMBDA i : i.static /\ i.ips # <<>>)

RegIpAddresses == UNION {Range(i.ips) : i \in Range(_compile_static_ip_conf_from_registry)}

_get_static_nics_info == {n \in DOMAIN vm.nics : vm.nics[n] \cap RegIpAddresses # {}}

\* write_winrm_file, into a directory which only a VM with cloudbase-init has yet;
\* it appends, and appends again when the answer is lost.
_write_static_ip_script(written) ==
  \/ _get_static_nics_info = {} /\ written = script /\ UNCHANGED failures
  \/ /\ _get_static_nics_info # {} /\ vm.cbslinit
     /\ \/ written = "whole" /\ UNCHANGED failures
        \/ written = "garbled" /\ Costs(1)

set_net_config ==
  /\ at = "net"
  /\ \/ /\ at' = "firstboot" /\ hives' = {} /\ UNCHANGED raised
        /\ _write_static_ip_script(script')
     \/ /\ Raise /\ hives' = {} /\ UNCHANGED script
        /\ Costs(IF _get_static_nics_info # {} /\ ~vm.cbslinit THEN 0 ELSE 1)
     \/ /\ Raise /\ UNCHANGED hives /\ Costs(1)
        /\ script' \in {script} \cup (IF vm.cbslinit /\ _get_static_nics_info # {}
                                        THEN {"whole"} ELSE {})
  /\ UNCHANGED <<vm, disks, nic_config>>

\* register_firstboot_script, which makes the directory: the user's scripts.
register_firstboot_script ==
  /\ at = "firstboot"
  /\ \/ at' = "dismount" /\ UNCHANGED <<raised, failures>>
     \/ Costs(1) /\ Raise
  /\ UNCHANGED <<vm, disks, hives, script, nic_config>>

-----------------------------------------------------------------------------
\* Get-Disk, where IsBoot is false: all disks but the minion's own.
NonbootDisks == vm.disks

\* The finally of morph_image: failures are logged, other exceptions raise.
dismount_os ==
  /\ at = "dismount"
  /\ \/ /\ \E failed \in SUBSET NonbootDisks :
             /\ _bring_nonboot_disks_offline(NonbootDisks, failed)
             /\ missed' = failed
        /\ UNCHANGED raised
     \/ /\ Costs(1) /\ raised' = "error" /\ UNCHANGED missed
        /\ \E done \in SUBSET NonbootDisks : /\ online' = online \ done
                                             /\ lettered' = lettered \ done
  /\ at' = IF raised' = "none" THEN "morphed" ELSE "over"
  /\ UNCHANGED <<vm, writable, hidden, disk_nums, hives, script, nic_config>>

-----------------------------------------------------------------------------
(* The first boot of the VM, on which cloudbase-init runs the script.      *)

\* Set-IPAddresses: those addresses of an interface of the registry which the NIC had,
\* then the interface's default gateway and name servers.
Matched(i, ips) ==
  LET entries == [k \in DOMAIN i.ips |-> <<"address", i.ips[k], i.prefixes[k]>>] IN
  SelectSeq(entries, LAMBDA entry : entry[2] \in ips)

Calls(i, ips) ==
  IF Matched(i, ips) = <<>> THEN <<>>
  ELSE Matched(i, ips)
       \o (IF i.gateway = "none" THEN <<>> ELSE <<<<"route", i.gateway>>>>)
       \o (IF i.dns = "none" THEN <<>> ELSE <<<<"dns", i.dns>>>>)

\* New-NetIPAddress, New-NetRoute and Set-DnsClientServerAddress, for one NIC after its
\* old configuration is removed.
Assigned(n) ==
  FlattenSeq([k \in DOMAIN _compile_static_ip_conf_from_registry |->
                Calls(_compile_static_ip_conf_from_registry[k], vm.nics[n])])

\* An address or a route which is there already stops the script:
\* $ErrorActionPreference = "Stop".
RepeatsBy(n, k) ==
  \E i, j \in 1..k : /\ i < j /\ Assigned(n)[i][1] \in {"address", "route"}
                     /\ SubSeq(Assigned(n)[i], 1, 2) = SubSeq(Assigned(n)[j], 1, 2)

Repeats(n) == RepeatsBy(n, Len(Assigned(n)))

\* Get-InterfaceByMacAddress finds it, and Invoke-Main gets to it.
Reached(n) ==
  /\ n \in _get_static_nics_info \cap vm.found
  /\ \A m \in _get_static_nics_info \cap vm.found : m < n => ~Repeats(m)

\* The configuration of a NIC by its calls, up to one which stops.
Configured(n) ==
  LET done == SelectSeq([k \in DOMAIN Assigned(n) |->
                           IF RepeatsBy(n, k) THEN <<"stopped">> ELSE Assigned(n)[k]],
                        LAMBDA call : call # <<"stopped">>)
      servers == SelectSeq(done, LAMBDA call : call[1] = "dns")
  IN  [addresses |-> {<<c[2], c[3]>> : c \in {c \in Range(done) : c[1] = "address"}},
       gateways |-> {c[2] : c \in {c \in Range(done) : c[1] = "route"}},
       dns |-> IF servers = <<>> THEN "none" ELSE Last(servers)[2]]

\* Invoke-Main, for the NICs in their order until a call stops it.
FirstBoot ==
  /\ at = "morphed" /\ at' = "booted"
  /\ nic_config' = [n \in DOMAIN vm.nics |->
                      IF script = "whole" /\ Reached(n) THEN Configured(n) ELSE Dhcp]
  /\ UNCHANGED <<vm, disks, hives, script, raised, failures>>

WindowsNext ==
  \/ MountRaises
  \/ _set_basic_disks_rw_mode \/ BringOnline
  \/ _set_volumes_drive_letter \/ _rebring_disks_online \/ mount_os
  \/ _load_registry_hive \/ DetectOs \/ set_net_config
  \/ register_firstboot_script \/ dismount_os \/ FirstBoot
  \/ at \in {"over", "booted"} /\ UNCHANGED vars

Spec == Init /\ [][WindowsNext]_vars

-----------------------------------------------------------------------------
\* Disks come read-only, offline or with partitions without letters: when no command
\* fails, mount_os finds the Windows there is ("root partition not found" otherwise).
WindowsFound ==
  (raised = "OperatingSystemNotFound" /\ failures = 0) => vm.windows = {}

\* A morph_image which returns leaves no hive loaded, and online no disk but those it
\* has logged: the VM which boots from them is not written to by the minion.
DisksReleased ==
  at \in {"morphed", "booted"} => hives = {} /\ online \subseteq missed

\* Every disk is offline by then.  It is not when Set-Disk fails, as this is only logged.
AllDisksReleased == at \in {"morphed", "booted"} => online = {}

\* The static interfaces of the registry which have addresses of a NIC: its own, and
\* such as were left by NICs which are there no more.
InterfacesOf(n) ==
  {k \in DOMAIN vm.registry :
     vm.registry[k].static /\ Range(vm.registry[k].ips) \cap vm.nics[n] # {}}

\* What a NIC of the source VM had in the guest; one without a static interface was
\* configured by DHCP.
StaticOf(n) ==
  IF InterfacesOf(n) = {} THEN Dhcp
  ELSE LET i == vm.registry[CHOOSE k \in InterfacesOf(n) : TRUE]
           own == {k \in DOMAIN i.ips : i.ips[k] \in vm.nics[n]}
       IN  [addresses |-> {<<i.ips[k], i.prefixes[k]>> : k \in own},
            gateways |-> {i.gateway} \ {"none"}, dns |-> i.dns]

\* Each NIC of a VM whose configuration was kept has its static addresses again, each
\* with its own prefix length, with its gateway and its name servers, and one without
\* any is left alone: when no NIC has addresses in two interfaces of the registry, and
\* no part of the script was appended twice.
StaticKept ==
  (/\ at = "booted" /\ ~vm.dhcp /\ script # "garbled"
   /\ \A n \in DOMAIN vm.nics : Cardinality(InterfacesOf(n)) <= 1) =>
    \A n \in vm.found : nic_config[n] = StaticOf(n)

\* What an interface of the registry says is never lost for the NICs which come after
\* its own.  It does not hold for a registry which has kept an interface that is there
\* no more: an address or a gateway which it repeats stops the script.
NoNicPassedOver ==
  (at = "booted" /\ ~vm.dhcp /\ script = "whole") =>
    \A n \in vm.found : InterfacesOf(n) # {} => nic_config[n] # Dhcp
=============================================================================
