----------------------------- MODULE MCTarget ------------------------------
(***************************************************************************)
(* What happens to a VM on the platform of the destination: the import     *)
(* providers, and OSMorphing with its parts: the mounting of the VM's OS,  *)
(* its morphing, the static configuration of its network, and its first    *)
(* boot.  A behaviour is about one of them, which takes the place of a     *)
(* provider in the variable provider.                                      *)
(***************************************************************************)
EXTENDS MCImports

CONSTANTS MountFailures,
          MorphPackages, MorphLuks, MorphFailures,
          NetNics, NetFiles,
          BootDevices, BootScripts, BootFailures, MaxBoots,
          WindowsFailures

VARIABLES
  at,          \* of OsMount, OsMorphing and FirstBoot
  layout, passphrase, pending, mapper, luks_opened, active, mounts,
  dev_paths_to_mount, os_root_dev, raised,
  os, job, guest, luks, installed, hive,
  kind, files, parsed, interface_info, net_ifaces_info, stage,
  tool, enroller, keyed, slots, crypttab, keyfiles, image, luks_script, complete,
  to_enroll, removing, mapped, enrolled, first_error, rebooting, ran, boots,
  source_vm, online, writable, hidden, lettered, disk_nums, missed, hives, script,
  nic_config, ended

importing == <<platformVars, method, pos, localVars, infoVars, source, replicated,
               booted, rounds, errored, warned, network>>
mount == <<layout, passphrase, pending, mapper, luks_opened, active, mounts,
           dev_paths_to_mount, os_root_dev, raised>>
morph == <<os, job, guest, luks, installed, hive>>
net == <<kind, files, parsed, interface_info, net_ifaces_info, stage>>
boot == <<tool, enroller, keyed, slots, crypttab, keyfiles, image, luks_script, complete,
          to_enroll, removing, mapped, enrolled, first_error, rebooting, ran, boots>>
windows == <<source_vm, online, writable, hidden, lettered, disk_nums, missed, hives, script,
             nic_config, ended>>

targetVars == <<provider, importing, mount, morph, net, boot, windows, at, failures>>

\* Three partitions, of which some are encrypted and some in a volume group: the
\* root file system comes first, second or last, and fstab in any order.
MCLayouts ==
  [content : {<<"root", "boot", "var">>, <<"boot", "root", "none">>,
              <<"varlog", "var", "root">>},
   luks : {{}, {1}, {2, 3}}, group : {{}, {2}, {1, 3}},
   fstab : {<<"root", "varlog", "var">>, <<"var", "root", "boot", "varlog">>,
            <<"var", "root", "var">>}]
  \cup
  [content : {<<"efi", "boot", "root">>}, luks : {{}, {3}}, group : {{}, {3}},
   fstab : {<<"efi", "boot", "root">>}]

\* Windows VMs whose two disks come in every state, and ones with two NICs, some of
\* whose addresses are static in one or both of the interfaces of the registry.
MCWindowsVms ==
  LET d == {1, 2}
      ips == {<<>>, <<"a">>, <<"a", "b">>, <<"b", "c">>}
      interfaces ==
        [static : {TRUE}, ips : ips, prefixes : {<<24, 16>>}, gateway : {"g"}, dns : {"d", "e"}]
        \cup [static : {TRUE}, ips : {<<"a", "b">>}, prefixes : {<<24, 16>>},
              gateway : {"none", "h"}, dns : {"none"}]
        \cup [static : {FALSE}, ips : {<<"a">>}, prefixes : {<<24, 16>>}, gateway : {"g"},
              dns : {"d"}]
  IN  [disks : {d}, windows : {{}, {1}, {2}, d}, online : SUBSET d, writable : SUBSET d,
       hidden : SUBSET d, dhcp : {TRUE}, cbslinit : {TRUE}, registry : {<<>>},
       nics : {<<{}>>}, found : {{1}}]
      \cup
      [disks : {{1}}, windows : {{1}}, online : {{}}, writable : {{1}}, hidden : {{}},
       dhcp : {FALSE}, cbslinit : BOOLEAN,
       registry : {<<i, j>> : i, j \in interfaces},
       nics : {f \in [{1, 2} -> {{}, {"a"}, {"b"}, {"a", "c"}}] : f[1] \cap f[2] = {}},
       found : {{1, 2}, {2}}]

Mount == INSTANCE OsMount WITH Layouts <- MCLayouts, MaxFailures <- MountFailures
Morph == INSTANCE OsMorphing WITH
           Packages <- MorphPackages, Luks <- MorphLuks, MaxFailures <- MorphFailures
Net == INSTANCE NetPreservation WITH Nics <- NetNics, MaxFiles <- NetFiles
Boot == INSTANCE FirstBoot WITH
          Devices <- BootDevices, Scripts <- BootScripts,
          MaxFailures <- BootFailures, todo <- to_enroll
Windows == INSTANCE WindowsMorphing WITH
             Vms <- MCWindowsVms, MaxFailures <- WindowsFailures, raised <- ended,
             vm <- source_vm

-----------------------------------------------------------------------------
NoImport == Init /\ network = Olvm!NoNetwork

NoMount ==
  /\ layout = <<>> /\ passphrase = FALSE /\ pending = <<>> /\ mapper = {}
  /\ luks_opened = <<>> /\ active = FALSE /\ mounts = <<>>
  /\ dev_paths_to_mount = <<>> /\ os_root_dev = 0 /\ raised = FALSE

NoMorph ==
  /\ os = "none" /\ job = <<>> /\ guest = <<>> /\ luks = <<>>
  /\ installed = {} /\ hive = {}

NoNet ==
  /\ kind = "none" /\ files = <<>> /\ parsed = 0 /\ interface_info = <<>>
  /\ net_ifaces_info = <<>> /\ stage = "none"

NoBoot ==
  /\ tool = "none" /\ enroller = FALSE /\ keyed = {} /\ slots = <<>> /\ crypttab = <<>>
  /\ keyfiles = {} /\ image = <<>> /\ luks_script = FALSE /\ complete = FALSE
  /\ to_enroll = {} /\ removing = 0 /\ mapped = {} /\ enrolled = FALSE /\ first_error = FALSE
  /\ rebooting = FALSE /\ ran = {} /\ boots = 0

NoWindows ==
  /\ source_vm = <<>> /\ online = {} /\ writable = {} /\ hidden = {} /\ lettered = {}
  /\ disk_nums = {} /\ missed = {} /\ hives = {} /\ script = "none"
  /\ nic_config = <<>> /\ ended = "none"

TargetInit ==
  \/ MCInit /\ at = "none" /\ NoMount /\ NoMorph /\ NoNet /\ NoBoot /\ NoWindows
  \/ /\ provider = "mount" /\ Mount!Init
     /\ NoImport /\ NoMorph /\ NoNet /\ NoBoot /\ NoWindows
  \/ /\ provider = "morph" /\ Morph!Init
     /\ NoImport /\ NoMount /\ NoNet /\ NoBoot /\ NoWindows
  \/ /\ provider = "net" /\ Net!NetInit /\ at = "none"
     /\ NoImport /\ NoMount /\ NoMorph /\ NoBoot /\ NoWindows
  \/ /\ provider = "boot" /\ Boot!Init
     /\ NoImport /\ NoMount /\ NoMorph /\ NoNet /\ NoWindows
  \/ /\ provider = "windows" /\ Windows!Init
     /\ NoImport /\ NoMount /\ NoMorph /\ NoNet /\ NoBoot

TargetNext ==
  \/ MCNext /\ UNCHANGED <<mount, morph, net, boot, windows, at>>
  \/ /\ provider = "mount" /\ Mount!MountNext
     /\ UNCHANGED <<provider, importing, morph, net, boot, windows>>
  \/ /\ provider = "morph" /\ Morph!MorphNext
     /\ UNCHANGED <<provider, importing, mount, net, boot, windows>>
  \/ /\ provider = "net" /\ Net!NetNext
     /\ UNCHANGED <<provider, importing, mount, morph, boot, windows, at, failures>>
  \/ /\ provider = "boot" /\ Boot!BootNext
     /\ UNCHANGED <<provider, importing, mount, morph, net, windows>>
  \/ /\ provider = "windows" /\ Windows!WindowsNext
     /\ UNCHANGED <<provider, importing, mount, morph, net, boot>>

TargetSpec == TargetInit /\ [][TargetNext]_targetVars

-----------------------------------------------------------------------------
\* The VM which an import provider starts is whole: it has all the disks, at least as
\* large as the source's where the provider resizes, with Hyper-V of the last transfer
\* execution and with no minion left beside it, and its NIC is on the source's VLAN.
DeployedWhole ==
  /\ TypeOK
  /\ StartedWhole
  /\ SourceFitsResized
  /\ StartedCurrentHyperv
  /\ NicOnItsVlan
  /\ NoMinionLeftHyperv

\* morph_image finds the VM's OS, in whatever order its fstab and partitions and in
\* whatever state its disks come, hides no mount by another, morphs with all of fstab
\* mounted if no command failed, and returns only when nothing of the VM is mounted.
\* What the code leaves behind is excepted: a volume group stays active, with the LUKS
\* devices below it open, and a Windows disk whose Set-Disk failed, which is only
\* logged, stays online.
MountedThenReleased ==
  /\ provider = "mount" =>
       Mount!NothingHidden /\ Mount!MorphedOnAll /\ Mount!MorphedAndDismounted
  /\ provider = "windows" => Windows!WindowsFound /\ Windows!DisksReleased

\* A morphed VM has the packages which its new platform needs and its own resolv.conf,
\* and opens the devices which crypttab names by UUID at its first boot: those whose
\* UUID is in lower case, and the root device if its grub.cfg is not the one of the EFI
\* partition, which is left with the name of the minion's mapper.
MorphedWhole ==
  provider = "morph" =>
    Morph!ResolvRestored /\ Morph!PackagesInstalled /\ Morph!UnlocksAtFirstBoot

\* A VM keeps its network: no interface name is tied to a NIC which it does not belong
\* to, and the NICs of a Windows VM have their own static addresses after its first
\* boot.
NetworkKept ==
  /\ provider = "net" => Net!NicsKeepTheirNames
  /\ provider = "windows" => Windows!StaticKept

\* Whenever the machine loses its power, one which can enroll its TPM never loses the
\* last key of a device, and opens its devices at the next boot, unless it was stopped
\* after the removal of a migration key and before its initramfs was rebuilt;
\* firstboot-complete means that nothing of the migration key is left on the devices
\* which had got a keyfile, and that the machine boots.
BootNeverLocksOut == provider = "boot" => Boot!NotLockedOut /\ Boot!CompletedClean
=============================================================================
