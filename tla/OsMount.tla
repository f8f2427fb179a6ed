------------------------------- MODULE OsMount -------------------------------
(***************************************************************************)
(* morph_image on the OSMorphing minion of a Linux VM: setting the minion  *)
(* up, unlocking the LUKS devices, activating the volume groups, finding   *)
(* and mounting the root, the boot and the fstab partitions, morphing, and *)
(* dismounting.  Every command may fail.                                   *)
(*                                                                         *)
(* The disks of the VM are attached to the minion.  A partition holds the  *)
(* root or the boot file system, one which fstab mounts, or none, and may  *)
(* be encrypted; `group' has the partitions which are the physical volumes *)
(* of the VM's volume group, each with a logical volume of its content.    *)
(***************************************************************************)
EXTENDS Integers, SequencesExt, FiniteSetsExt

CONSTANTS Layouts,      \* the VMs: records as of Layout in the MC module
          MaxFailures   \* bound: commands which fail

VARIABLES
  layout,      \* of the VM: its partitions in the order of their names
  passphrase,  \* osmorphing_info["encrypted_disks_passphrase"] is there
  at, pending, \* where morph_image is; what the loop there has yet to do
  mapper,      \* the device mapper's open LUKS devices
  luks_opened, \* self._luks_opened
  active,      \* the VM's volume group is active
  mounts,      \* the mounts of the minion under the VM's root, in their order
  dev_paths_to_mount, os_root_dev,
  raised,      \* an exception is on its way out of morph_image
  failures

vars == <<layout, passphrase, at, pending, mapper, luks_opened, active, mounts,
          dev_paths_to_mount, os_root_dev, raised, failures>>

Nothing == 0
Partitions == DOMAIN layout.content
PartitionSeq == [i \in 1..Cardinality(Partitions) |-> i]

\* The length of a mount point's path, by which fstab is sorted, and the mount
\* points above it.
PathLength == [root |-> 1, boot |-> 5, var |-> 4, varlog |-> 8, efi |-> 9]
Above == [root |-> {}, boot |-> {"root"}, var |-> {"root"},
          varlog |-> {"root", "var"}, efi |-> {"root", "boot"}]

Init ==
  /\ layout \in Layouts /\ passphrase \in BOOLEAN
  /\ at = "setup" /\ pending = <<>> /\ mapper = {} /\ luks_opened = {}
  /\ active = FALSE /\ mounts = <<>> /\ dev_paths_to_mount = <<>>
  /\ os_root_dev = Nothing /\ raised = FALSE /\ failures = 0

fixed == <<layout, passphrase>>

\* A command fails, and morph_image ends with its exception: outside of the
\* try ... finally, nothing is undone.
Fails == failures < MaxFailures /\ failures' = failures + 1
Raise == at' = "over" /\ raised' = TRUE

-----------------------------------------------------------------------------
\* setup() and the pre-os-mount scripts
Setup ==
  /\ at = "setup"
  /\ \/ /\ at' = "unlock" /\ pending' = PartitionSeq /\ UNCHANGED <<raised, failures>>
     \/ Fails /\ Raise /\ UNCHANGED pending
  /\ UNCHANGED <<fixed, mapper, luks_opened, active, mounts, dev_paths_to_mount,
                 os_root_dev>>

\* _close_luks_devices: luksClose || true, which fails on a device in use.
Closable == IF active THEN luks_opened \ layout.group ELSE luks_opened

\* Mutant: the devices which are open stay so.
UnlockForgets == UNCHANGED <<mapper, luks_opened>>

UnlockCloses == mapper' = mapper \ Closable /\ luks_opened' = {}

\* _unlock_luks_devices, a device at a time.  A device of which isLuks fails is taken
\* for one which is not encrypted.
UnlockDevice ==
  /\ at = "unlock" /\ pending # <<>>
  /\ LET p == Head(pending) IN
     \/ /\ p \notin layout.luks
        /\ UNCHANGED <<mapper, luks_opened, at, raised, failures>>
     \/ /\ p \in layout.luks /\ passphrase
        /\ mapper' = mapper \cup {p} /\ luks_opened' = luks_opened \cup {p}
        /\ UNCHANGED <<at, raised, failures>>
     \/ /\ p \in layout.luks
        /\ IF passphrase THEN Fails ELSE UNCHANGED failures
        /\ UnlockCloses /\ Raise
     \/ Fails /\ UNCHANGED <<mapper, luks_opened, at, raised>>
  /\ pending' = Tail(pending)
  /\ UNCHANGED <<fixed, active, mounts, dev_paths_to_mount, os_root_dev>>

\* A partition's content can be read once it is unlocked.
Open(p) == p \in layout.luks => p \in mapper

\* _check_vgs, _get_vgs and vgchange, for the group of a device in dev_paths; vgchange
\* fails if it can activate a part of the group's volumes only.
ActivateGroups ==
  /\ at = "unlock" /\ pending = <<>>
  /\ active' = \E p \in layout.group : Open(p)
  /\ \/ /\ active' => \A p \in layout.group : Open(p)
        /\ at' = "scan" /\ UNCHANGED <<raised, failures>>
     \/ /\ \E p, q \in layout.group : Open(p) /\ ~Open(q)
        /\ Raise /\ UNCHANGED failures
  /\ UNCHANGED <<fixed, pending, mapper, luks_opened, mounts, dev_paths_to_mount,
                 os_root_dev>>

NoGroups ==
  /\ at = "unlock" /\ pending = <<>>
  /\ Fails /\ Raise /\ UNCHANGED active
  /\ UNCHANGED <<fixed, pending, mapper, luks_opened, mounts, dev_paths_to_mount,
                 os_root_dev>>

\* The devices with a file system: the partitions, then the logical volumes.
Readable(p) == Open(p) /\ layout.content[p] # "none" /\ (p \in layout.group => active)
ScanDevices ==
  /\ at = "scan"
  /\ \/ /\ dev_paths_to_mount' =
             SelectSeq(SelectSeq(PartitionSeq, LAMBDA p : p \notin layout.group) \o
                       SelectSeq(PartitionSeq, LAMBDA p : p \in layout.group),
                       LAMBDA p : Readable(p) /\ layout.content[p] # "efi")
        /\ pending' = dev_paths_to_mount' /\ at' = "root"
        /\ UNCHANGED <<raised, failures>>
     \/ Fails /\ Raise /\ UNCHANGED <<dev_paths_to_mount, pending>>
  /\ UNCHANGED <<fixed, mapper, luks_opened, active, mounts, os_root_dev>>

\* _find_dev_with_contents mounts a device, looks, and dismounts it; a device
\* which cannot be mounted or read is skipped, mktemp and umount raise.
Looks(content, next) ==
  /\ pending # <<>>
  /\ \/ /\ layout.content[Head(pending)] = content
        /\ at' = next /\ UNCHANGED <<raised, failures>>
     \/ /\ layout.content[Head(pending)] # content
        /\ UNCHANGED <<at, raised, failures>>
     \/ Fails /\ UNCHANGED <<at, raised>>
     \/ Fails /\ Raise
  /\ pending' = Tail(pending)
  /\ UNCHANGED <<fixed, mapper, luks_opened, active, mounts, dev_paths_to_mount>>

FindRoot ==
  /\ at = "root" /\ Looks("root", "mount")
  /\ os_root_dev' = IF at' = "mount" THEN Head(pending) ELSE os_root_dev

RootNotFound ==
  /\ at = "root" /\ pending = <<>>
  /\ Raise
  /\ UNCHANGED <<fixed, pending, mapper, luks_opened, active, mounts,
                 dev_paths_to_mount, os_root_dev, failures>>

\* The rest of _find_and_mount_root; the root is dismounted again only if it is
\* its own mount which fails.
MountRoot ==
  /\ at = "mount"
  /\ \/ mounts' = <<"root">> /\ at' = "boot" /\ UNCHANGED <<raised, failures>>
     \/ Fails /\ Raise /\ mounts' \in {<<>>, <<"root">>}
  /\ dev_paths_to_mount' = SelectSeq(dev_paths_to_mount, LAMBDA p : p # os_root_dev)
  /\ pending' = dev_paths_to_mount'
  /\ UNCHANGED <<fixed, mapper, luks_opened, active, os_root_dev>>

\* The first device with a grub directory; without one morphing goes on.
FindBoot == at = "boot" /\ Looks("boot", "mount_boot") /\ UNCHANGED os_root_dev

NoBootDevice ==
  /\ at = "boot" /\ pending = <<>>
  /\ at' = "fstab"
  /\ UNCHANGED <<fixed, pending, mapper, luks_opened, active, mounts,
                 dev_paths_to_mount, os_root_dev, raised, failures>>

MountBoot ==
  /\ at = "mount_boot"
  /\ \/ /\ mounts' = Append(mounts, "boot")
        /\ at' = "fstab" /\ UNCHANGED <<raised, failures>>
     \/ Fails /\ Raise /\ UNCHANGED mounts
  /\ UNCHANGED <<fixed, pending, mapper, luks_opened, active, dev_paths_to_mount,
                 os_root_dev>>

\* The entries sorted by the length of the mount point.
SortedFstab(entries) ==
  SetToSortSeq(Range(entries), LAMBDA a, b : PathLength[a] < PathLength[b])

\* _check_mount_fstab_partitions, up to the loop over the entries: a mount point
\* which is there twice raises.
ReadFstab ==
  /\ at = "fstab"
  /\ IF IsInjective(layout.fstab)
     THEN /\ pending' = SelectSeq(SortedFstab(layout.fstab),
                                  LAMBDA m : m \notin {"root", "boot"})
          /\ at' = "entries" /\ UNCHANGED raised
     ELSE Raise /\ UNCHANGED pending
  /\ UNCHANGED <<fixed, mapper, luks_opened, active, mounts, dev_paths_to_mount,
                 os_root_dev, failures>>

\* The root file system has the directories of the other mount points, but the boot
\* file system that of efi.
HasDirectory(mountpoint) == mountpoint = "efi" => Contains(mounts, "boot")

\* A mount which fails is skipped, as is one whose device is not there.
Mountable(mountpoint) ==
  /\ HasDirectory(mountpoint)
  /\ \E p \in Partitions : layout.content[p] = mountpoint /\ Readable(p)

MountEntry ==
  /\ at = "entries" /\ pending # <<>>
  /\ \/ /\ Mountable(Head(pending))
        /\ mounts' = Append(mounts, Head(pending)) /\ UNCHANGED failures
     \/ ~Mountable(Head(pending)) /\ UNCHANGED <<mounts, failures>>
     \/ Fails /\ UNCHANGED mounts
  /\ pending' = Tail(pending)
  /\ UNCHANGED <<fixed, at, mapper, luks_opened, active, dev_paths_to_mount,
                 os_root_dev, raised>>

\* _morph_image, which may raise; the finally clause follows in any case.
Morph ==
  /\ at = "entries" /\ pending = <<>>
  /\ \/ UNCHANGED <<raised, failures>>
     \/ Fails /\ raised' = TRUE
  /\ at' = "dismount"
  /\ UNCHANGED <<fixed, pending, mapper, luks_opened, active, mounts,
                 dev_paths_to_mount, os_root_dev>>

\* dismount_os: umount -R, then the LUKS devices.
Dismount ==
  /\ at = "dismount"
  /\ \/ mounts' = <<>> /\ UnlockCloses /\ at' = "over" /\ UNCHANGED <<raised, failures>>
     \/ Fails /\ Raise /\ UNCHANGED <<mounts, mapper, luks_opened>>
  /\ UNCHANGED <<fixed, pending, active, dev_paths_to_mount, os_root_dev>>

Over == at = "over" /\ UNCHANGED vars

MountNext ==
  \/ Setup \/ UnlockDevice \/ ActivateGroups \/ NoGroups \/ ScanDevices \/ FindRoot
  \/ RootNotFound \/ MountRoot \/ FindBoot \/ NoBootDevice \/ MountBoot \/ ReadFstab
  \/ MountEntry \/ Morph \/ Dismount \/ Over

MountSpec == Init /\ [][MountNext]_vars

-----------------------------------------------------------------------------
\* "we sort the mountpoints based on length to ensure they get mounted in the
\* correct order": no mount hides one which is already there.
NothingHidden ==
  \A i, j \in 1..Len(mounts) : i < j => mounts[j] \notin Above[mounts[i]]

\* Where no command has failed, the VM is morphed with its boot file system and all of
\* its fstab which is by UUID or on logical volumes mounted.
MorphedOnAll ==
  at = "dismount" /\ failures = 0 =>
    \A p \in Partitions :
      layout.content[p] \in {"root", "boot"} \cup Range(layout.fstab) =>
        Contains(mounts, layout.content[p])

\* When morph_image returns, the VM has been morphed on its root file system,
\* nothing of it is mounted any more, and of its LUKS devices at most those
\* below the active volume group, which nobody deactivates, are open.
MorphedAndDismounted ==
  at = "over" /\ ~raised =>
    /\ layout.content[os_root_dev] = "root"
    /\ mounts = <<>> /\ mapper \subseteq layout.group

\* "Close any LUKS mapper devices opened by _unlock_luks_devices."
LuksClosed == at = "over" /\ ~raised => mapper = {}
=============================================================================
