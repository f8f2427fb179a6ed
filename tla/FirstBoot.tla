------------------------------ MODULE FirstBoot ------------------------------
(***************************************************************************)
(* What OSMorphing leaves behind in a Linux VM for its first boots: the    *)
(* runner of the first boot scripts, and the script which replaces the     *)
(* migration passphrase of the LUKS devices by the TPM of the new machine. *)
(* The machine may lose its power at any time, and any command may fail;   *)
(* the runner starts again with the next boot until it has completed.      *)
(***************************************************************************)
EXTENDS Integers, FiniteSets

CONSTANTS Devices, Scripts,      \* LUKS devices; the scripts of the user, 1..n
          MaxFailures, MaxBoots  \* bounds

VARIABLES
  tool,        \* the initramfs tool of the OS, which decides on the script
  enroller,    \* whether systemd-cryptenroll, or clevis, is installed
  keyed,       \* the devices which got a keyfile: crypttab names them by UUID
  slots,       \* the keyslots of every device which open on this machine
  crypttab,    \* the key of every device: its keyfile, none, or the TPM
  keyfiles,    \* the files in /etc/luks
  image,       \* the initramfs: crypttab and keyfiles as of its last build
  luks_script, \* whether luks-firstboot.sh is still there
  complete,    \* /var/lib/coriolis/firstboot-complete
  at,          \* where the runner is; "off" and "up" without a runner
  todo,        \* dev_to_keyfile, as far as a loop has not come to it
  removing,    \* dev of remove_migration_keyslots
  mapped,      \* dev_to_keyfile
  enrolled,    \* tpm2_enrolled
  first_error,
  rebooting,   \* the LUKS script has asked for a reboot
  ran,         \* the scripts of the user which have ended well
  boots, failures

vars == <<tool, enroller, keyed, slots, crypttab, keyfiles, image, luks_script, complete,
          at, todo, removing, mapped, enrolled, first_error, rebooting, ran, boots, failures>>
disk == <<slots, crypttab, keyfiles, image, luks_script, complete>>
fixed == <<tool, enroller, keyed>>
script == <<todo, removing, mapped, enrolled>>

\* As install_encryption_firstboot_setup has left the VM.
Init ==
  /\ tool \in {"dracut", "update-initramfs"} /\ enroller \in BOOLEAN
  /\ keyed \in SUBSET Devices \ {{}}
  /\ slots = [d \in Devices |-> {"migration"}] /\ keyfiles = Devices
  /\ crypttab = [d \in Devices |-> IF d \in keyed THEN "keyfile" ELSE "none"]
  /\ image = [crypttab |-> crypttab, keyfiles |-> keyfiles]
  /\ luks_script = TRUE /\ complete = FALSE /\ at = "off"
  /\ todo = {} /\ removing = 0 /\ mapped = {} /\ enrolled = FALSE /\ first_error = FALSE
  /\ rebooting = FALSE /\ ran = {} /\ boots = 0 /\ failures = 0

-----------------------------------------------------------------------------
\* The initramfs has still the keyfile of a key which was removed.
Outdated(d) == image.crypttab[d] = "keyfile" /\ "migration" \notin slots[d]

\* What opens a device at a boot: the keyfile in the initramfs; the TPM, where the
\* crypttab in the initramfs names no keyfile and, for systemd, has tpm2-device=auto;
\* somebody with the passphrase, where it has got no keyfile.
Opens(d) ==
  \/ image.crypttab[d] = "keyfile" /\ d \in image.keyfiles /\ "migration" \in slots[d]
  \/ /\ image.crypttab[d] = IF tool = "dracut" THEN "tpm" ELSE "none"
     /\ "tpm" \in slots[d]
  \/ d \notin keyed /\ "migration" \in slots[d]

\* coriolis-firstboot.service, unless ConditionPathExists fails.  A device which
\* nothing opens keeps the machine from booting.
Boot ==
  /\ at = "off" /\ boots < MaxBoots /\ \A d \in Devices : Opens(d)
  /\ boots' = boots + 1 /\ first_error' = FALSE /\ rebooting' = FALSE
  /\ at' = IF complete THEN "up" ELSE IF luks_script THEN "luks" ELSE "user"
  /\ UNCHANGED <<fixed, disk, script, ran, failures>>

PowerLoss ==
  /\ at # "off" /\ (rebooting \/ at = "up" \/ failures < MaxFailures)
  /\ failures' = IF rebooting \/ at = "up" THEN failures ELSE failures + 1
  /\ at' = "off"
  /\ UNCHANGED <<fixed, disk, script, first_error, rebooting, ran, boots>>

\* `set -e`: the script ends, and the runner goes on to the user's scripts.
ScriptExits ==
  /\ first_error' = TRUE /\ at' = "user"
  /\ UNCHANGED <<fixed, disk, rebooting, ran, boots>>

CommandFails ==
  /\ at \in {"luks", "enroll", "remove", "sed", "option", "unlink", "rebuild", "cleanup"}
  /\ failures < MaxFailures
  /\ failures' = failures + 1
  /\ ScriptExits /\ UNCHANGED script

\* load_keyfile_map
KeyfileMap == {d \in Devices : crypttab[d] = "keyfile"}

\* The checks at the start of the script.
SetupIsBroken == keyfiles = {} \/ KeyfileMap = {}

LuksBroken ==
  /\ at = "luks"
  /\ SetupIsBroken \/ (tool = "update-initramfs" /\ ~enroller)
  /\ ScriptExits /\ UNCHANGED <<script, failures>>

LuksStarts ==
  /\ at = "luks" /\ ~SetupIsBroken /\ (tool = "update-initramfs" => enroller)
  /\ mapped' = KeyfileMap /\ todo' = KeyfileMap /\ enrolled' = FALSE
  /\ at' = IF enroller THEN "enroll" ELSE "remove"
  /\ UNCHANGED <<fixed, disk, removing, first_error, rebooting, ran, boots, failures>>

\* enroll_systemd_cryptenroll and enroll_clevis, for the devices one by one.
\* The migration key must open the device.
EnrollDevice(d) ==
  /\ at = "enroll" /\ d \in todo /\ "migration" \in slots[d]
  /\ slots' = [slots EXCEPT ![d] = @ \cup {"tpm"}]
  /\ todo' = todo \ {d}
  /\ UNCHANGED <<fixed, crypttab, keyfiles, image, luks_script, complete, at,
                 removing, mapped, enrolled, first_error, rebooting, ran, boots, failures>>

EnrollAborts ==
  /\ at = "enroll" /\ \E d \in todo : "migration" \notin slots[d]
  /\ ScriptExits /\ UNCHANGED <<script, failures>>

\* Mutant: the devices are not waited for.
FirstIsEnrolled ==
  /\ at = "enroll" /\ (mapped \ todo # {})
  /\ enrolled' = TRUE /\ todo' = mapped /\ at' = "remove"
  /\ UNCHANGED <<fixed, disk, removing, mapped, first_error, rebooting, ran, boots,
                 failures>>

AllEnrolled ==
  /\ at = "enroll" /\ todo = {}
  /\ enrolled' = TRUE /\ todo' = mapped /\ at' = "remove"
  /\ UNCHANGED <<fixed, disk, removing, mapped, first_error, rebooting, ran, boots,
                 failures>>

\* remove_migration_keyslots, for a device: luksRemoveKey, sed of crypttab, and the
\* option for the TPM.
RemoveKey(d) ==
  /\ at = "remove" /\ d \in todo /\ "migration" \in slots[d]
  /\ slots' = [slots EXCEPT ![d] = @ \ {"migration"}]
  /\ removing' = d /\ todo' = todo \ {d} /\ at' = "sed"
  /\ UNCHANGED <<fixed, crypttab, keyfiles, image, luks_script, complete, mapped,
                 enrolled, first_error, rebooting, ran, boots, failures>>

RemoveKeyFails(d) ==
  /\ at = "remove" /\ d \in todo /\ "migration" \notin slots[d]
  /\ ScriptExits /\ UNCHANGED <<script, failures>>

UpdateCrypttab ==
  /\ at = "sed"
  /\ crypttab' = [crypttab EXCEPT ![removing] = "none"]
  /\ at' = IF enrolled /\ tool = "dracut" THEN "option" ELSE "remove"
  /\ UNCHANGED <<fixed, slots, keyfiles, image, luks_script, complete, script,
                 first_error, rebooting, ran, boots, failures>>

AddTpm2CrypttabOption ==
  /\ at = "option"
  /\ crypttab' = [crypttab EXCEPT ![removing] = "tpm"] /\ at' = "remove"
  /\ UNCHANGED <<fixed, slots, keyfiles, image, luks_script, complete, script,
                 first_error, rebooting, ran, boots, failures>>

\* The status of the loop is that of its last command, which is the test of
\* tpm2_enrolled in the script for dracut.
KeysRemoved ==
  /\ at = "remove" /\ todo = {}
  /\ IF tool = "dracut" /\ ~enrolled THEN ScriptExits
     ELSE /\ at' = "unlink"
          /\ UNCHANGED <<fixed, disk, first_error, rebooting, ran, boots>>
  /\ UNCHANGED <<script, failures>>

DeleteKeyfiles ==
  /\ at = "unlink"
  /\ keyfiles' = {} /\ at' = "rebuild"
  /\ UNCHANGED <<fixed, slots, crypttab, image, luks_script, complete, script,
                 first_error, rebooting, ran, boots, failures>>

RebuildInitramfs ==
  /\ at = "rebuild"
  /\ image' = [crypttab |-> crypttab, keyfiles |-> keyfiles] /\ at' = "cleanup"
  /\ UNCHANGED <<fixed, slots, crypttab, keyfiles, luks_script, complete, script,
                 first_error, rebooting, ran, boots, failures>>

\* rm -f "$0" and reboot, which does not stop the runner at once.
AskForReboot ==
  /\ at = "cleanup"
  /\ luks_script' = FALSE /\ rebooting' = TRUE /\ at' = "user"
  /\ UNCHANGED <<fixed, slots, crypttab, keyfiles, image, complete, script,
                 first_error, ran, boots, failures>>

\* The scripts of the user, in the order of their names; the order and the
\* repetitions are not kept apart here.
RunUserScripts ==
  /\ at = "user"
  /\ \E ok \in SUBSET Scripts :
       /\ ran' = ran \cup ok
       /\ failures' = failures + Cardinality(Scripts \ ok)
       /\ failures' <= MaxFailures
       /\ first_error' = (first_error \/ ok # Scripts)
  /\ at' = "end"
  /\ UNCHANGED <<fixed, disk, script, rebooting, boots>>

\* The end of run-firstboot.sh.
RunnerEnds ==
  /\ at = "end"
  /\ complete' = ~first_error /\ at' = "up"
  /\ UNCHANGED <<fixed, slots, crypttab, keyfiles, image, luks_script, script,
                 first_error, rebooting, ran, boots, failures>>

\* A machine which is up, or does not boot, may stay so.
Settled ==
  /\ at = "up" \/ (at = "off" /\ (boots = MaxBoots \/ \E d \in Devices : ~Opens(d)))
  /\ UNCHANGED vars

BootNext ==
  \/ Boot \/ PowerLoss \/ CommandFails \/ LuksBroken \/ LuksStarts \/ EnrollAborts
  \/ AllEnrolled \/ UpdateCrypttab \/ AddTpm2CrypttabOption \/ KeysRemoved \/ DeleteKeyfiles \/ RebuildInitramfs
  \/ AskForReboot \/ RunUserScripts \/ RunnerEnds \/ Settled
  \/ \E d \in Devices : EnrollDevice(d) \/ RemoveKey(d) \/ RemoveKeyFails(d)

BootSpec == Init /\ [][BootNext]_vars

-----------------------------------------------------------------------------
\* "aborting to avoid lockout": where the machine can enroll its TPM, no loss of power
\* and no failing command leaves a device without a key, and the machine opens its
\* devices by itself whenever it boots.  Excepted is one which was stopped between the
\* removal of a migration key and the rebuilding of the initramfs.
NotLockedOut ==
  enroller => \A d \in keyed : slots[d] # {} /\ (Opens(d) \/ Outdated(d))

\* firstboot-complete means that the migration key is gone from the devices which had
\* a keyfile, from /etc/luks and from the initramfs, that the TPM opens these devices,
\* and the passphrase still the others, that the initramfs has the crypttab of the disk,
\* and that every script of the user has ended well at least once.
CompletedClean ==
  complete =>
    /\ ~luks_script /\ keyfiles = {} /\ ran = Scripts
    /\ image = [crypttab |-> crypttab, keyfiles |-> {}]
    /\ \A d \in Devices : Opens(d)
    /\ \A d \in keyed : slots[d] = {"tpm"}

\* The same as NotLockedOut, for every machine and however it was stopped.
NeverLockedOut == at = "off" => \A d \in Devices : Opens(d)

\* "remove migration keyslots": of every device, also of those which crypttab names by a
\* path, or by a UUID in upper case.
EveryKeyRemoved == complete => \A d \in Devices : "migration" \notin slots[d]

\* "Runs once on first boot to re-enroll TPM2, remove migration keyslots, and
\* rebuild the initramfs": while the script is there, its next run can do it.
CleanupRetriable ==
  at = "off" /\ luks_script /\ enroller =>
    ~SetupIsBroken /\ \A d \in KeyfileMap : "migration" \in slots[d]
=============================================================================
