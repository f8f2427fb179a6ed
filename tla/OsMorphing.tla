----------------------------- MODULE OsMorphing -----------------------------
(***************************************************************************)
(* _morph_image: what OSMorphing does to the mounted OS of a VM, and in    *)
(* which order: its packages, its network, cloud-init, its first boot      *)
(* scripts, and what opens its LUKS devices on the new machine.  Every     *)
(* command may fail; most failures raise, some are only logged.            *)
(***************************************************************************)
EXTENDS Integers, FiniteSets

CONSTANTS Packages, Luks,   \* package names; the LUKS devices of the VM
          MaxFailures       \* bound: commands which fail

VARIABLES
  os,        \* the family of tools; "sles" and "opensuse" have the same
  job,       \* what is asked for: the packages to add and to remove, whether the
             \* export provider has tools, DHCP, scripts of the user
  guest,     \* the OS: resolv.conf, packages, network, cloud-init, ...
  luks,      \* its encryption: tokens, crypttab, keyfiles, initramfs, grub.cfg
  installed, \* installed_packages
  hive,      \* the registry hives which are loaded
  at, failures

vars == <<os, job, guest, luks, installed, hive, at, failures>>
fixed == <<os, job>>

\* `luks.by' is how crypttab names a device, `luks.grub' what the grub.cfg under
\* /boot/grub or /boot/grub2 ("boot") and the one in the EFI partition, those of them
\* that there are, take for the root device.
\* The device with the root filesystem.
RootDevice == CHOOSE d \in Luks : \A e \in Luks : d <= e

\* "agent" needs "vmtools", and goes with it.
Needs(p) == IF p = "agent" THEN {"vmtools"} ELSE {}

Init ==
  /\ os \in {"debian", "redhat", "sles", "opensuse", "windows"}
  /\ job \in [add : IF os = "windows" THEN {{}} ELSE {{}, {"cloud-init"}, {"cloud-init", "agent"}},
              remove : IF os = "windows" THEN {{}} ELSE {{}, {"vmtools", "cloud-init"}},
              export : BOOLEAN, dhcp : BOOLEAN, scripts : BOOLEAN,
              supported : BOOLEAN]
  /\ \E r \in {"own", "none"}, ps \in {Packages, {"vmtools"}} :
       guest = [resolv |-> r, resolv_old |-> "none", had_resolv |-> r, packages |-> ps,
                net |-> "own", cloud_init |-> FALSE, scripts |-> {}, runner |-> FALSE]
  /\ \E devices \in IF os = "windows" \/ ~job.supported THEN {{}} ELSE {{}, Luks} :
     \E by \in [devices -> {"uuid", "upper-case uuid", "path"}],
        tool \in {"dracut", "update-initramfs", "none"},
        cfgs \in IF os \in {"debian", "windows"} THEN {{"boot"}} ELSE SUBSET {"boot", "efi"} :
       /\ devices = {} => tool = "none" /\ cfgs = {"boot"}
       /\ LET tab == [d \in devices |-> [key |-> "none", tpm |-> TRUE, initramfs |-> FALSE]] IN
          luks = [opened |-> devices, by |-> by, tool |-> tool, tokens |-> devices,
                  crypttab |-> tab, keyfiles |-> {}, pattern |-> FALSE,
                  image |-> [crypttab |-> tab, keyfiles |-> {}],
                  grub |-> [cfg \in cfgs |-> "own"]]
  /\ installed = {} /\ hive = {} /\ at = "detect" /\ failures = 0

-----------------------------------------------------------------------------
Fails == failures < MaxFailures /\ failures' = failures + 1

\* A step which goes on, or raises.
Goes(next) == at' = next /\ UNCHANGED failures
Raises == Fails /\ at' = "raised"

\* run_os_detect; the Windows tools read the version from a hive.
DetectOs ==
  /\ at = "detect"
  /\ Goes("tools") \/ Raises
  /\ hive' \in (IF at' = "raised" /\ os = "windows" THEN {{}, {"SOFTWARE"}} ELSE {{}})
  /\ UNCHANGED <<fixed, guest, luks, installed>>

\* get_osmorphing_tools_class_for_provider for both providers, and the
\* post-os-mount scripts.
SelectTools ==
  /\ at = "tools"
  /\ \/ /\ job.supported
        /\ Goes(IF job.export THEN "pre_uninstall" ELSE "list")
     \/ ~job.supported /\ at' = "raised" /\ UNCHANGED failures
     \/ job.supported /\ job.scripts /\ Raises
  /\ UNCHANGED <<fixed, guest, luks, installed, hive>>

\* _copy_resolv_conf: mv, if it is there, and cp.
CopiedResolv(g) ==
  [g EXCEPT !.resolv_old = IF g.resolv # "none" THEN g.resolv ELSE @,
            !.resolv = "minion"]
MovedResolv(g) ==
  [g EXCEPT !.resolv_old = IF g.resolv # "none" THEN g.resolv ELSE @,
            !.resolv = "none"]

\* _restore_resolv_conf
RestoredResolv(g) ==
  IF g.resolv_old = "none" THEN g
  ELSE [g EXCEPT !.resolv = g.resolv_old, !.resolv_old = "none"]

PrePackagesUninstall ==
  /\ at = "pre_uninstall"
  /\ IF os = "windows" THEN UNCHANGED guest /\ Goes("uninstall")
     ELSE \/ guest' = CopiedResolv(guest) /\ Goes("uninstall")
          \/ guest' \in {guest, MovedResolv(guest)} /\ Raises
  /\ UNCHANGED <<fixed, luks, installed, hive>>

\* "Don't remove packages that need to be installed"
ToRemove == job.remove \ job.add

\* A package takes along those which need it.
Removed(packages, gone) == {p \in packages \ gone : Needs(p) \cap gone = {}}

\* `apt-get remove || true`, a package at a time: only a lost connection raises.
AptRemove ==
  /\ os = "debian" /\ Fails
  /\ \E gone \in SUBSET ToRemove :
       guest' = [guest EXCEPT !.packages = Removed(@, gone)]
  /\ at' \in {"raised", "post_uninstall"}

\* _yum_uninstall: the first package which is not removed raises.
YumRemove ==
  /\ os = "redhat" /\ Raises
  /\ \E gone \in SUBSET ToRemove :
       gone # ToRemove /\ guest' = [guest EXCEPT !.packages = Removed(@, gone)]

\* "Error occured while uninstalling packages. Ignoring"
ZypperRemove ==
  /\ os \in {"sles", "opensuse"} /\ Fails
  /\ UNCHANGED guest /\ at' = "post_uninstall"

UninstallPackages ==
  /\ at = "uninstall"
  /\ \/ /\ guest' = [guest EXCEPT !.packages = Removed(@, ToRemove)]
        /\ Goes("post_uninstall")
     \/ ToRemove # {} /\ (AptRemove \/ YumRemove \/ ZypperRemove)
  /\ UNCHANGED <<fixed, luks, installed, hive>>

PostPackagesUninstall ==
  /\ at = "post_uninstall"
  /\ \/ guest' = RestoredResolv(guest) /\ Goes("list")
     \/ os # "windows" /\ UNCHANGED guest /\ Raises
  /\ UNCHANGED <<fixed, luks, installed, hive>>

\* get_installed_packages: none, if the command fails.
GetInstalledPackages ==
  /\ at = "list"
  /\ \/ installed' = guest.packages /\ UNCHANGED failures
     \/ installed' = {} /\ Fails
  /\ at' = "pre_install"
  /\ UNCHANGED <<fixed, guest, luks, hive>>

ToAdd == job.add \ installed

\* apt-get clean and update, if there is something to install.
AptUpdate == os = "debian" /\ ToAdd # {} /\ Raises

\* yum clean all, and grubby.
YumPrepare == os = "redhat" /\ Raises

\* _enable_sles_module
EnableSlesModule == os = "sles" /\ ToAdd # {} /\ Raises

\* _add_cloud_tools_repo: "this may be safely ignored"
AddCloudToolsRepo == os = "opensuse" /\ ToAdd # {} /\ Fails /\ at' = "net"

\* pre_packages_install: resolv.conf first.
PrePackagesInstall ==
  /\ at = "pre_install"
  /\ IF os = "windows" THEN UNCHANGED guest /\ Goes("net")
     ELSE \/ /\ guest' = CopiedResolv(guest)
             /\ \/ Goes("net")
                \/ AptUpdate \/ YumPrepare \/ EnableSlesModule \/ AddCloudToolsRepo
          \/ guest' \in {guest, MovedResolv(guest)} /\ Raises
  /\ UNCHANGED <<fixed, luks, installed, hive>>

\* get_update_grub2_command: the grub.cfg which it writes, with the mapper names of the
\* minion.  On Red Hat that of the EFI partition is a wrapper where there are both.
GrubCfg ==
  CASE os = "debian" -> "boot"
    [] os = "redhat" -> IF "boot" \in DOMAIN luks.grub THEN "boot" ELSE "efi"
    [] OTHER -> IF "efi" \in DOMAIN luks.grub THEN "efi" ELSE "boot"

GrubUpdated == [luks EXCEPT !.grub[GrubCfg] = "osmount"]

\* The interfaces are renamed, which updates grub.cfg, and set to DHCP; or pinned to
\* their names.
DebianNetConfig ==
  /\ os = "debian"
  /\ \/ /\ guest' = [guest EXCEPT !.net = IF job.dhcp THEN "dhcp" ELSE "static"]
        /\ luks' = IF job.dhcp THEN GrubUpdated ELSE luks
        /\ Goes("install")
     \/ Raises /\ UNCHANGED <<guest, luks>>
  /\ UNCHANGED hive

\* grubby raises; an interface whose file cannot be written is only logged.
RedHatNetConfig ==
  /\ os = "redhat"
  /\ \/ /\ guest' = [guest EXCEPT !.net = IF job.dhcp THEN "dhcp" ELSE "static"]
        /\ Goes("install")
     \/ job.dhcp /\ Fails /\ at' = "install" /\ UNCHANGED guest
     \/ Raises /\ UNCHANGED guest
  /\ UNCHANGED <<luks, hive>>

\* "add networking support"
SuseNetConfig ==
  /\ os \in {"sles", "opensuse"}
  /\ Goes("install") /\ UNCHANGED <<guest, luks, hive>>

\* The static addresses are read from the SYSTEM hive, which is unloaded if
\* that fails, but not if the unloading does.
WindowsNetConfig ==
  /\ os = "windows"
  /\ \/ /\ guest' = [guest EXCEPT !.net = IF job.dhcp THEN @ ELSE "static"]
        /\ Goes("install") /\ UNCHANGED hive
     \/ /\ ~job.dhcp /\ Raises
        /\ hive' \in {{}, {"SYSTEM"}} /\ UNCHANGED guest
  /\ UNCHANGED luks

SetNetConfig ==
  /\ at = "net"
  /\ DebianNetConfig \/ RedHatNetConfig \/ SuseNetConfig \/ WindowsNetConfig
  /\ UNCHANGED <<fixed, installed>>

InstallPackages ==
  /\ at = "install"
  /\ \/ /\ guest' = [guest EXCEPT !.packages = @ \cup ToAdd]
        /\ Goes("cloud_init")
     \/ ToAdd # {} /\ UNCHANGED guest /\ Raises
  /\ UNCHANGED <<fixed, luks, installed, hive>>

\* _configure_cloud_init, which updates grub.cfg, "could not determine grub location" if
\* there is none; nothing if cloud-init is not among the packages.
ConfigureCloudInit ==
  /\ at = "cloud_init"
  /\ LET wanted == os # "windows" /\ "cloud-init" \in job.add
         located == DOMAIN luks.grub # {}
     IN
     \/ /\ wanted => located
        /\ guest' = [guest EXCEPT !.cloud_init = wanted]
        /\ luks' = IF wanted THEN GrubUpdated ELSE luks
        /\ Goes("dracut")
     \/ wanted /\ ~located /\ UNCHANGED <<guest, luks, failures>> /\ at' = "raised"
     \/ wanted /\ UNCHANGED <<guest, luks>> /\ Raises
  /\ UNCHANGED <<fixed, installed, hive>>

\* _run_dracut of the tools for Red Hat and SUSE: what is in the image is what
\* is on the disk now.  A mkinitrd which fails, of an old SLES, is only logged.
RunDracut ==
  /\ at = "dracut"
  /\ IF os \in {"redhat", "sles", "opensuse"}
     THEN \/ /\ luks' = [luks EXCEPT !.image = [crypttab |-> luks.crypttab, keyfiles |-> {}]]
             /\ Goes("post_install")
          \/ UNCHANGED luks /\ Raises
          \/ os = "sles" /\ UNCHANGED luks /\ Fails /\ at' = "post_install"
     ELSE UNCHANGED luks /\ Goes("post_install")
  /\ UNCHANGED <<fixed, guest, installed, hive>>

\* The end of post_packages_install.
PostPackagesInstall ==
  /\ at = "post_install"
  /\ \/ guest' = RestoredResolv(guest) /\ Goes("firstboot")
     \/ os # "windows" /\ UNCHANGED guest /\ Raises
  /\ UNCHANGED <<fixed, luks, installed, hive>>

\* register_firstboot_script: the script, and the unit and the runner unless
\* they are there.
Registered(g, s) == [g EXCEPT !.scripts = @ \cup {s}, !.runner = TRUE]

\* On Windows a script is one of cloudbase-init's, which runs them itself.
RegisteredWindows(g, s) == [g EXCEPT !.scripts = @ \cup {s}]

RegisterFirstbootScripts ==
  /\ at = "firstboot"
  /\ \/ /\ guest' = IF ~job.scripts THEN guest
                    ELSE IF os = "windows" THEN RegisteredWindows(guest, "user")
                    ELSE Registered(guest, "user")
        /\ Goes("tpm")
     \/ job.scripts /\ UNCHANGED guest /\ Raises
  /\ UNCHANGED <<fixed, luks, installed, hive>>

-----------------------------------------------------------------------------
\* remove_encryption_artifacts: a token which cannot be removed is logged.
RemoveEncryptionArtifacts ==
  /\ at = "tpm"
  /\ IF luks.opened = {} THEN UNCHANGED luks /\ Goes("returned")
     ELSE \/ /\ \/ luks' = [luks EXCEPT !.tokens = {},
                              !.crypttab = [d \in luks.opened |-> [@[d] EXCEPT !.tpm = FALSE]]]
                   /\ UNCHANGED failures
                \/ /\ Fails
                   /\ luks' = [luks EXCEPT
                        !.crypttab = [d \in luks.opened |-> [@[d] EXCEPT !.tpm = FALSE]]]
             /\ at' = "keyfiles"
          \/ UNCHANGED luks /\ Raises
  /\ UNCHANGED <<fixed, guest, installed, hive>>

\* _update_crypttab_keyfile looks the UUID up as crypttab writes it, while that of the
\* device is in lower case.
WithKeyfiles(tab) ==
  [d \in DOMAIN tab |->
     IF luks.by[d] = "uuid" THEN [tab[d] EXCEPT !.key = "keyfile", !.initramfs = TRUE]
     ELSE tab[d]]

\* _write_migration_keyfiles, with the configuration of the initramfs tool.
WriteMigrationKeyfiles ==
  /\ at = "keyfiles"
  /\ \/ /\ \E d \in luks.opened : luks.by[d] = "uuid"
        /\ luks.tool # "none"
        /\ luks' = [luks EXCEPT !.keyfiles = luks.opened, !.pattern = TRUE,
                                !.crypttab = WithKeyfiles(@)]
        /\ Goes("grub")
     \/ /\ \A d \in luks.opened : luks.by[d] # "uuid"
        /\ luks' = [luks EXCEPT !.keyfiles = luks.opened]
        /\ at' = "raised" /\ UNCHANGED failures
     \/ /\ \E d \in luks.opened : luks.by[d] = "uuid"
        /\ luks.tool = "none"
        /\ luks' = [luks EXCEPT !.keyfiles = luks.opened, !.crypttab = WithKeyfiles(@)]
        /\ at' = "raised" /\ UNCHANGED failures
     \/ Raises /\ UNCHANGED luks
  /\ UNCHANGED <<fixed, guest, installed, hive>>

\* Mutant: grub.cfg is left as update-grub wrote it.
GrubUnchanged ==
  /\ at = "grub"
  /\ Goes("rebuild")
  /\ UNCHANGED <<fixed, guest, luks, installed, hive>>

\* _fix_grub_luks_root: the mapper names of the minion become those of crypttab, in the
\* grub.cfg under boot/grub or boot/grub2.
FixGrubLuksRoot ==
  /\ at = "grub"
  /\ \/ /\ luks' = [luks EXCEPT !.grub =
             [cfg \in DOMAIN @ |->
                IF cfg = "boot" /\ @[cfg] = "osmount" /\ luks.by[RootDevice] # "path"
                THEN "crypttab" ELSE @[cfg]]]
        /\ Goes("rebuild")
     \/ UNCHANGED luks /\ Raises
  /\ UNCHANGED <<fixed, guest, installed, hive>>

\* What the initramfs has: crypttab, and the keyfiles, for update-initramfs
\* those of the entries for it.
Image ==
  [crypttab |-> luks.crypttab,
   keyfiles |-> IF luks.tool = "dracut" THEN luks.keyfiles
                ELSE {d \in luks.keyfiles : luks.pattern /\ luks.crypttab[d].initramfs}]

\* _rebuild_initramfs
RebuildInitramfs ==
  /\ at = "rebuild"
  /\ \/ luks' = [luks EXCEPT !.image = Image] /\ Goes("register")
     \/ UNCHANGED luks /\ Raises
  /\ UNCHANGED <<fixed, guest, installed, hive>>

\* The end of install_encryption_firstboot_setup.
RegisterLuksScript ==
  /\ at = "register"
  /\ \/ guest' = Registered(guest, "luks") /\ Goes("returned")
     \/ UNCHANGED guest /\ Raises
  /\ UNCHANGED <<fixed, luks, installed, hive>>

Over == at \in {"returned", "raised"} /\ UNCHANGED vars

MorphNext ==
  \/ DetectOs \/ SelectTools \/ PrePackagesUninstall \/ UninstallPackages
  \/ PostPackagesUninstall \/ GetInstalledPackages \/ PrePackagesInstall
  \/ SetNetConfig \/ InstallPackages \/ ConfigureCloudInit
  \/ RunDracut \/ PostPackagesInstall
  \/ RegisterFirstbootScripts \/ RemoveEncryptionArtifacts
  \/ WriteMigrationKeyfiles \/ FixGrubLuksRoot \/ RebuildInitramfs
  \/ RegisterLuksScript \/ Over

MorphSpec == Init /\ [][MorphNext]_vars

-----------------------------------------------------------------------------
\* When _morph_image returns, a VM which had a resolv.conf has it back, whatever
\* was removed and installed in between, and whatever was only logged.
ResolvRestored ==
  at = "returned" /\ guest.had_resolv = "own" /\ os # "windows" => guest.resolv = "own"

\* When _morph_image returns, every package which the import tools asked for is
\* there, even one which the removal of others took along.
PackagesInstalled == at = "returned" => job.add \subseteq guest.packages

\* When _morph_image returns, the initramfs of an encrypted VM opens the devices
\* which crypttab names by their UUID, in lower case, with the migration key, without
\* asking the TPM of the old machine; the grub.cfg under /boot/grub or /boot/grub2 does
\* not name the minion's mappers, whoever has written it; and the script is there which
\* removes the key again.
UnlocksAtFirstBoot ==
  at = "returned" /\ luks.opened # {} =>
    /\ \A d \in luks.opened : luks.by[d] = "uuid" =>
         /\ luks.image.crypttab[d].key = "keyfile" /\ d \in luks.image.keyfiles
         /\ ~luks.image.crypttab[d].tpm
    /\ "boot" \in DOMAIN luks.grub /\ luks.by[RootDevice] # "path" =>
         luks.grub["boot"] # "osmount"
    /\ "luks" \in guest.scripts /\ guest.runner

\* "They must match, so replace the osmount names in every grub.cfg we find."  Not in the
\* one of the EFI partition, which grub2-mkconfig writes on SUSE, and on Red Hat where it
\* is the only one.
EveryGrubCfgFixed ==
  at = "returned" /\ luks.opened # {} /\ luks.by[RootDevice] # "path" =>
    \A cfg \in DOMAIN luks.grub : luks.grub[cfg] # "osmount"

\* "so that systemd-cryptsetup-generator finds them in the initramfs and uses
\* the crypttab mapper name (luks-root) and keyfile for auto-unlock"
AllUnlockAtFirstBoot ==
  at = "returned" =>
    \A d \in luks.opened : luks.image.crypttab[d].key = "keyfile"
=============================================================================
