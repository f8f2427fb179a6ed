SPECIFICATION TargetSpec
CONSTANTS
  Providers = {"olvm", "hyperv", "proxmox"}
  Disks = 2
  MaxRounds = 4
  MaxFailures = 1
  MountFailures = 2
  MorphPackages = {"vmtools", "agent", "cloud-init"}
  MorphLuks = {1, 2}
  MorphFailures = 1
  NetNics = {1, 2}
  NetFiles = 2
  BootDevices = {1, 2}
  BootScripts = {1, 2}
  BootFailures = 2
  MaxBoots = 4
  WindowsFailures = 2
INVARIANTS
  DeployedWhole
  MountedThenReleased
  MorphedWhole
  NetworkKept
  BootNeverLocksOut
PROPERTIES
  ReplicaKept
