SPECIFICATION Spec
CONSTANTS
    DiskSlots <- MCDiskSlots
    NicSlots <- MCNicSlots
    PciSlots <- MCPciSlots
    MpSlots <- MCMpSlots
    IpKeys <- MCIpKeys
    IsoPool = "local"
    Manifests <- BareOnly
    Template <- MCTemplate
    BackupDefault = "0"
    WordEdits = {}
    DeviceEdits = {}
    MaxPushes = 1
    MaxEdits = 0
    MaxFaults = 0
INVARIANT NoIdentityLeak
CHECK_DEADLOCK FALSE
