SPECIFICATION FairSpec
CONSTANTS
    DiskSlots <- MCDiskSlots
    NicSlots <- MCNicSlots
    PciSlots <- MCPciSlots
    MpSlots <- MCMpSlots
    IpKeys <- MCIpKeys
    IsoPool = "local"
    Manifests <- EfiTypes
    Template <- MCTemplate
    BackupDefault = "0"
    WordEdits = {}
    DeviceEdits = {}
    MaxPushes = 1
    MaxEdits = 0
    MaxFaults = 0
PROPERTY EventuallyQuiet
CHECK_DEADLOCK FALSE
