SPECIFICATION FairSpec
CONSTANTS
    DiskSlots <- MCDiskSlots
    NicSlots <- MCNicSlots
    PciSlots <- MCPciSlots
    MpSlots <- MCMpSlots
    IpKeys <- MCIpKeys
    IsoPool = "local"
    Manifests <- MCManifests
    Template <- MCTemplate
    BackupDefault = "0"
    WordEdits <- MCWordEdits
    DeviceEdits <- MCDeviceEdits
    MaxPushes = 2
    MaxEdits = 2
    MaxFaults = 1
INVARIANTS
    GuestTypeOK
    QuietMeansOwned
    NoIdentityLeak
    AdoptionIsQuiet
PROPERTIES
    VolumesKept
    UnownedKept
    EventuallyQuiet
CHECK_DEADLOCK FALSE
