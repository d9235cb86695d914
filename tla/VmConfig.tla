----------------------------- MODULE VmConfig ------------------------------
(***************************************************************************)
(* The qemu half of the manifest schema: which configuration a VM manifest *)
(* asks for, how far a live configuration has drifted from it, and what a  *)
(* clone takes from its own manifest and must not keep of its template.    *)
(* Pure: the guests these operators act on are in Guest.                   *)
(*                                                                         *)
(* A manifest holds what it declares: "fields" the plain keys, "disks",    *)
(* "nics" and "pci" devices by slot, "efi" a device, "tpm" a version,      *)
(* "drive" the pool of the cloud-init drive, "cdrom" an ISO, "none" or "". *)
(***************************************************************************)
EXTENDS DeviceForms, FiniteSetsExt

CONSTANTS
    DiskSlots,   \* scsi<N>, virtio<N>, sata<N>
    PciSlots,    \* hostpci<N>
    IpKeys,      \* <<"ipconfig0", ...>>
    IsoPool      \* the storage of the ISO images

ColdKeys == {"cpu", "cores", "memory", "scsihw", "machine", "bios",
             "sockets", "numa", "serial0"}
OptionKeys == {"onboot", "startup", "protection", "agent", "acpi", "tablet",
               "hotplug", "boot", "nestedvirt", "hidden"}
IpKeySet == {IpKeys[i] : i \in DOMAIN IpKeys}
HotKeys == {"vga", "ciuser"} \union OptionKeys \union IpKeySet

(* Sent on create, never compared again.                                   *)
CreateOnlyKeys == {"description"}

IsCloneBacked(m) == m.clone
DriveOptions == {"iothread", "discard", "ssd", "aio"}
NicOptions == {"tag", "rate", "firewall", "mac"}

(* Off is the same as not declared.                                        *)
VmSwitches == {"onboot", "protection", "agent", "acpi", "tablet",
               "nestedvirt", "hidden", "numa"}

(* spec.disks and spec.clone exclude each other: a clone inherits the      *)
(* disks of its template.  "*" among the keys stands alone.                *)
(* Of the slots, those are left out that only the validation knows: ide,   *)
(* and nvme.                                                               *)
ValidVM(m) ==
    /\ {"cpu", "cores", "memory"} \subseteq DOMAIN m.fields
    /\ DOMAIN m.fields \subseteq ColdKeys \union HotKeys \union CreateOnlyKeys
    /\ IsCloneBacked(m) <=> m.disks = Nothing
    /\ DOMAIN m.disks \subseteq DiskSlots /\ DOMAIN m.nics \subseteq NicSlots
    /\ DOMAIN m.pci \subseteq PciSlots
    /\ \A k \in VmSwitches \intersect DOMAIN m.fields : m.fields[k] = "1"
    /\ \A s \in DOMAIN m.disks :
          /\ Declares(m.disks[s], {"pool"}, {"from", "size"} \union DriveOptions)
          /\ "from" \in DOMAIN m.disks[s] <=> "size" \notin DOMAIN m.disks[s]
          /\ Option(m.disks[s], "iothread", "1") = "1"
    /\ \A s \in DOMAIN m.nics :
          /\ Declares(m.nics[s], {"model", "bridge"}, NicOptions)
          /\ Option(m.nics[s], "firewall", "1") = "1"
    /\ \A s \in DOMAIN m.pci : Declares(m.pci[s], {"host"}, {"pcie"})
    /\ m.efi = Nothing \/ Declares(m.efi, {"pool"}, {"size", "efitype", "keys"})
    /\ "*" \in m.sshkeys => m.sshkeys = {"*"}

-----------------------------------------------------------------------------
(* Devices.                                                                *)

(* Cloud-init takes ide2, and the CD-ROM moves to ide3.                    *)
CdromSlot(m) == IF m.drive # "" THEN "ide3" ELSE "ide2"
CloudInitDrive(m) == [pool |-> m.drive, of |-> "cloudinit"]
Cdrom(m) == IF m.cdrom = "none" THEN Nothing ELSE [file |-> m.cdrom, pool |-> IsoPool]
Tpm(m) == [version |-> m.tpm]

(* Mutant of DriveOptionsDrift: an option PVE leaves out never differs.    *)
DriveOptionsIfReported(cur, want) ==
    \E t \in DriveOptions \intersect DOMAIN cur \intersect DOMAIN want :
        cur[t] # want[t]

(* PVE leaves an option out that has its default; aio has no fixed default *)
(* and counts as different when it is absent.                              *)
DriveOptionsDrift(cur, want) ==
    \/ Option(cur, "iothread", "0") # Option(want, "iothread", "0")
    \/ Option(cur, "discard", "ignore")
          # Option(want, "discard", Option(cur, "discard", "ignore"))
    \/ Option(cur, "ssd", "0") # Option(want, "ssd", Option(cur, "ssd", "0"))
    \/ "aio" \in DOMAIN want /\ Option(cur, "aio", "") # want.aio

(* Mutant of LiveDriveRewrite: only what the manifest declares is sent.    *)
RewriteOwnedOnly(cur, want) ==
    Only(want, DriveOptions) @@ Only(cur, {"pool", "vol", "size"})

(* The declared options over everything the volume has; iothread is always *)
(* declared, by its absence too.                                           *)
LiveDriveRewrite(cur, want) ==
    Only(want, DriveOptions) @@ Without(cur, {"iothread"})

(* Mutant of DiskUpdate: a moved disk is written in the create form.       *)
DiskRewritten(cur, want) ==
    IF IsNewStorageSlot(cur) \/ Moved(cur, want) THEN want
    ELSE IF DriveOptionsDrift(cur, want) THEN LiveDriveRewrite(cur, want)
    ELSE cur

(* The value a disk slot should get.  A moved volume is left alone, and    *)
(* reported as an anomaly.                                                 *)
DiskUpdate(cur, want) ==
    IF IsNewStorageSlot(cur) THEN want
    ELSE IF ~Moved(cur, want) /\ DriveOptionsDrift(cur, want)
         THEN LiveDriveRewrite(cur, want)
    ELSE cur

(* Model and bridge are always compared, the rest only when declared.      *)
NicMatches(cur, want) ==
    \A t \in {"model", "bridge"} \union DOMAIN want :
        Option(cur, t, "") = Option(want, t, "")

(* Only the pool: PVE names the volume, and reports no size for a drive it *)
(* made itself; an ISO in the slot has one.                                *)
CloudInitMatches(cur, want) ==
    /\ Option(cur, "pool", "") = want.pool
    /\ "size" \notin DOMAIN cur

(* A clone's inherited drive is never sent again.                          *)
DriveUpdate(m, cur) ==
    IF /\ ~CloudInitMatches(cur, CloudInitDrive(m))
       /\ ~IsCloneBacked(m) \/ IsNewStorageSlot(cur)
    THEN CloudInitDrive(m)
    ELSE cur

(* Only an efitype that PVE reports can differ; keys count as not enrolled *)
(* while they are absent.                                                  *)
EfiDrift(cur, want) ==
    \/ /\ "efitype" \in DOMAIN want /\ "efitype" \in DOMAIN cur
       /\ cur.efitype # want.efitype
    \/ "keys" \in DOMAIN want /\ Option(cur, "keys", "0") # want.keys

(* The rewrite states the efitype the volume has.                          *)
EfiRewrite(cur, want) ==
    Only(want, {"keys"}) @@ cur @@ Only(want, {"efitype"})

(* Sent on every drift, also when it states what is there already.         *)
EfiUpdate(m, cur) ==
    IF m.efi = Nothing THEN Nothing
    ELSE IF IsNewStorageSlot(cur) THEN "efidisk0" :> m.efi
    ELSE IF Option(cur, "pool", "") = m.efi.pool /\ EfiDrift(cur, m.efi)
         THEN "efidisk0" :> EfiRewrite(cur, m.efi)
    ELSE Nothing

CdromUpdate(m, cur) ==
    IF m.cdrom = "none" THEN Nothing
    ELSE IF Option(cur, "file", "") = m.cdrom THEN cur
    ELSE Cdrom(m)

-----------------------------------------------------------------------------
(* Cloud-init data.                                                        *)

(* Nothing to write when the list is empty or the sentinel.                *)
SSHKeysWire(m) == IF "*" \in m.sshkeys THEN {} ELSE m.sshkeys

SetKeys(m) == ("sshkeys" :> SSHKeysWire(m)) @@ ("nameserver" :> m.nameserver)
                @@ ("searchdomain" :> m.searchdomain)

DeclaredSets(m) == Only(SetKeys(m), {k \in DOMAIN SetKeys(m) : SetKeys(m)[k] # {}})
Password(m) == IF m.password = "" THEN Nothing ELSE "cipassword" :> m.password

-----------------------------------------------------------------------------
(* The configuration a create asks for.                                    *)
Devices(m) ==
    m.disks @@ m.nics @@ m.pci
      @@ (IF m.efi # Nothing THEN "efidisk0" :> m.efi ELSE Nothing)
      @@ (IF m.tpm # "" THEN "tpm0" :> Tpm(m) ELSE Nothing)
      @@ (IF m.drive # "" THEN "ide2" :> CloudInitDrive(m) ELSE Nothing)
      @@ (IF m.cdrom # "" THEN CdromSlot(m) :> Cdrom(m) ELSE Nothing)

VmCreate(m) ==
    m.fields @@ ("tags" :> AllTags(m)) @@ Devices(m)
      @@ DeclaredSets(m) @@ Password(m)

-----------------------------------------------------------------------------
(* Clones.  PVE copies the whole configuration of the template.            *)
CloneInheritedKeys == {"ciuser", "sshkeys", "cipassword", "cicustom",
                       "nameserver", "searchdomain"}

(* As many ipconfig slots as the manifest has NICs or static addresses.    *)
IpSlotCount(m) ==
    Max({0, Cardinality(DOMAIN m.nics)}
          \union {i \in DOMAIN IpKeys : IpKeys[i] \in DOMAIN m.fields})
IdentityKeys(m) ==
    CloneInheritedKeys
      \union {IpKeys[i] : i \in 1..IpSlotCount(m) \intersect DOMAIN IpKeys}

CloneDeleteKeys(m) == IdentityKeys(m) \ DOMAIN VmCreate(m)

(* In a drift only the keys that are there are deleted.                    *)
CloneClearKeys(m, cfg) == CloneDeleteKeys(m) \intersect DOMAIN cfg

CloneConfigSet(m) == Without(VmCreate(m), DiskSlots)

CloneConfigWrite(m, cfg) ==
    IF IsNewStorageSlot(Device(cfg, "ide2")) THEN CloneConfigSet(m)
    ELSE Without(CloneConfigSet(m), {"ide2"})

-----------------------------------------------------------------------------
(* Drift.                                                                  *)

(* What every declared device but the EFI disk should read afterwards.     *)
DeviceUpdates(m, cfg) ==
    LET cur(s) == Device(cfg, s)
    IN  [s \in DOMAIN m.disks |-> DiskUpdate(cur(s), m.disks[s])]
          @@ [s \in DOMAIN m.nics |->
                 IF NicMatches(cur(s), m.nics[s]) THEN cur(s) ELSE m.nics[s]]
          @@ m.pci
          @@ (IF m.tpm \in {"", Option(cur("tpm0"), "version", "")} THEN Nothing
              ELSE "tpm0" :> Tpm(m))
          @@ (IF m.drive = "" THEN Nothing
              ELSE "ide2" :> DriveUpdate(m, cur("ide2")))
          @@ (IF m.cdrom = "" THEN Nothing
              ELSE CdromSlot(m) :> CdromUpdate(m, cur(CdromSlot(m))))

(* PVE masks the password: any live one satisfies the manifest.            *)
PasswordUpdate(m, cfg) ==
    IF "cipassword" \in DOMAIN cfg THEN Nothing ELSE Password(m)

DataUpdates(m, cfg) == ChangedSets(cfg, DeclaredSets(m)) @@ PasswordUpdate(m, cfg)

FieldUpdates(m, cfg) == ChangedWords(cfg, Without(m.fields, CreateOnlyKeys))
TagUpdate(m, cfg) == ChangedSets(cfg, "tags" :> AllTags(m))

(* Mutant of VmDrift: a clone is not cleared of inherited keys.            *)
VmDriftNoClear(m, cfg) ==
    LET fields == FieldUpdates(m, cfg)
        devices == ChangedDevices(cfg, DeviceUpdates(m, cfg))
                     @@ EfiUpdate(m, Device(cfg, "efidisk0"))
    IN  [set |-> fields @@ devices @@ TagUpdate(m, cfg) @@ DataUpdates(m, cfg),
         del |-> {},
         stop |-> devices # Nothing
                    \/ DOMAIN fields \intersect ColdKeys # {}]

VmDrift(m, cfg) ==
    LET fields == FieldUpdates(m, cfg)
        devices == ChangedDevices(cfg, DeviceUpdates(m, cfg))
                     @@ EfiUpdate(m, Device(cfg, "efidisk0"))
    IN  [set |-> fields @@ devices @@ TagUpdate(m, cfg) @@ DataUpdates(m, cfg),
         del |-> IF IsCloneBacked(m) THEN CloneClearKeys(m, cfg) ELSE {},
         stop |-> devices # Nothing
                    \/ DOMAIN fields \intersect ColdKeys # {}]

(* What is reported and left alone: devices the manifest does not declare, *)
(* and volumes that are not where or as large as it says.                  *)
VmAnomalies(m, cfg) ==
    LET there(S) == {s \in S : Device(cfg, s) # Nothing}
        undeclared ==
            there(NicSlots \ DOMAIN m.nics) \union there(PciSlots \ DOMAIN m.pci)
              \union IF IsCloneBacked(m) THEN {}
                      ELSE there(DiskSlots \ DOMAIN m.disks)
        moved == {s \in there(DOMAIN m.disks) : Moved(Device(cfg, s), m.disks[s])}
        elsewhere(s, pool) ==
            IF Option(Device(cfg, s), "pool", pool) # pool THEN {s} ELSE {}
    IN  undeclared \union moved
          \union (IF m.efi = Nothing THEN {}
                   ELSE elsewhere("efidisk0", m.efi.pool))
          \union (IF IsCloneBacked(m) /\ m.drive # ""
                   THEN elsewhere("ide2", m.drive) ELSE {})

=============================================================================
