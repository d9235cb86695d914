------------------------------- MODULE Adopt -------------------------------
(***************************************************************************)
(* Adoption: the manifest that "proxops adopt" writes for a guest it finds *)
(* on PVE.  It must own what PVE reports and not what PVE chose: a default *)
(* that PVE leaves out stays undeclared, a MAC address is not pinned, ssh  *)
(* keys become the sentinel "*", the password is left out.  Pure.          *)
(***************************************************************************)
EXTENDS VmConfig, LxcConfig

Reported(cfg, S) == {s \in S : Device(cfg, s) # Nothing}

(* Everything but a running guest is wanted stopped.                       *)
StateOf(power) == IF power = "running" THEN "started" ELSE "stopped"

(* The ownership tag is appended again when the manifest is applied.       *)
AdoptedTags(cfg) == Words(cfg, "tags") \ {OwnershipTag}

-----------------------------------------------------------------------------
(* Virtual machines.                                                       *)

(* On these keys "0" says what leaving the key out says.                   *)
OnlyWhenOn == {"onboot", "protection", "agent", "acpi", "tablet",
               "nestedvirt", "hidden", "numa", "sockets"}

(* The description of a VM is not read; the controller rides on scsi0.     *)
AdoptedFields(cfg) ==
    Only(cfg, {k \in (ColdKeys \union HotKeys) \intersect DOMAIN cfg :
                  /\ cfg[k] \notin {"", "none"}
                  /\ k \in OnlyWhenOn => cfg[k] # "0"
                  /\ k \in IpKeySet => cfg[k] # "dhcp"
                  /\ k = "scsihw" => Device(cfg, "scsi0") # Nothing})

(* A cloud-init volume on a data bus, which its medium or its name tells,  *)
(* is not a disk of the manifest.                                          *)
IsCdromMedia(d) ==
    Option(d, "media", "") = "cdrom" \/ Option(d, "of", "") = "cloudinit"

(* "iothread" off reads like its absence.                                  *)
AdoptedDisk(d) ==
    Only(d, {"pool", "size", "discard", "ssd", "aio"}
              \union {t \in {"iothread"} : Option(d, t, "0") = "1"})

AdoptedDisks(cfg) ==
    [s \in {s \in Reported(cfg, DiskSlots) : ~IsCdromMedia(cfg[s])} |->
        AdoptedDisk(cfg[s])]

AdoptedNic(d) ==
    Only(d, {"model", "bridge", "tag", "rate"}
              \union {t \in {"firewall"} : Option(d, t, "0") = "1"})

AdoptedEfi(d) == Only(d, {"pool", "size", "efitype", "keys"})

(* The drive counts only when PVE keeps a cloud-init volume on ide2.       *)
AdoptedDrive(cfg) ==
    LET d == Device(cfg, "ide2")
    IN  IF Option(d, "of", "") = "cloudinit" THEN d.pool ELSE ""

(* The first of the two slots that holds an ISO, or that is detached.      *)
AdoptedCdrom(cfg) ==
    LET speaks(s) == s \in DOMAIN cfg /\ (cfg[s] = Nothing \/ "file" \in DOMAIN cfg[s])
        of(s) == IF cfg[s] = Nothing THEN "none" ELSE cfg[s].file
    IN  IF speaks("ide3") THEN of("ide3")
        ELSE IF speaks("ide2") THEN of("ide2") ELSE ""

AdoptedKeys(cfg) == IF Words(cfg, "sshkeys") = {} THEN {} ELSE {"*"}

AdoptVm(cfg, power) ==
    [kind |-> "VM", name |-> Word(cfg, "name"), clone |-> FALSE,
     state |-> StateOf(power),
     tags |-> AdoptedTags(cfg),
     fields |-> AdoptedFields(cfg),
     disks |-> AdoptedDisks(cfg),
     nics |-> [s \in Reported(cfg, NicSlots) |-> AdoptedNic(cfg[s])],
     pci |-> Only(cfg, Reported(cfg, PciSlots)),
     efi |-> AdoptedEfi(Device(cfg, "efidisk0")),
     tpm |-> Option(Device(cfg, "tpm0"), "version", ""),
     drive |-> AdoptedDrive(cfg),
     cdrom |-> AdoptedCdrom(cfg),
     sshkeys |-> AdoptedKeys(cfg),
     password |-> "",
     nameserver |-> Words(cfg, "nameserver"),
     searchdomain |-> Words(cfg, "searchdomain")]

-----------------------------------------------------------------------------
(* Containers.  A switch that is off is a value like any other.            *)

(* Mutant of AdoptedMount: a default that PVE left out is written down.    *)
MountWithDefaults(d) ==
    Only(d, {"pool", "size", "mp"} \union MountOptions) @@ ("backup" :> "1")

AdoptedMount(d) == Only(d, {"pool", "size", "mp"} \union MountOptions)
AdoptedBind(d) == Only(d, {"host", "mp", "ro"})

(* The interface name is PVE's own when it is the slot's; the hardware     *)
(* address and the type always are.                                        *)
AdoptedNet(s, d) ==
    Only(d, {"bridge", "tag", "rate", "ip", "gw"}
              \union {t \in {"firewall"} : Option(d, t, "0") = "1"}
              \union {t \in {"name"} : Option(d, t, s) # s})

AdoptLxc(cfg, power) ==
    LET mps == Reported(cfg, MpSlots)
        binds == {s \in mps : IsBind(cfg[s])}
    IN  [kind |-> "LXC", name |-> Word(cfg, "hostname"),
         state |-> StateOf(power),
         tags |-> AdoptedTags(cfg),
         fields |-> Only(cfg, ColdCtKeys \union HotCtKeys) @@ ("arch" :> "amd64"),
         options |-> Only(cfg, SwitchKeys \union FixedKeys),
         root |-> Only(Device(cfg, "rootfs"), {"pool", "size"}),
         mounts |-> [s \in mps \ binds |-> AdoptedMount(cfg[s])],
         binds |-> [s \in binds |-> AdoptedBind(cfg[s])],
         nets |-> [s \in Reported(cfg, NicSlots) |-> AdoptedNet(s, cfg[s])]]

=============================================================================
