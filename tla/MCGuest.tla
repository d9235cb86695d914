------------------------------ MODULE MCGuest ------------------------------
(***************************************************************************)
(* Guests for the model checker: two manifests of a VM with its own disk   *)
(* that disagree on almost everything, two of clones, two of containers,   *)
(* and hands that change what a manifest declares, what it does not, and   *)
(* what PVE leaves out when it has its default.                            *)
(***************************************************************************)
EXTENDS Guest

MCDiskSlots == {"scsi0", "scsi1"}
MCNicSlots == {"net0"}
MCPciSlots == {"hostpci0"}
MCMpSlots == {"mp0", "mp1"}
MCIpKeys == <<"ipconfig0", "ipconfig1">>

Plain ==
    [kind |-> "VM", name |-> "web", clone |-> FALSE, state |-> "started",
     tags |-> {"blue"},
     fields |-> [cpu |-> "host", cores |-> "2", memory |-> "2048", onboot |-> "1"],
     disks |-> [scsi0 |-> [pool |-> "fast", size |-> "3G", iothread |-> "1",
                            discard |-> "on"]],
     nics |-> [net0 |-> [model |-> "virtio", bridge |-> "vmbr0"]],
     pci |-> Nothing,
     efi |-> [pool |-> "fast", keys |-> "1"],
     tpm |-> "v2.0", drive |-> "fast", cdrom |-> "iso",
     sshkeys |-> {"ours"}, password |-> "",
     nameserver |-> {}, searchdomain |-> {}]

Other ==
    [Plain EXCEPT
        !.state = "stopped",
        !.fields = [cpu |-> "host", cores |-> "4", memory |-> "2048",
                    vga |-> "std", ipconfig0 |-> "static"],
        !.disks = [scsi0 |-> [pool |-> "fast", from |-> "image", ssd |-> "1"],
                   scsi1 |-> [pool |-> "slow", size |-> "3G"]],
        !.nics = [net0 |-> [model |-> "virtio", bridge |-> "vmbr0", tag |-> "7"]],
        !.pci = [hostpci0 |-> [host |-> "0000:01"]],
        !.efi = [pool |-> "fast", keys |-> "0"],
        !.drive = "", !.cdrom = "", !.sshkeys = {"*"}, !.nameserver = {"dns"}]

(* An EFI disk is inherited too: declared by the clone it would be written *)
(* in the create form over the one it copied (vm.go:1040).                 *)
CloneOf(m) ==
    [m EXCEPT !.clone = TRUE, !.disks = Nothing, !.efi = Nothing, !.tpm = "",
              !.cdrom = "none"]

Clone == [CloneOf(Plain) EXCEPT !.password = "secret"]

(* A clone without networks declares no address, and counts no NIC.        *)
Bare == [CloneOf(Plain) EXCEPT !.nics = Nothing]

(* An efitype that is not the one the live volume was made with.           *)
EfiType == [Plain EXCEPT !.efi = [pool |-> "fast", efitype |-> "2m"]]
EfiTyped == [Plain EXCEPT !.efi = [pool |-> "fast", efitype |-> "4m"]]

Container ==
    [kind |-> "LXC", name |-> "db", state |-> "started", tags |-> {"blue"},
     fields |-> [cores |-> "2", memory |-> "512", arch |-> "amd64"],
     options |-> [onboot |-> "0", nesting |-> "1", unprivileged |-> "1"],
     root |-> [pool |-> "fast", size |-> "3G"],
     mounts |-> [mp0 |-> [pool |-> "slow", size |-> "3G", mp |-> "/data",
                           ro |-> "1"]],
     binds |-> [mp1 |-> [host |-> "/share", mp |-> "/share", ro |-> "0"]],
     nets |-> [net0 |-> [bridge |-> "vmbr0", name |-> "eth0"]]]

OtherContainer ==
    [Container EXCEPT
        !.state = "stopped",
        !.fields = [cores |-> "4", memory |-> "512", description |-> "d"],
        !.options = [onboot |-> "1", protection |-> "1", keyctl |-> "0"],
        !.root = [pool |-> "fast", size |-> "5G"],
        !.mounts = [mp0 |-> [pool |-> "slow", size |-> "3G", mp |-> "/srv",
                              backup |-> "1"]],
        !.binds = [mp1 |-> [host |-> "/share", mp |-> "/mnt", ro |-> "1"]]]

MCManifests == {Plain, Other, Clone, Container, OtherContainer}
BareOnly == {Bare}
EfiTypes == {EfiType, EfiTyped}

MCTemplate ==
    [cpu |-> "host", cores |-> "1", memory |-> "1024", tags |-> {OwnershipTag},
     scsi0 |-> [pool |-> "fast", vol |-> "a", size |-> "3G"],
     efidisk0 |-> [pool |-> "fast", vol |-> "a", size |-> "4M", efitype |-> "4m",
                   cert |-> "2023"],
     ide2 |-> [pool |-> "fast", vol |-> "a", of |-> "cloudinit"],
     net0 |-> [model |-> "virtio", bridge |-> "vmbr1", mac |-> "drawn"],
     ciuser |-> "template", sshkeys |-> {"theirs"}, ipconfig0 |-> "template"]

W(k, key, word) == [kind |-> k, key |-> key, word |-> word]
D(k, key, put, drop) == [kind |-> k, key |-> key, put |-> put, drop |-> drop]

MCWordEdits ==
    {W("VM", "cores", "9"), W("VM", "ciuser", "root"), W("VM", "tags", ""),
     W("VM", "onboot", "0"), W("VM", "scsi0", ""), W("VM", "ide3", ""),
     W("LXC", "memory", "64"), W("LXC", "mp0", ""), W("LXC", "onboot", "1"),
     W("LXC", "nesting", "")}

MCDeviceEdits ==
    {D("VM", "scsi0", [cache |-> "none"], {"discard"}),
     D("VM", "scsi0", [pool |-> "slow"], {"iothread"}),
     D("VM", "scsi1", [pool |-> "fast", vol |-> "a", of |-> "cloudinit",
                        media |-> "cdrom"], {"size"}),
     D("VM", "efidisk0", [cert |-> "2023"], {"keys"}),
     D("VM", "ide2", [pool |-> "fast", vol |-> "b", of |-> "cloudinit"], {}),
     D("VM", "net0", [bridge |-> "vmbr9"], {"tag"}),
     D("LXC", "mp0", [quota |-> "1"], {"ro", "backup"}),
     D("LXC", "mp1", [host |-> "/elsewhere"], {}),
     D("LXC", "rootfs", [size |-> "5G"], {}),
     D("LXC", "net0", [ip |-> "static"], {"mac"})}

=============================================================================
