---------------------------- MODULE GuestProofs ----------------------------
(***************************************************************************)
(* No write of the agent costs a guest a volume, for every manifest, every *)
(* configuration it may find, every template and every edit by hand.       *)
(* What a cycle writes is fixed by what it has read, so the proof has two  *)
(* parts: an update computed from a configuration names every volume of    *)
(* it that it touches (Keeps), and the cycle writes that update and no     *)
(* other (IInv).                                                           *)
(***************************************************************************)
EXTENDS Guest, TLAPS

(* A device that keeps the volume another one has, if it has any.          *)
SameVol(cur, d) == "vol" \in DOMAIN cur => "vol" \in DOMAIN d /\ d["vol"] = cur["vol"]

(* Values that keep the volumes of cfg at the slots they are for.          *)
Keeps(set, cfg) ==
    \A s \in VolumeSlots \intersect DOMAIN set : SameVol(Device(cfg, s), set[s])

(* No volume is at a key of another kind.                                  *)
LEMMA VolumesApart ==
    VolumeSlots \intersect (PlainKeys \union NicSlots \union PciSlots
                              \union {"ide2", "ide3", "tpm0"}) = {}
BY SlotsAssumption DEF DeviceSlots

-----------------------------------------------------------------------------
(* Putting values together.                                                *)

LEMMA OverIs == ASSUME NEW f, NEW g PROVE f @@ g = Over(f, g)
<1>1. {Over(a, b) : a \in {f}, b \in {g}} = {Over(f, g)}
  OBVIOUS
<1> QED BY <1>1 DEF @@

LEMMA OverDomain ==
    ASSUME NEW f, NEW g
    PROVE  DOMAIN (f @@ g) = DOMAIN f \union DOMAIN g
BY OverIs DEF Over

LEMMA OverKeeps ==
    ASSUME NEW f, NEW g, NEW cfg, Keeps(f, cfg), Keeps(g, cfg)
    PROVE  Keeps(f @@ g, cfg)
BY OverIs DEF Keeps, Over

LEMMA OnlyKeeps ==
    ASSUME NEW f, NEW S, NEW cfg, Keeps(f, cfg)
    PROVE  Keeps(Only(f, S), cfg)
BY DEF Keeps, Only, Restrict

LEMMA ElsewhereKeeps ==
    ASSUME NEW f, NEW cfg, DOMAIN f \intersect VolumeSlots = {}
    PROVE  Keeps(f, cfg)
BY DEF Keeps

LEMMA OneKeeps ==
    ASSUME NEW k, NEW v, NEW cfg, k \in VolumeSlots => SameVol(Device(cfg, k), v)
    PROVE  Keeps(k :> v, cfg)
BY DEF Keeps, :>

LEMMA NothingKeeps == ASSUME NEW cfg PROVE Keeps(Nothing, cfg)
BY ElsewhereKeeps DEF Nothing

LEMMA NewSlotHasNoVolume ==
    ASSUME NEW cur, IsNewStorageSlot(cur), NEW d
    PROVE  SameVol(cur, d)
BY DEF IsNewStorageSlot, SameVol, Nothing

-----------------------------------------------------------------------------
(* Device by device: the live form names the volume, and the create form   *)
(* is for an empty slot.                                                   *)

LEMMA DiskKeeps == ASSUME NEW cur, NEW want PROVE SameVol(cur, DiskUpdate(cur, want))
<1>1. SameVol(cur, LiveDriveRewrite(cur, want))
  BY OverIs DEF SameVol, LiveDriveRewrite, Only, Without, Restrict, Over, DriveOptions
<1> QED BY <1>1, NewSlotHasNoVolume DEF DiskUpdate, SameVol

LEMMA EfiKeeps ==
    ASSUME NEW m, NEW cfg
    PROVE  Keeps(EfiUpdate(m, Device(cfg, "efidisk0")), cfg)
<1> DEFINE cur == Device(cfg, "efidisk0")
<1>1. SameVol(cur, EfiRewrite(cur, m.efi))
  BY OverIs DEF SameVol, EfiRewrite, Only, Restrict, Over
<1>2. IsNewStorageSlot(cur) => SameVol(cur, m.efi)
  BY NewSlotHasNoVolume
<1> QED BY <1>1, <1>2, OneKeeps, NothingKeeps DEF EfiUpdate

LEMMA RootKeeps == ASSUME NEW cur, NEW want PROVE SameVol(cur, RootUpdate(cur, want))
BY NewSlotHasNoVolume DEF RootUpdate, SameVol

LEMMA MountKeeps == ASSUME NEW cur, NEW want PROVE SameVol(cur, MountUpdate(cur, want))
<1>1. SameVol(cur, MountRewrite(cur, want))
  BY OverIs DEF SameVol, MountRewrite, Only, Without, Restrict, Over, MountOptions
<1> QED BY <1>1, NewSlotHasNoVolume DEF MountUpdate, SameVol

LEMMA BindKeeps == ASSUME NEW cur, NEW want PROVE SameVol(cur, BindUpdate(cur, want))
BY NewSlotHasNoVolume DEF BindUpdate, IsBind, SameVol

-----------------------------------------------------------------------------
(* Whole updates.                                                          *)

LEMMA ChangedWordsKeep ==
    ASSUME NEW cfg, NEW want, DOMAIN want \intersect VolumeSlots = {}, NEW c
    PROVE  Keeps(ChangedWords(c, want), cfg)
BY ElsewhereKeeps DEF ChangedWords, Only, Restrict

LEMMA ChangedSetsKeep ==
    ASSUME NEW cfg, NEW want, DOMAIN want \intersect VolumeSlots = {}, NEW c
    PROVE  Keeps(ChangedSets(c, want), cfg)
BY ElsewhereKeeps DEF ChangedSets, Only, Restrict

LEMMA ChangedDevicesKeep ==
    ASSUME NEW cfg, NEW want, Keeps(want, cfg), NEW c
    PROVE  Keeps(ChangedDevices(c, want), cfg)
BY OnlyKeeps DEF ChangedDevices

(* vm.go, Drift: devices.                                                  *)
LEMMA DeviceUpdatesKeep ==
    ASSUME NEW m, ValidVM(m), NEW cfg
    PROVE  Keeps(DeviceUpdates(m, cfg), cfg)
<1> DEFINE disks == [s \in DOMAIN m.disks |-> DiskUpdate(Device(cfg, s), m.disks[s])]
           nics == [s \in DOMAIN m.nics |->
                      IF NicMatches(Device(cfg, s), m.nics[s])
                      THEN Device(cfg, s) ELSE m.nics[s]]
           tpm == IF m.tpm \in {"", Option(Device(cfg, "tpm0"), "version", "")}
                  THEN Nothing ELSE "tpm0" :> Tpm(m)
           drive == IF m.drive = "" THEN Nothing
                    ELSE "ide2" :> DriveUpdate(m, Device(cfg, "ide2"))
           cdrom == IF m.cdrom = "" THEN Nothing
                    ELSE CdromSlot(m) :> CdromUpdate(m, Device(cfg, CdromSlot(m)))
<1>1. Keeps(disks, cfg)
  BY DiskKeeps DEF Keeps
<1>2. Keeps(nics, cfg) /\ Keeps(m.pci, cfg)
  BY VolumesApart, ElsewhereKeeps DEF ValidVM
<1>3. Keeps(tpm, cfg) /\ Keeps(drive, cfg)
  BY VolumesApart, OneKeeps, NothingKeeps
<1>4. Keeps(cdrom, cfg)
  <2>1. CdromSlot(m) \notin VolumeSlots
    BY VolumesApart DEF CdromSlot
  <2> QED BY <2>1, OneKeeps, NothingKeeps
<1>5. DeviceUpdates(m, cfg) = disks @@ nics @@ m.pci @@ tpm @@ drive @@ cdrom
  BY DEF DeviceUpdates
<1> QED
  <2> HIDE DEF disks, nics, tpm, drive, cdrom
  <2>1. Keeps(disks @@ nics, cfg)
    BY <1>1, <1>2, OverKeeps
  <2>2. Keeps(disks @@ nics @@ m.pci, cfg)
    BY <2>1, <1>2, OverKeeps
  <2>3. Keeps(disks @@ nics @@ m.pci @@ tpm, cfg)
    BY <2>2, <1>3, OverKeeps
  <2>4. Keeps(disks @@ nics @@ m.pci @@ tpm @@ drive, cfg)
    BY <2>3, <1>3, OverKeeps
  <2> QED BY <2>4, <1>4, <1>5, OverKeeps

(* An update that keeps the volumes of the configuration it was computed   *)
(* from, and deletes none.                                                 *)
Harmless(u, cfg) == Keeps(u.set, cfg) /\ u.del \intersect VolumeSlots = {}

LEMMA IdentityIsNoVolume ==
    ASSUME NEW m
    PROVE  IdentityKeys(m) \intersect VolumeSlots = {}
BY VolumesApart DEF IdentityKeys, IpKeySet, PlainKeys, HotKeys

LEMMA VmDriftKeeps ==
    ASSUME NEW m, ValidVM(m), NEW cfg
    PROVE  Harmless(VmDrift(m, cfg), cfg)
<1> DEFINE fields == FieldUpdates(m, cfg)
           devices == ChangedDevices(cfg, DeviceUpdates(m, cfg))
                        @@ EfiUpdate(m, Device(cfg, "efidisk0"))
           clear == IF IsCloneBacked(m) THEN CloneClearKeys(m, cfg) ELSE {}
<1>1. Keeps(fields, cfg)
  <2>1. DOMAIN Without(m.fields, CreateOnlyKeys) \intersect VolumeSlots = {}
    BY VolumesApart DEF ValidVM, Without, Restrict, PlainKeys
  <2> QED BY <2>1, ChangedWordsKeep DEF FieldUpdates
<1>2. Keeps(devices, cfg)
  BY DeviceUpdatesKeep, ChangedDevicesKeep, EfiKeeps, OverKeeps
<1>3. Keeps(TagUpdate(m, cfg), cfg)
  <2>1. DOMAIN ("tags" :> AllTags(m)) \intersect VolumeSlots = {}
    BY VolumesApart DEF PlainKeys, :>
  <2> QED BY <2>1, ChangedSetsKeep DEF TagUpdate
<1>4. Keeps(DataUpdates(m, cfg), cfg)
  <2>1. DOMAIN DeclaredSets(m) \intersect VolumeSlots = {}
    BY OverIs, VolumesApart
       DEF DeclaredSets, SetKeys, Only, Restrict, :>, Over, PlainKeys, CloneInheritedKeys
  <2>2. DOMAIN PasswordUpdate(m, cfg) \intersect VolumeSlots = {}
    BY VolumesApart
       DEF PasswordUpdate, Password, Nothing, :>, PlainKeys, CloneInheritedKeys
  <2> QED BY <2>1, <2>2, ChangedSetsKeep, ElsewhereKeeps, OverKeeps DEF DataUpdates
<1>5. clear \intersect VolumeSlots = {}
  BY IdentityIsNoVolume DEF CloneClearKeys, CloneDeleteKeys
<1>6. VmDrift(m, cfg).set = fields @@ devices @@ TagUpdate(m, cfg) @@ DataUpdates(m, cfg)
      /\ VmDrift(m, cfg).del = clear
  BY DEF VmDrift
<1> QED
  <2> HIDE DEF fields, devices, clear
  <2>1. Keeps(fields @@ devices, cfg)
    BY <1>1, <1>2, OverKeeps
  <2>2. Keeps(fields @@ devices @@ TagUpdate(m, cfg), cfg)
    BY <2>1, <1>3, OverKeeps
  <2> QED BY <2>2, <1>4, <1>5, <1>6, OverKeeps DEF Harmless

LEMMA LxcDriftKeeps ==
    ASSUME NEW m, ValidLXC(m), NEW cfg
    PROVE  Harmless(LxcDrift(m, cfg), cfg)
<1> DEFINE root == "rootfs" :> RootUpdate(Device(cfg, "rootfs"), m.root)
           mounts == [s \in DOMAIN m.mounts |-> MountUpdate(Device(cfg, s), m.mounts[s])]
           binds == [s \in DOMAIN m.binds |-> BindUpdate(Device(cfg, s), m.binds[s])]
           nets == [s \in DOMAIN m.nets |->
                      IF NetMatches(Device(cfg, s), m.nets[s])
                      THEN Device(cfg, s) ELSE m.nets[s]]
           fields == ChangedWords(cfg, CtFields(m))
           tags == ChangedSets(cfg, "tags" :> AllTags(m))
           volumes == ChangedDevices(cfg, VolumeUpdates(m, cfg))
           cold == SwitchUpdates(m, cfg) @@ volumes
<1>1. Keeps(root, cfg)
  BY RootKeeps, OneKeeps
<1>2. Keeps(mounts, cfg) /\ Keeps(binds, cfg)
  BY MountKeeps, BindKeeps DEF Keeps
<1>3. Keeps(nets, cfg)
  BY VolumesApart, ElsewhereKeeps DEF ValidLXC
<1>4. VolumeUpdates(m, cfg) = root @@ mounts @@ binds @@ nets
  BY DEF VolumeUpdates
<1>5. Keeps(VolumeUpdates(m, cfg), cfg)
  <2> HIDE DEF root, mounts, binds, nets
  <2>1. Keeps(root @@ mounts, cfg)
    BY <1>1, <1>2, OverKeeps
  <2>2. Keeps(root @@ mounts @@ binds, cfg)
    BY <2>1, <1>2, OverKeeps
  <2> QED BY <2>2, <1>3, <1>4, OverKeeps
<1>6. Keeps(fields, cfg)
  <2>1. DOMAIN CtFields(m) \intersect VolumeSlots = {}
    BY OverIs, VolumesApart DEF ValidLXC, CtFields, Over, :>, PlainKeys, HotCtKeys
  <2> QED BY <2>1, ChangedWordsKeep
<1>7. Keeps(tags, cfg)
  <2>1. DOMAIN ("tags" :> AllTags(m)) \intersect VolumeSlots = {}
    BY VolumesApart DEF PlainKeys, :>
  <2> QED BY <2>1, ChangedSetsKeep
<1>8. Keeps(cold, cfg)
  <2>1. DOMAIN SwitchUpdates(m, cfg) \intersect VolumeSlots = {}
    BY VolumesApart DEF SwitchUpdates, Only, Restrict, PlainKeys
  <2> QED BY <2>1, <1>5, ChangedDevicesKeep, ElsewhereKeeps, OverKeeps
<1>9. LxcDrift(m, cfg).set = fields @@ tags @@ cold /\ LxcDrift(m, cfg).del = {}
  BY DEF LxcDrift
<1> QED
  <2> HIDE DEF fields, tags, cold
  <2>1. Keeps(fields @@ tags, cfg)
    BY <1>6, <1>7, OverKeeps
  <2> QED BY <2>1, <1>8, <1>9, OverKeeps DEF Harmless

(* The first write to a clone names no disk, unless the manifest declares  *)
(* an EFI disk of its own: that would be written in the create form.       *)
LEMMA CloneWritesNoVolume ==
    ASSUME NEW m, ValidVM(m), m.efi = Nothing, NEW cfg
    PROVE  DOMAIN CloneConfigWrite(m, cfg) \intersect VolumeSlots = {}
<1>1. DOMAIN Devices(m) \intersect VolumeSlots \subseteq DiskSlots
  <2> DEFINE tpm == IF m.tpm # "" THEN "tpm0" :> Tpm(m) ELSE Nothing
             drive == IF m.drive # "" THEN "ide2" :> CloudInitDrive(m) ELSE Nothing
             cdrom == IF m.cdrom # "" THEN CdromSlot(m) :> Cdrom(m) ELSE Nothing
  <2>1. /\ DOMAIN tpm \subseteq {"tpm0"} /\ DOMAIN drive \subseteq {"ide2"}
        /\ DOMAIN cdrom \subseteq {"ide2", "ide3"}
    BY DEF CdromSlot, :>, Nothing
  <2>2. Devices(m) = m.disks @@ m.nics @@ m.pci @@ Nothing @@ tpm @@ drive @@ cdrom
    BY DEF Devices
  <2> HIDE DEF tpm, drive, cdrom
  <2>3. DOMAIN Devices(m) = DOMAIN m.disks \union DOMAIN m.nics \union DOMAIN m.pci
                              \union DOMAIN tpm \union DOMAIN drive \union DOMAIN cdrom
    <3> DEFINE plain == m.disks @@ m.nics @@ m.pci @@ Nothing
    <3>1. DOMAIN (m.disks @@ m.nics) = DOMAIN m.disks \union DOMAIN m.nics
      BY OverDomain
    <3>2. DOMAIN (m.disks @@ m.nics @@ m.pci)
            = DOMAIN m.disks \union DOMAIN m.nics \union DOMAIN m.pci
      BY <3>1, OverDomain
    <3>3. DOMAIN Nothing = {}
      BY DEF Nothing
    <3>4. DOMAIN plain = DOMAIN m.disks \union DOMAIN m.nics \union DOMAIN m.pci
      <4>1. DOMAIN plain = DOMAIN (m.disks @@ m.nics @@ m.pci) \union DOMAIN Nothing
        BY OverDomain
      <4> QED BY <4>1, <3>2, <3>3
    <3>5. Devices(m) = plain @@ tpm @@ drive @@ cdrom
      BY <2>2
    <3> HIDE DEF plain
    <3>6. DOMAIN (plain @@ tpm) = DOMAIN plain \union DOMAIN tpm
      BY OverDomain
    <3>7. DOMAIN (plain @@ tpm @@ drive)
            = DOMAIN plain \union DOMAIN tpm \union DOMAIN drive
      BY <3>6, OverDomain
    <3>8. DOMAIN (plain @@ tpm @@ drive @@ cdrom)
            = DOMAIN plain \union DOMAIN tpm \union DOMAIN drive \union DOMAIN cdrom
      BY <3>7, OverDomain
    <3> QED BY <3>4, <3>5, <3>8
  <2> QED BY <2>1, <2>3, VolumesApart DEF ValidVM
<1>2. DOMAIN DeclaredSets(m) \intersect VolumeSlots = {}
  BY OverIs, VolumesApart
     DEF DeclaredSets, SetKeys, Only, Restrict, :>, Over, PlainKeys, CloneInheritedKeys
<1>3. DOMAIN Password(m) \intersect VolumeSlots = {}
  BY VolumesApart DEF Password, Nothing, :>, PlainKeys, CloneInheritedKeys
<1>4. (DOMAIN m.fields \union {"tags"}) \intersect VolumeSlots = {}
  BY VolumesApart DEF ValidVM, PlainKeys
<1>5. DOMAIN VmCreate(m) = DOMAIN m.fields \union {"tags"} \union DOMAIN Devices(m)
                             \union DOMAIN DeclaredSets(m) \union DOMAIN Password(m)
  BY OverIs DEF VmCreate, Over, :>
<1>6. DOMAIN CloneConfigSet(m) \intersect VolumeSlots = {}
  BY <1>1, <1>2, <1>3, <1>4, <1>5 DEF CloneConfigSet, Without, Restrict
<1> QED BY <1>6 DEF CloneConfigWrite, Without, Restrict

LEMMA CloneWriteKeeps ==
    ASSUME NEW m, ValidVM(m), m.efi = Nothing, NEW cfg
    PROVE  /\ Keeps(CloneConfigWrite(m, cfg), cfg)
           /\ CloneDeleteKeys(m) \intersect VolumeSlots = {}
BY CloneWritesNoVolume, ElsewhereKeeps, IdentityIsNoVolume DEF CloneDeleteKeys

-----------------------------------------------------------------------------
(* The cycle.                                                              *)

(* The write to come was computed from the configuration that was read,    *)
(* for a manifest that no push changes meanwhile.                          *)
IInv ==
    /\ manifest \in Manifests
    /\ pc = "clone" => IsVM(manifest) /\ IsCloneBacked(manifest)
    /\ pc \in {"stop", "write"} => Harmless(plan.update, seen)

(* What the theorem asks of the manifests, beside that they are valid.     *)
ClonesInheritEfi == \A m \in Manifests : IsVM(m) /\ m.clone => m.efi = Nothing

LEMMA DriftKeeps ==
    ASSUME NEW m \in Manifests, NEW cfg
    PROVE  Harmless(Drift(m, cfg), cfg)
BY ManifestsAssumption, VmDriftKeeps, LxcDriftKeeps DEF Drift, Valid

LEMMA Inductive ==
    ASSUME ClonesInheritEfi
    PROVE  IInv /\ [Next]_vars => IInv'
<1> SUFFICES ASSUME IInv, [Next]_vars PROVE IInv'
  OBVIOUS
<1> USE DEF IInv, counters, cycle
<1>1. CASE Plan
  BY <1>1, DriftKeeps DEF Plan
<1>2. CASE StopFirst
  BY <1>2 DEF StopFirst
<1>3. CASE Write \/ Restart
  BY <1>3 DEF Write, Restart
<1>4. CASE Power \/ CutOff
  BY <1>4 DEF Power, CutOff, Idle
<1>5. CASE Create \/ CloneGuest
  BY <1>5 DEF Create, CloneGuest
<1>6. CASE CloneRead
  <2>1. plan'.update = [set |-> CloneConfigWrite(manifest, live),
                        del |-> CloneDeleteKeys(manifest), stop |-> FALSE]
    BY <1>6 DEF CloneRead, NoPlan
  <2>2. ValidVM(manifest) /\ manifest.efi = Nothing
    BY <1>6, ManifestsAssumption DEF CloneRead, Valid, ClonesInheritEfi, IsCloneBacked
  <2> QED BY <1>6, <2>1, <2>2, CloneWriteKeeps DEF CloneRead, Harmless
<1>7. CASE WriteFails
  BY <1>7 DEF WriteFails
<1>8. CASE Push \/ Edit
  BY <1>8 DEF Push, Edit
<1>9. CASE UNCHANGED vars
  BY <1>9 DEF vars
<1> QED
  BY <1>1, <1>2, <1>3, <1>4, <1>5, <1>6, <1>7, <1>8, <1>9 DEF Next, AgentStep

(* What is no option of a disk or a mount is always reported.              *)
LEMMA AlwaysReported ==
    ASSUME NEW d, NEW t, t \notin {"ssd", "discard"} \union MountOptions
    PROVE  IsReported(d, t)
BY DEF IsReported

(* PVE stores a value that names a volume under that name.                 *)
LEMMA StoredKeeps ==
    ASSUME NEW cur, NEW d, "vol" \in DOMAIN d
    PROVE  LET e == StoredDevice(cur, d) IN "vol" \in DOMAIN e /\ e["vol"] = d["vol"]
<1>1. IsReported(d, "vol")
  BY AlwaysReported DEF MountOptions
<1> QED BY <1>1, OverIs DEF StoredDevice, IsCreateForm, Reports, Only, Restrict, Over, :>

(* What a write that names the volumes of what was read does to a volume   *)
(* that is still there.                                                    *)
LEMMA WriteKeeps ==
    ASSUME NEW set, NEW del, Keeps(set, seen), del \intersect VolumeSlots = {},
           live' = Stored(live, set, del),
           NEW s \in VolumeSlots, SameVolume(seen, live, s)
    PROVE  SameVolume(live, live', s)
<1> DEFINE written == {k \in DOMAIN set : k \in SwitchKeys => set[k] # "0"}
           kept == Without(live, del \union (SwitchKeys \intersect DOMAIN set))
<1>1. s \notin SwitchKeys /\ s \in DeviceSlots
  BY VolumesApart DEF PlainKeys, DeviceSlots
<1>2. s \in DOMAIN seen /\ s \in DOMAIN live
  BY DEF SameVolume, HasVolume, Device, Nothing
<1>3. "vol" \in DOMAIN live[s] /\ "vol" \in DOMAIN seen[s] /\ live[s]["vol"] = seen[s]["vol"]
  BY <1>2 DEF SameVolume, HasVolume, Device
<1>4. CASE s \in DOMAIN set
  <2>1. "vol" \in DOMAIN set[s] /\ set[s]["vol"] = live[s]["vol"]
    BY <1>2, <1>3, <1>4 DEF Keeps, SameVol, Device
  <2>2. s \in DOMAIN live' /\ live'[s] = StoredDevice(Device(live, s), set[s])
    BY OverIs, <1>1, <1>4 DEF Stored, Over
  <2>3. "vol" \in DOMAIN live'[s] /\ live'[s]["vol"] = live[s]["vol"]
    BY <2>1, <2>2, StoredKeeps
  <2> QED BY <1>2, <1>3, <2>2, <2>3 DEF SameVolume, HasVolume, Device
<1>5. CASE s \notin DOMAIN set
  <2>1. s \in DOMAIN live' /\ live'[s] = live[s]
    BY OverIs, <1>1, <1>2, <1>5 DEF Stored, Without, Restrict, Over
  <2> QED BY <1>2, <1>3, <2>1 DEF SameVolume, HasVolume, Device
<1> QED BY <1>4, <1>5

LEMMA UntouchedKeeps ==
    ASSUME NEW s, SameVolume(seen, live, s), live' = live
    PROVE  SameVolume(live, live', s)
BY DEF SameVolume

WriteOver ==
    pc = "write" /\ pc' # "write" =>
        \A s \in VolumeSlots : SameVolume(seen, live, s) => SameVolume(live, live', s)

LEMMA StepKeeps == IInv /\ [Next]_vars => WriteOver
<1> SUFFICES ASSUME IInv, [Next]_vars, pc = "write", pc' # "write",
                    NEW s \in VolumeSlots, SameVolume(seen, live, s)
             PROVE  SameVolume(live, live', s)
  BY DEF WriteOver
<1>1. Harmless(plan.update, seen)
  BY DEF IInv
<1>2. CASE Write
  BY <1>1, <1>2, WriteKeeps DEF Write, Harmless
<1>3. CASE WriteFails
  <2>1. Keeps(Without(plan.update.set, DeviceSlots), seen)
    BY ElsewhereKeeps DEF Without, Restrict, DeviceSlots
  <2> QED BY <1>1, <1>3, <2>1, WriteKeeps, UntouchedKeeps DEF WriteFails, Harmless
<1>4. CASE CutOff
  BY <1>4, UntouchedKeeps DEF CutOff
<1>5. ~Plan /\ ~StopFirst /\ ~Restart /\ ~Power /\ ~Create /\ ~CloneGuest
      /\ ~CloneRead /\ ~Push
  BY DEF Plan, StopFirst, Restart, Power, Create, CloneGuest, CloneRead, Push
<1>6. ~Edit /\ ~UNCHANGED vars
  BY DEF Edit, cycle, vars
<1> QED BY <1>2, <1>3, <1>4, <1>5, <1>6 DEF Next, AgentStep

(* vm.go, lxc.go: no update, and no update that PVE carries out only in    *)
(* part, costs a guest a volume that the cycle has read.                   *)
THEOREM NoVolumeIsLost ==
    ASSUME ClonesInheritEfi
    PROVE  Spec => VolumesKept
<1>1. Init => IInv
  BY DEF Init, IInv
<1>2. IInv /\ [Next]_vars => IInv'
  BY Inductive
<1>3. IInv /\ [Next]_vars => [WriteOver]_vars
  BY StepKeeps
<1>4. VolumesKept <=> [][WriteOver]_vars
  BY PTL DEF VolumesKept, WriteOver
<1> QED BY <1>1, <1>2, <1>3, <1>4, PTL DEF Spec

=============================================================================
