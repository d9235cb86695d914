---------------------------- MODULE ConfigProofs ----------------------------
(***************************************************************************)
(* What the configuration of a guest is, for every manifest, template and  *)
(* edit by hand: while a cycle writes to it, and when the agent has come   *)
(* to rest.  The proofs rest on what a write may contain (Fits): values    *)
(* that PVE turns into complete devices, the unowned options of a volume   *)
(* that has any, and no address the manifest does not declare.             *)
(***************************************************************************)
EXTENDS GuestProofs

(* Whatever is there, PVE makes a complete device of the value.            *)
Storable(s, v) == \A cur : IsComplete(s, StoredDevice(cur, v))

(* v keeps the options of cur, but the declared ones and iothread, and is  *)
(* no more of a mount than cur.                                            *)
Spared(cur, v, declared) ==
    /\ \A t \in DOMAIN cur \ (declared \union {"iothread"}) :
          t \in DOMAIN v /\ v[t] = cur[t]
    /\ "mp" \in DOMAIN v <=> "mp" \in DOMAIN cur

(* The EFI disk of a clone that declares one is written anew (vm.go:1040). *)
RestatesEfi(m) == IsCloneBacked(m) /\ m.efi # Nothing

(* A value v for key s, where cur is what the cycle has read.              *)
FitAt(s, v, cur, m) ==
    /\ s \in DeviceSlots => Storable(s, v)
    /\ s \in SwitchKeys => IsSwitch(v)
    /\ IsVM(m) /\ s \in IpKeySet => s \in DOMAIN m.fields
    /\ /\ IsVM(m) /\ ~RestatesEfi(m)
       /\ s \in DiskSlots \union {"efidisk0"} /\ "vol" \in DOMAIN cur
       => Spared(cur, v, DOMAIN Device(Devices(m), s))

Fits(set, cfg, m) == \A s \in DOMAIN set : FitAt(s, set[s], Device(cfg, s), m)

-----------------------------------------------------------------------------
(* Putting values together.                                                *)

LEMMA OverFits ==
    ASSUME NEW f, NEW g, NEW cfg, NEW m, Fits(f, cfg, m), Fits(g, cfg, m)
    PROVE  Fits(f @@ g, cfg, m)
BY OverIs DEF Fits, Over

LEMMA OnlyFits ==
    ASSUME NEW f, NEW S, NEW cfg, NEW m, Fits(f, cfg, m)
    PROVE  Fits(Only(f, S), cfg, m) /\ Fits(Without(f, S), cfg, m)
BY DEF Fits, Only, Without, Restrict

LEMMA OneFits ==
    ASSUME NEW k, NEW v, NEW cfg, NEW m, FitAt(k, v, Device(cfg, k), m)
    PROVE  Fits(k :> v, cfg, m)
BY DEF Fits, :>

LEMMA NothingFits == ASSUME NEW cfg, NEW m PROVE Fits(Nothing, cfg, m)
BY DEF Fits, Nothing

(* Keys that hold neither a device nor a switch nor an address.            *)
LEMMA ElsewhereFits ==
    ASSUME NEW f, NEW cfg, NEW m,
           DOMAIN f \intersect (DeviceSlots \union SwitchKeys \union IpKeySet) = {}
    PROVE  Fits(f, cfg, m)
BY DEF Fits, FitAt, DeviceSlots, VolumeSlots

(* A device that is no volume of a VM's own fits if it can be stored.      *)
LEMMA DeviceFits ==
    ASSUME NEW s \in DeviceSlots, NEW v, Storable(s, v), NEW cur, NEW m,
           s \notin DiskSlots \union {"efidisk0"} \/ "vol" \notin DOMAIN cur
    PROVE  FitAt(s, v, cur, m)
BY SlotsAssumption DEF FitAt, PlainKeys, HotKeys

-----------------------------------------------------------------------------
(* What PVE makes of a device.                                             *)

LEMMA NothingIsEmpty == \A f : f = Nothing => DOMAIN f = {}
BY DEF Nothing

(* A volume, told with options that PVE would not report.                  *)
Names(d) ==
    /\ {"pool", "vol"} \subseteq DOMAIN d
    /\ DOMAIN d \intersect {"host", "file", "bridge"} = {}
    /\ Option(d, "of", "") = "cloudinit" \/ "size" \in DOMAIN d
    /\ IsSwitch(Option(d, "iothread", "0"))

(* What tells a volume or a bind is always reported.                       *)
LEMMA ToldReported ==
    ASSUME NEW d, NEW t \in {"pool", "vol", "size", "of", "iothread", "host", "mp"}
    PROVE  IsReported(d, t)
BY AlwaysReported DEF MountOptions

(* Two mounts, or two disks, report the same value alike.                  *)
LEMMA SameReported ==
    ASSUME NEW d, NEW e, "mp" \in DOMAIN e <=> "mp" \in DOMAIN d,
           NEW t, e[t] = d[t], IsReported(d, t)
    PROVE  IsReported(e, t)
BY DEF IsReported

LEMMA ReportsIs ==
    ASSUME NEW d
    PROVE  /\ DOMAIN Reports(d) = {t \in DOMAIN d : IsReported(d, t)}
           /\ \A t \in DOMAIN Reports(d) : Reports(d)[t] = d[t]
BY DEF Reports, Only, Restrict

(* A volume asked for.                                                     *)
Orders(d) ==
    /\ "pool" \in DOMAIN d
    /\ DOMAIN d \intersect {"vol", "host", "file", "bridge"} = {}
    /\ IsSwitch(Option(d, "iothread", "0"))

LEMMA NoThreadIsSwitch ==
    ASSUME NEW d, "iothread" \notin DOMAIN d
    PROVE  IsSwitch(Option(d, "iothread", "0"))
BY DEF Option, IsSwitch

LEMMA SameThreadIsSwitch ==
    ASSUME NEW d, IsSwitch(Option(d, "iothread", "0")), NEW e,
           "iothread" \in DOMAIN e =>
               "iothread" \in DOMAIN d /\ e["iothread"] = d["iothread"]
    PROVE  IsSwitch(Option(e, "iothread", "0"))
BY DEF Option, IsSwitch

LEMMA VolumeNames == ASSUME NEW d, IsVolume(d) PROVE Names(d)
BY DEF IsVolume, Names

LEMMA NamesStored ==
    ASSUME NEW d, Names(d), NEW cur
    PROVE  /\ IsVolume(StoredDevice(cur, d))
           /\ "mp" \in DOMAIN d => "mp" \in DOMAIN StoredDevice(cur, d)
<1>1. StoredDevice(cur, d) = Reports(d)
  BY DEF StoredDevice, IsCreateForm, Names
<1>2. IsSwitch(Option(Reports(d), "iothread", "0"))
  BY SameThreadIsSwitch DEF Names, Reports, Only, Restrict
<1>3. \A t \in {"pool", "vol", "size", "of", "mp"} :
         (t \in DOMAIN Reports(d) <=> t \in DOMAIN d)
  BY ToldReported, ReportsIs
<1>4. \A t \in DOMAIN Reports(d) : IsReported(Reports(d), t)
  BY <1>3, ReportsIs, SameReported
<1>5. Option(Reports(d), "of", "") = Option(d, "of", "")
  BY <1>3, ReportsIs DEF Option
<1> QED
  BY <1>1, <1>2, <1>3, <1>4, <1>5, ReportsIs DEF Names, IsVolume

LEMMA OrdersStored ==
    ASSUME NEW d, Orders(d), NEW cur
    PROVE  /\ IsVolume(StoredDevice(cur, d))
           /\ "mp" \in DOMAIN d => "mp" \in DOMAIN StoredDevice(cur, d)
<1> DEFINE kept == Without(Reports(d), {"from"})
           vol == "vol" :> (IF Option(cur, "vol", "") = "a" THEN "b" ELSE "a")
           size == IF Option(d, "of", "") = "cloudinit" THEN Nothing
                   ELSE "size" :> "3G"
           e == StoredDevice(cur, d)
<1>1. e = kept @@ vol @@ size
  BY DEF StoredDevice, Allocated, IsCreateForm, Orders
<1>2. /\ DOMAIN kept = {t \in DOMAIN d : IsReported(d, t) /\ t # "from"}
      /\ \A t \in DOMAIN kept : kept[t] = d[t]
  BY DEF Reports, Only, Without, Restrict
<1>3. /\ DOMAIN vol = {"vol"}
      /\ DOMAIN size = IF Option(d, "of", "") = "cloudinit" THEN {} ELSE {"size"}
  BY DEF :>, Nothing
<1>4. /\ DOMAIN e = DOMAIN kept \union {"vol"} \union DOMAIN size
      /\ \A t \in DOMAIN kept : e[t] = d[t]
  <2> HIDE DEF kept, vol, size, e
  <2>1. /\ DOMAIN (kept @@ vol) = DOMAIN kept \union {"vol"}
        /\ \A t \in DOMAIN kept : (kept @@ vol)[t] = d[t]
    BY OverIs, <1>2, <1>3 DEF Over
  <2> QED BY <1>1, <2>1, OverIs DEF Over
<1>5. "pool" \in DOMAIN kept /\ ("mp" \in DOMAIN d => "mp" \in DOMAIN kept)
      /\ ("of" \in DOMAIN d => "of" \in DOMAIN kept)
  BY <1>2, ToldReported DEF Orders
<1>6. DOMAIN e \intersect {"host", "file", "bridge"} = {}
  BY <1>2, <1>3, <1>4 DEF Orders
<1>7. \A t \in DOMAIN e : IsReported(e, t)
  <2> HIDE DEF kept, vol, size, e
  <2>1. "mp" \in DOMAIN e <=> "mp" \in DOMAIN d
    <3>1. DOMAIN size \subseteq {"size"}
      BY <1>3 DEF size, :>, Nothing
    <3>2. "mp" \in DOMAIN kept <=> "mp" \in DOMAIN d
      BY <1>2, <1>5
    <3> QED BY <1>3, <1>4, <3>1, <3>2
  <2>2. \A t \in DOMAIN kept : IsReported(e, t)
    BY <1>2, <1>4, <2>1, SameReported
  <2> QED BY <1>3, <1>4, <2>2, ToldReported
<1>8. Option(e, "of", "") = "cloudinit" \/ "size" \in DOMAIN e
  <2>1. CASE Option(d, "of", "") = "cloudinit"
    BY <1>4, <1>5, <2>1 DEF Option
  <2>2. CASE Option(d, "of", "") # "cloudinit"
    BY <1>3, <1>4, <2>2
  <2> QED BY <2>1, <2>2
<1>9. IsSwitch(Option(e, "iothread", "0"))
  <2> HIDE DEF kept, vol, size, e
  <2> QED BY <1>2, <1>3, <1>4, SameThreadIsSwitch DEF Orders
<1> QED
  <2> HIDE DEF kept, vol, size, e
  <2> QED BY <1>4, <1>5, <1>6, <1>7, <1>8, <1>9 DEF IsVolume, e

(* A volume, named or asked for, can be stored where volumes are.          *)
LEMMA VolumeStorable ==
    ASSUME NEW s \in VolumeSlots, NEW d, Names(d) \/ Orders(d),
           s \in MpSlots => "mp" \in DOMAIN d
    PROVE  Storable(s, d)
<1>1. s \notin {"ide2", "ide3"}
  BY VolumesApart
<1> QED BY <1>1, NamesStored, OrdersStored DEF Storable, IsComplete

(* A bind is told by its directory and its path.                           *)
LEMMA BindStorable ==
    ASSUME NEW s \in MpSlots, NEW d, {"host", "mp"} \subseteq DOMAIN d,
           DOMAIN d \intersect {"vol", "pool", "file", "bridge"} = {}
    PROVE  Storable(s, d)
<1>1. ASSUME NEW cur PROVE StoredDevice(cur, d) = Reports(d)
  BY DEF StoredDevice, IsCreateForm
<1>2. {"host", "mp"} \subseteq DOMAIN Reports(d) /\ "vol" \notin DOMAIN Reports(d)
  BY ReportsIs, ToldReported
<1>3. s \notin DiskSlots \union {"efidisk0", "rootfs", "ide2", "ide3"}
  BY SlotsAssumption DEF VolumeSlots
<1> QED BY <1>1, <1>2, <1>3 DEF Storable, IsComplete, IsBind

(* An ISO, an empty drive, and what is no volume at all.                   *)
LEMMA IsoStorable ==
    ASSUME NEW s \in {"ide2", "ide3"}, NEW file, file \notin {"", "none"}
    PROVE  Storable(s, [file |-> file, pool |-> IsoPool])
<1> DEFINE d == [file |-> file, pool |-> IsoPool]
<1>1. ASSUME NEW cur PROVE StoredDevice(cur, d) = d @@ ("size" :> "600M")
  BY DEF StoredDevice, IsCreateForm
<1>2. IsIso(d @@ ("size" :> "600M"))
  BY OverIs DEF IsIso, Over, :>
<1>3. s \notin DiskSlots \union MpSlots \union {"efidisk0", "rootfs"}
  BY SlotsAssumption DEF VolumeSlots
<1> QED BY <1>1, <1>2, <1>3 DEF Storable, IsComplete

LEMMA DriveStorable ==
    ASSUME NEW s \in {"ide2", "ide3"}, NEW m
    PROVE  Storable(s, CloudInitDrive(m))
<1> DEFINE d == CloudInitDrive(m)
<1>1. DOMAIN d = {"pool", "of"} /\ d["of"] = "cloudinit"
  BY DEF CloudInitDrive
<1>2. ASSUME NEW cur PROVE IsDrive(StoredDevice(cur, d))
  <2> HIDE DEF d
  <2>1. IsVolume(StoredDevice(cur, d))
    BY <1>1, NoThreadIsSwitch, OrdersStored DEF Orders
  <2>2. StoredDevice(cur, d) = Allocated(d, Option(cur, "vol", ""))
    BY <1>1 DEF StoredDevice, IsCreateForm
  <2>3. "of" \in DOMAIN Without(Reports(d), {"from"})
        /\ Without(Reports(d), {"from"})["of"] = "cloudinit"
    BY <1>1, ReportsIs, ToldReported DEF Without, Restrict
  <2>4. \A f, g, h : "of" \in DOMAIN f
           => "of" \in DOMAIN (f @@ g @@ h) /\ (f @@ g @@ h)["of"] = f["of"]
    <3>1. \A f, g : "of" \in DOMAIN f
             => "of" \in DOMAIN (f @@ g) /\ (f @@ g)["of"] = f["of"]
      BY OverIs DEF Over
    <3> QED BY <3>1
  <2>5. Option(StoredDevice(cur, d), "of", "") = "cloudinit"
    BY <2>2, <2>3, <2>4 DEF Allocated, Option
  <2>6. "size" \notin DOMAIN StoredDevice(cur, d)
    <3> DEFINE kept == Without(Reports(d), {"from"})
               vol == "vol" :> (IF Option(cur, "vol", "") = "a" THEN "b" ELSE "a")
    <3>1. Allocated(d, Option(cur, "vol", "")) = kept @@ vol @@ Nothing
      BY <1>1 DEF Allocated, Option
    <3>2. "size" \notin DOMAIN kept /\ "size" \notin DOMAIN vol
      BY <1>1 DEF Without, Reports, Only, Restrict, :>
    <3>3. DOMAIN Nothing = {}
      BY DEF Nothing
    <3> HIDE DEF kept, vol
    <3>4. DOMAIN (kept @@ vol) = DOMAIN kept \union DOMAIN vol
      BY OverDomain
    <3> DEFINE both == kept @@ vol
    <3> HIDE DEF both
    <3>5. DOMAIN (both @@ Nothing) = DOMAIN both
      <4>1. DOMAIN (both @@ Nothing) = DOMAIN both \union DOMAIN Nothing
        BY OverDomain
      <4> QED BY <3>3, <4>1
    <3>6. StoredDevice(cur, d) = both @@ Nothing
      BY <2>2, <3>1 DEF both
    <3>7. "size" \notin DOMAIN both
      BY <3>2, <3>4 DEF both
    <3> QED BY <3>5, <3>6, <3>7
  <2> QED BY <2>1, <2>5, <2>6 DEF IsDrive
<1>3. s \notin DiskSlots \union MpSlots \union {"efidisk0", "rootfs"}
  BY SlotsAssumption DEF VolumeSlots
<1> QED BY <1>2, <1>3 DEF Storable, IsComplete

LEMMA NothingStorable == ASSUME NEW s PROVE Storable(s, Nothing)
<1>1. ASSUME NEW cur PROVE StoredDevice(cur, Nothing) = Reports(Nothing)
  BY DEF StoredDevice, IsCreateForm, Nothing
<1>2. Reports(Nothing) = Nothing
  BY DEF Reports, Only, Restrict, Nothing
<1> QED BY <1>1, <1>2 DEF Storable, IsComplete

LEMMA OtherStorable ==
    ASSUME NEW s \in NicSlots \union PciSlots \union {"tpm0"}, NEW v
    PROVE  Storable(s, v)
BY SlotsAssumption DEF Storable, IsComplete, VolumeSlots

-----------------------------------------------------------------------------
(* What a VM's manifest writes.                                            *)

LEMMA PlainApart ==
    /\ DeviceSlots \intersect (PlainKeys \union {"name"}) = {}
    /\ IpKeySet \intersect DeviceSlots = {}
BY SlotsAssumption DEF PlainKeys, HotKeys

LEMMA DevicesOfDisks ==
    ASSUME NEW m, NEW s \in DOMAIN m.disks
    PROVE  Device(Devices(m), s) = m.disks[s]
<1> DEFINE a == m.disks @@ m.nics
           b == a @@ m.pci
           c == b @@ (IF m.efi # Nothing THEN "efidisk0" :> m.efi ELSE Nothing)
           d == c @@ (IF m.tpm # "" THEN "tpm0" :> Tpm(m) ELSE Nothing)
           e == d @@ (IF m.drive # "" THEN "ide2" :> CloudInitDrive(m) ELSE Nothing)
           f == e @@ (IF m.cdrom # "" THEN CdromSlot(m) :> Cdrom(m) ELSE Nothing)
<1>1. s \in DOMAIN a /\ a[s] = m.disks[s]
  BY OverIs DEF Over
<1>2. s \in DOMAIN b /\ b[s] = m.disks[s]
  BY <1>1, OverIs DEF Over
<1>3. s \in DOMAIN c /\ c[s] = m.disks[s]
  <2> HIDE DEF b
  <2> QED BY <1>2, OverIs DEF Over
<1>4. s \in DOMAIN d /\ d[s] = m.disks[s]
  <2> HIDE DEF c
  <2> QED BY <1>3, OverIs DEF Over
<1>5. s \in DOMAIN e /\ e[s] = m.disks[s]
  <2> HIDE DEF d
  <2> QED BY <1>4, OverIs DEF Over
<1>6. s \in DOMAIN f /\ f[s] = m.disks[s]
  <2> HIDE DEF e
  <2> QED BY <1>5, OverIs DEF Over
<1>7. f = Devices(m)
  BY DEF Devices
<1> QED
  <2> HIDE DEF f
  <2> QED BY <1>6, <1>7 DEF Device

LEMMA DiskFits ==
    ASSUME NEW m, ValidVM(m), NEW s \in DOMAIN m.disks, NEW cur, IsComplete(s, cur)
    PROVE  FitAt(s, DiskUpdate(cur, m.disks[s]), cur, m)
<1> DEFINE want == m.disks[s]
           rewrite == LiveDriveRewrite(cur, want)
<1>1. s \in DiskSlots /\ s \in DeviceSlots /\ s \notin MpSlots
      /\ s \notin SwitchKeys /\ s \notin IpKeySet
  BY PlainApart, SlotsAssumption DEF ValidVM, DeviceSlots, VolumeSlots, PlainKeys
<1>2. Declares(want, {"pool"}, {"from", "size"} \union DriveOptions)
  BY DEF ValidVM
<1>3. Device(Devices(m), s) = want
  BY DevicesOfDisks
<1>6. IsSwitch(Option(want, "iothread", "0"))
  BY DEF ValidVM, Option, IsSwitch
<1>4. CASE IsNewStorageSlot(cur)
  <2>1. Orders(want)
    BY <1>2, <1>6 DEF Declares, DriveOptions, Orders
  <2>2. "vol" \notin DOMAIN cur
    BY <1>4 DEF IsNewStorageSlot, Nothing
  <2> QED BY <1>1, <1>4, <2>1, <2>2, VolumeStorable DEF FitAt, DiskUpdate, VolumeSlots
<1>5. CASE ~IsNewStorageSlot(cur)
  <2>1. IsVolume(cur)
    BY <1>1, <1>5 DEF IsComplete, IsNewStorageSlot
  <2>2. /\ DOMAIN rewrite = (DOMAIN want \intersect DriveOptions)
                           \union (DOMAIN cur \ {"iothread"})
        /\ \A t \in DOMAIN cur \ (DOMAIN want \union {"iothread"}) : rewrite[t] = cur[t]
        /\ "iothread" \in DOMAIN rewrite =>
              "iothread" \in DOMAIN want /\ rewrite["iothread"] = want["iothread"]
    BY OverIs DEF LiveDriveRewrite, Only, Without, Restrict, Over
  <2>3. Spared(cur, rewrite, DOMAIN want) /\ Spared(cur, cur, DOMAIN want)
    BY <2>2 DEF Spared, DriveOptions
  <2>4. Names(rewrite)
    <3>1. /\ "pool" \in DOMAIN rewrite /\ "vol" \in DOMAIN rewrite
          /\ "size" \in DOMAIN cur => "size" \in DOMAIN rewrite
      BY <2>1, <2>2 DEF IsVolume
    <3>2. DOMAIN rewrite \intersect {"host", "file", "bridge"} = {}
      BY <2>1, <2>2 DEF IsVolume, DriveOptions
    <3>3. "of" \in DOMAIN cur => "of" \in DOMAIN rewrite /\ rewrite["of"] = cur["of"]
      BY <1>2, <2>2 DEF Declares, DriveOptions
    <3>4. IsSwitch(Option(rewrite, "iothread", "0"))
      <4> HIDE DEF rewrite, want
      <4> QED BY <1>6, <2>2, SameThreadIsSwitch
    <3> HIDE DEF rewrite
    <3> QED BY <2>1, <3>1, <3>2, <3>3, <3>4 DEF IsVolume, Names, Option
  <2>5. Storable(s, rewrite) /\ Storable(s, cur)
    BY <1>1, <2>1, <2>4, VolumeNames, VolumeStorable DEF VolumeSlots
  <2>6. DiskUpdate(cur, want) \in {rewrite, cur}
    BY <1>5 DEF DiskUpdate
  <2>7. FitAt(s, rewrite, cur, m) /\ FitAt(s, cur, cur, m)
    <3> HIDE DEF rewrite, want
    <3> QED BY <1>1, <1>3, <2>3, <2>5 DEF FitAt, want
  <2> HIDE DEF rewrite
  <2> QED BY <2>6, <2>7
<1> QED BY <1>4, <1>5

LEMMA DevicesOfEfi ==
    ASSUME NEW m, ValidVM(m), m.efi # Nothing
    PROVE  Device(Devices(m), "efidisk0") = m.efi
<1> DEFINE s == "efidisk0"
           a == m.disks @@ m.nics
           b == a @@ m.pci
           c == b @@ (IF m.efi # Nothing THEN s :> m.efi ELSE Nothing)
           d == c @@ (IF m.tpm # "" THEN "tpm0" :> Tpm(m) ELSE Nothing)
           e == d @@ (IF m.drive # "" THEN "ide2" :> CloudInitDrive(m) ELSE Nothing)
           f == e @@ (IF m.cdrom # "" THEN CdromSlot(m) :> Cdrom(m) ELSE Nothing)
<1>1. s \notin DOMAIN m.disks /\ s \notin DOMAIN m.nics /\ s \notin DOMAIN m.pci
  BY SlotsAssumption DEF ValidVM, VolumeSlots
<1>2. s \notin DOMAIN b
  <2>1. DOMAIN a = DOMAIN m.disks \union DOMAIN m.nics
    BY OverDomain
  <2> HIDE DEF a
  <2>2. DOMAIN b = DOMAIN a \union DOMAIN m.pci
    BY OverDomain
  <2> QED BY <1>1, <2>1, <2>2
<1>3. s \in DOMAIN c /\ c[s] = m.efi
  <2>1. c = b @@ (s :> m.efi)
    OBVIOUS
  <2> HIDE DEF b, c
  <2> QED BY <1>2, <2>1, OverIs DEF Over, :>
<1>4. s \in DOMAIN d /\ d[s] = m.efi
  <2> HIDE DEF c
  <2> QED BY <1>3, OverIs DEF Over
<1>5. s \in DOMAIN e /\ e[s] = m.efi
  <2> HIDE DEF d
  <2> QED BY <1>4, OverIs DEF Over
<1>6. s \in DOMAIN f /\ f[s] = m.efi
  <2> HIDE DEF e
  <2> QED BY <1>5, OverIs DEF Over
<1>7. f = Devices(m)
  BY DEF Devices
<1> QED
  <2> HIDE DEF f
  <2> QED BY <1>6, <1>7 DEF Device

LEMMA EfiFits ==
    ASSUME NEW m, ValidVM(m), NEW cfg, IsComplete("efidisk0", Device(cfg, "efidisk0"))
    PROVE  Fits(EfiUpdate(m, Device(cfg, "efidisk0")), cfg, m)
<1> DEFINE cur == Device(cfg, "efidisk0")
           rewrite == EfiRewrite(cur, m.efi)
           s == "efidisk0"
<1>1. s \in DeviceSlots /\ s \notin MpSlots /\ s \notin SwitchKeys /\ s \notin IpKeySet
  BY PlainApart, SlotsAssumption DEF DeviceSlots, VolumeSlots, SwitchKeys
<1>2. SUFFICES ASSUME m.efi # Nothing
               PROVE  Fits(EfiUpdate(m, cur), cfg, m)
  BY NothingFits DEF EfiUpdate
<1>3. Declares(m.efi, {"pool"}, {"size", "efitype", "keys"})
  BY <1>2 DEF ValidVM
<1>4. Device(Devices(m), s) = m.efi
  BY <1>2, DevicesOfEfi
<1>5. CASE IsNewStorageSlot(cur)
  <2>1. Orders(m.efi)
    BY <1>3, NoThreadIsSwitch DEF Declares, Orders
  <2>2. "vol" \notin DOMAIN cur
    BY <1>5 DEF IsNewStorageSlot, Nothing
  <2>3. FitAt(s, m.efi, cur, m)
    BY <1>1, <2>1, <2>2, VolumeStorable, DeviceFits DEF VolumeSlots
  <2> QED BY <1>2, <1>5, <2>3, OneFits DEF EfiUpdate
<1>6. CASE ~IsNewStorageSlot(cur)
  <2>1. IsVolume(cur)
    BY <1>6 DEF IsComplete, IsNewStorageSlot
  <2>2. /\ DOMAIN rewrite = (DOMAIN m.efi \intersect {"keys", "efitype"}) \union DOMAIN cur
        /\ \A t \in DOMAIN cur \ DOMAIN m.efi : rewrite[t] = cur[t]
    <3> DEFINE keys == Only(m.efi, {"keys"})
               type == Only(m.efi, {"efitype"})
    <3>1. /\ DOMAIN keys = DOMAIN m.efi \intersect {"keys"}
          /\ DOMAIN type = DOMAIN m.efi \intersect {"efitype"}
      BY DEF Only, Restrict
    <3>2. rewrite = keys @@ cur @@ type
      BY DEF EfiRewrite
    <3> HIDE DEF keys, type, rewrite, cur
    <3>3. /\ DOMAIN (keys @@ cur) = DOMAIN keys \union DOMAIN cur
          /\ \A t \in DOMAIN cur \ DOMAIN m.efi : (keys @@ cur)[t] = cur[t]
      BY <3>1, OverIs DEF Over
    <3> QED BY <3>1, <3>2, <3>3, OverIs DEF Over
  <2>3. Spared(cur, rewrite, DOMAIN m.efi)
    BY <2>2 DEF Spared
  <2>4. Names(rewrite)
    <3>1. /\ "pool" \in DOMAIN rewrite /\ "vol" \in DOMAIN rewrite
          /\ "size" \in DOMAIN cur => "size" \in DOMAIN rewrite
      BY <2>1, <2>2 DEF IsVolume
    <3>2. DOMAIN rewrite \intersect {"host", "file", "bridge"} = {}
      BY <2>1, <2>2 DEF IsVolume
    <3>3. "of" \in DOMAIN cur => "of" \in DOMAIN rewrite /\ rewrite["of"] = cur["of"]
      BY <1>3, <2>2 DEF Declares
    <3>4. IsSwitch(Option(rewrite, "iothread", "0"))
      <4>1. IsSwitch(Option(cur, "iothread", "0"))
        BY <2>1 DEF IsVolume
      <4>2. "iothread" \in DOMAIN rewrite =>
              "iothread" \in DOMAIN cur /\ rewrite["iothread"] = cur["iothread"]
        BY <1>3, <2>2 DEF Declares
      <4> HIDE DEF rewrite, cur
      <4> QED BY <4>1, <4>2, SameThreadIsSwitch
    <3> HIDE DEF rewrite
    <3> QED BY <2>1, <3>1, <3>2, <3>3, <3>4 DEF IsVolume, Names, Option
  <2>5. FitAt(s, rewrite, cur, m)
    <3>1. Storable(s, rewrite)
      BY <1>1, <2>4, VolumeStorable DEF VolumeSlots
    <3> HIDE DEF rewrite, cur
    <3> QED BY <1>1, <1>4, <2>3, <3>1 DEF FitAt
  <2> QED BY <1>6, <2>5, OneFits, NothingFits DEF EfiUpdate
<1> QED BY <1>5, <1>6

(* As Fits, where what is there already counts as fit.                     *)
Updates(want, cfg, m) ==
    \A s \in DOMAIN want :
        want[s] = Device(cfg, s) \/ FitAt(s, want[s], Device(cfg, s), m)

LEMMA OverUpdates ==
    ASSUME NEW f, NEW g, NEW cfg, NEW m, Updates(f, cfg, m), Updates(g, cfg, m)
    PROVE  Updates(f @@ g, cfg, m)
BY OverIs DEF Updates, Over

LEMMA OneUpdates ==
    ASSUME NEW k, NEW v, NEW cfg, NEW m,
           v = Device(cfg, k) \/ FitAt(k, v, Device(cfg, k), m)
    PROVE  Updates(k :> v, cfg, m)
BY DEF Updates, :>

LEMMA NothingUpdates == ASSUME NEW cfg, NEW m PROVE Updates(Nothing, cfg, m)
BY DEF Updates, Nothing

LEMMA ChangedFit ==
    ASSUME NEW want, NEW cfg, NEW m, Updates(want, cfg, m)
    PROVE  Fits(ChangedDevices(cfg, want), cfg, m)
BY DEF Updates, Fits, ChangedDevices, Only, Restrict

(* The devices that no update has to spare anything of.                    *)
LEMMA OtherFits ==
    ASSUME NEW s \in NicSlots \union PciSlots \union {"tpm0"}, NEW v, NEW cur, NEW m
    PROVE  FitAt(s, v, cur, m)
<1>1. s \in DeviceSlots /\ s \notin DiskSlots \union {"efidisk0"}
  BY SlotsAssumption DEF DeviceSlots, VolumeSlots
<1> QED BY <1>1, OtherStorable, DeviceFits

LEMMA DriveFits ==
    ASSUME NEW s \in {"ide2", "ide3"}, NEW v, NEW cur, NEW m,
           \/ v = Nothing
           \/ v = CloudInitDrive(m)
           \/ m.cdrom \notin {"", "none"} /\ v = [file |-> m.cdrom, pool |-> IsoPool]
    PROVE  FitAt(s, v, cur, m)
<1>1. s \in DeviceSlots /\ s \notin DiskSlots \union {"efidisk0"} /\ s \notin MpSlots
  BY SlotsAssumption DEF DeviceSlots, VolumeSlots
<1> QED
  BY <1>1, DeviceFits, NothingStorable, DriveStorable, IsoStorable

LEMMA DeviceUpdatesFit ==
    ASSUME NEW m, ValidVM(m), NEW cfg,
           \A s \in DeviceSlots : IsComplete(s, Device(cfg, s))
    PROVE  Updates(DeviceUpdates(m, cfg), cfg, m)
<1> DEFINE cur(s) == Device(cfg, s)
           disks == [s \in DOMAIN m.disks |-> DiskUpdate(cur(s), m.disks[s])]
           nics == [s \in DOMAIN m.nics |->
                      IF NicMatches(cur(s), m.nics[s]) THEN cur(s) ELSE m.nics[s]]
           tpm == IF m.tpm \in {"", Option(cur("tpm0"), "version", "")}
                  THEN Nothing ELSE "tpm0" :> Tpm(m)
           drive == IF m.drive = "" THEN Nothing
                    ELSE "ide2" :> DriveUpdate(m, cur("ide2"))
           cdrom == IF m.cdrom = "" THEN Nothing
                    ELSE CdromSlot(m) :> CdromUpdate(m, cur(CdromSlot(m)))
<1>1. Updates(disks, cfg, m)
  <2>1. DOMAIN m.disks \subseteq DeviceSlots
    BY DEF ValidVM, DeviceSlots, VolumeSlots
  <2> QED BY <2>1, DiskFits DEF Updates
<1>2. Updates(nics, cfg, m) /\ Updates(m.pci, cfg, m)
  <2>1. DOMAIN m.nics \subseteq NicSlots /\ DOMAIN m.pci \subseteq PciSlots
    BY DEF ValidVM
  <2> QED BY <2>1, OtherFits DEF Updates
<1>3. Updates(tpm, cfg, m)
  BY OtherFits, OneUpdates, NothingUpdates
<1>4. Updates(drive, cfg, m)
  <2>1. DriveUpdate(m, cur("ide2")) \in {cur("ide2"), CloudInitDrive(m)}
    BY DEF DriveUpdate
  <2>2. \/ DriveUpdate(m, cur("ide2")) = Device(cfg, "ide2")
        \/ FitAt("ide2", DriveUpdate(m, cur("ide2")), Device(cfg, "ide2"), m)
    BY <2>1, DriveFits
  <2> QED BY <2>2, OneUpdates, NothingUpdates
<1>5. Updates(cdrom, cfg, m)
  <2> DEFINE s == CdromSlot(m)
  <2>1. s \in {"ide2", "ide3"}
    BY DEF CdromSlot
  <2>2. \/ CdromUpdate(m, cur(s)) \in {cur(s), Nothing}
        \/ /\ m.cdrom # "none"
           /\ CdromUpdate(m, cur(s)) = [file |-> m.cdrom, pool |-> IsoPool]
    BY DEF CdromUpdate, Cdrom
  <2>3. m.cdrom # "" =>
          \/ CdromUpdate(m, cur(s)) = Device(cfg, s)
          \/ FitAt(s, CdromUpdate(m, cur(s)), Device(cfg, s), m)
    <3> HIDE DEF s
    <3> QED BY <2>1, <2>2, DriveFits
  <2> QED BY <2>3, OneUpdates, NothingUpdates
<1>6. DeviceUpdates(m, cfg) = disks @@ nics @@ m.pci @@ tpm @@ drive @@ cdrom
  BY DEF DeviceUpdates
<1> QED
  <2> HIDE DEF disks, nics, tpm, drive, cdrom
  <2>1. Updates(disks @@ nics @@ m.pci, cfg, m)
    BY <1>1, <1>2, OverUpdates
  <2>2. Updates(disks @@ nics @@ m.pci @@ tpm @@ drive, cfg, m)
    BY <2>1, <1>3, <1>4, OverUpdates
  <2> QED BY <2>2, <1>5, <1>6, OverUpdates

(* The keys that are no devices.                                           *)
LEMMA FieldsFit ==
    ASSUME NEW m, ValidVM(m), IsVM(m), NEW cfg
    PROVE  Fits(m.fields, cfg, m)
<1> SUFFICES ASSUME NEW s \in DOMAIN m.fields PROVE FitAt(s, m.fields[s], Device(cfg, s), m)
  BY DEF Fits
<1>1. s \in ColdKeys \union HotKeys \union CreateOnlyKeys
  BY DEF ValidVM
<1>2. s \notin DeviceSlots
  BY <1>1, PlainApart DEF PlainKeys
<1>3. ASSUME s \in SwitchKeys PROVE s \in VmSwitches
  BY <1>1, <1>3, SlotsAssumption
     DEF SwitchKeys, VmSwitches, ColdKeys, HotKeys, OptionKeys, CreateOnlyKeys
<1>4. s \in SwitchKeys => IsSwitch(m.fields[s])
  BY <1>3 DEF ValidVM, IsSwitch
<1> QED BY <1>2, <1>4 DEF FitAt, DeviceSlots, VolumeSlots

LEMMA DataApart ==
    ({"tags"} \union CloneInheritedKeys)
        \intersect (DeviceSlots \union SwitchKeys \union IpKeySet) = {}
BY SlotsAssumption DEF PlainKeys, CloneInheritedKeys, SwitchKeys

LEMMA DataDomains ==
    ASSUME NEW m
    PROVE  /\ DOMAIN DeclaredSets(m) \subseteq CloneInheritedKeys
           /\ DOMAIN Password(m) \subseteq CloneInheritedKeys
           /\ DOMAIN ("tags" :> AllTags(m)) = {"tags"}
BY OverIs DEF DeclaredSets, SetKeys, Password, Only, Restrict, :>, Over, Nothing,
              CloneInheritedKeys

LEMMA DataFits ==
    ASSUME NEW m, NEW cfg
    PROVE  /\ Fits(DeclaredSets(m), cfg, m) /\ Fits(Password(m), cfg, m)
           /\ Fits("tags" :> AllTags(m), cfg, m)
BY DataApart, DataDomains, ElsewhereFits

LEMMA VmDriftFits ==
    ASSUME NEW m, ValidVM(m), IsVM(m), NEW cfg,
           \A s \in DeviceSlots : IsComplete(s, Device(cfg, s))
    PROVE  Fits(VmDrift(m, cfg).set, cfg, m)
<1> DEFINE fields == FieldUpdates(m, cfg)
           devices == ChangedDevices(cfg, DeviceUpdates(m, cfg))
                        @@ EfiUpdate(m, Device(cfg, "efidisk0"))
<1>1. Fits(fields, cfg, m)
  BY FieldsFit, OnlyFits DEF FieldUpdates, ChangedWords
<1>2. Fits(devices, cfg, m)
  <2>1. "efidisk0" \in DeviceSlots
    BY DEF DeviceSlots, VolumeSlots
  <2> QED BY <2>1, DeviceUpdatesFit, ChangedFit, EfiFits, OverFits
<1>3. Fits(TagUpdate(m, cfg), cfg, m)
  BY DataFits, OnlyFits DEF TagUpdate, ChangedSets
<1>4. Fits(DataUpdates(m, cfg), cfg, m)
  BY DataFits, OnlyFits, NothingFits, OverFits
     DEF DataUpdates, ChangedSets, PasswordUpdate
<1>5. VmDrift(m, cfg).set = fields @@ devices @@ TagUpdate(m, cfg) @@ DataUpdates(m, cfg)
  BY DEF VmDrift
<1> QED
  <2> HIDE DEF fields, devices
  <2>1. Fits(fields @@ devices @@ TagUpdate(m, cfg), cfg, m)
    BY <1>1, <1>2, <1>3, OverFits
  <2> QED BY <2>1, <1>4, <1>5, OverFits

(* All that a manifest may ask for, in the create form.                    *)
LEMMA DevicesFit ==
    ASSUME NEW m, ValidVM(m)
    PROVE  Fits(Devices(m), Nothing, m)
<1> DEFINE efi == IF m.efi # Nothing THEN "efidisk0" :> m.efi ELSE Nothing
           tpm == IF m.tpm # "" THEN "tpm0" :> Tpm(m) ELSE Nothing
           drive == IF m.drive # "" THEN "ide2" :> CloudInitDrive(m) ELSE Nothing
           cdrom == IF m.cdrom # "" THEN CdromSlot(m) :> Cdrom(m) ELSE Nothing
<1>1. \A s : Device(Nothing, s) = Nothing
  BY DEF Device, Nothing
<1>2. "vol" \notin DOMAIN Nothing
  BY DEF Nothing
<1>3. ASSUME NEW s \in VolumeSlots, NEW d, Orders(d), s \notin MpSlots
      PROVE  FitAt(s, d, Nothing, m)
  BY <1>2, <1>3, VolumeStorable, DeviceFits DEF DeviceSlots
<1>4. Fits(m.disks, Nothing, m)
  <2> SUFFICES ASSUME NEW s \in DOMAIN m.disks PROVE FitAt(s, m.disks[s], Nothing, m)
    BY <1>1 DEF Fits
  <2>1. s \in VolumeSlots /\ s \notin MpSlots
    BY SlotsAssumption DEF ValidVM, VolumeSlots
  <2>2. Declares(m.disks[s], {"pool"}, {"from", "size"} \union DriveOptions)
    BY DEF ValidVM
  <2>3. IsSwitch(Option(m.disks[s], "iothread", "0"))
    BY DEF ValidVM, Option, IsSwitch
  <2>4. Orders(m.disks[s])
    BY <2>2, <2>3 DEF Declares, DriveOptions, Orders
  <2> QED BY <1>3, <2>1, <2>4
<1>5. Fits(m.nics, Nothing, m) /\ Fits(m.pci, Nothing, m)
  <2>1. DOMAIN m.nics \subseteq NicSlots /\ DOMAIN m.pci \subseteq PciSlots
    BY DEF ValidVM
  <2> QED BY <2>1, OtherFits DEF Fits
<1>6. Fits(efi, Nothing, m)
  <2>1. "efidisk0" \in VolumeSlots /\ "efidisk0" \notin MpSlots
    BY SlotsAssumption DEF VolumeSlots
  <2>2. m.efi # Nothing => Orders(m.efi)
    BY NoThreadIsSwitch DEF ValidVM, Declares, Orders
  <2>3. m.efi # Nothing => FitAt("efidisk0", m.efi, Device(Nothing, "efidisk0"), m)
    BY <1>1, <1>3, <2>1, <2>2
  <2> QED BY <2>3, OneFits, NothingFits
<1>7. Fits(tpm, Nothing, m) /\ Fits(drive, Nothing, m)
  BY OtherFits, DriveFits, OneFits, NothingFits
<1>8. Fits(cdrom, Nothing, m)
  <2>1. CdromSlot(m) \in {"ide2", "ide3"}
    BY DEF CdromSlot
  <2>2. \/ Cdrom(m) = Nothing
        \/ m.cdrom # "none" /\ Cdrom(m) = [file |-> m.cdrom, pool |-> IsoPool]
    BY DEF Cdrom
  <2>3. m.cdrom # "" => FitAt(CdromSlot(m), Cdrom(m), Device(Nothing, CdromSlot(m)), m)
    BY <2>1, <2>2, DriveFits
  <2> QED BY <2>3, OneFits, NothingFits
<1>9. Devices(m) = m.disks @@ m.nics @@ m.pci @@ efi @@ tpm @@ drive @@ cdrom
  BY DEF Devices
<1> QED
  <2> HIDE DEF efi, tpm, drive, cdrom
  <2>1. Fits(m.disks @@ m.nics @@ m.pci, Nothing, m)
    BY <1>4, <1>5, OverFits
  <2>2. Fits(m.disks @@ m.nics @@ m.pci @@ efi @@ tpm, Nothing, m)
    BY <2>1, <1>6, <1>7, OverFits
  <2>3. Fits(m.disks @@ m.nics @@ m.pci @@ efi @@ tpm @@ drive, Nothing, m)
    BY <2>2, <1>7, OverFits
  <2> QED BY <2>3, <1>8, <1>9, OverFits

LEMMA VmCreateFits ==
    ASSUME NEW m, ValidVM(m), IsVM(m)
    PROVE  Fits(VmCreate(m), Nothing, m)
<1>1. VmCreate(m) = m.fields @@ ("tags" :> AllTags(m)) @@ Devices(m)
                      @@ DeclaredSets(m) @@ Password(m)
  BY DEF VmCreate
<1>2. Fits(m.fields @@ ("tags" :> AllTags(m)) @@ Devices(m), Nothing, m)
  BY FieldsFit, DataFits, DevicesFit, OverFits
<1> QED BY <1>1, <1>2, DataFits, OverFits

(* The first write to a clone.                                             *)
LEMMA CloneWriteFits ==
    ASSUME NEW m, ValidVM(m), IsVM(m), IsCloneBacked(m), NEW cfg
    PROVE  Fits(CloneConfigWrite(m, cfg), cfg, m)
<1> DEFINE set == CloneConfigWrite(m, cfg)
<1> SUFFICES ASSUME NEW s \in DOMAIN set PROVE FitAt(s, set[s], Device(cfg, s), m)
  BY DEF Fits
<1>1. Fits(set, Nothing, m)
  BY VmCreateFits, OnlyFits DEF CloneConfigWrite, CloneConfigSet
<1>2. FitAt(s, set[s], Device(Nothing, s), m)
  BY <1>1 DEF Fits
<1>3. s \notin DiskSlots
  BY DEF CloneConfigWrite, CloneConfigSet, Without, Restrict
<1>4. s = "efidisk0" => RestatesEfi(m)
  BY CloneWritesNoVolume DEF VolumeSlots, RestatesEfi
<1> HIDE DEF set
<1> QED BY <1>2, <1>3, <1>4 DEF FitAt

-----------------------------------------------------------------------------
(* What a container's manifest writes.                                     *)

(* A container has no volume whose options the update has to spare.        *)
LEMMA CtFitAt ==
    ASSUME NEW m, ~IsVM(m), NEW s, NEW v, NEW cur,
           s \in DeviceSlots => Storable(s, v), s \in SwitchKeys => IsSwitch(v)
    PROVE  FitAt(s, v, cur, m)
BY DEF FitAt

LEMMA CtDeviceFits ==
    ASSUME NEW m, ~IsVM(m), NEW s \in DeviceSlots, NEW v, Storable(s, v), NEW cur
    PROVE  FitAt(s, v, cur, m)
BY PlainApart, CtFitAt DEF PlainKeys

LEMMA MountFits ==
    ASSUME NEW m, ValidLXC(m), CreatableLXC(m), ~IsVM(m), NEW s \in DOMAIN m.mounts,
           NEW cur, IsComplete(s, cur), NEW c
    PROVE  /\ FitAt(s, m.mounts[s], c, m)
           /\ \/ MountUpdate(cur, m.mounts[s]) = cur
              \/ FitAt(s, MountUpdate(cur, m.mounts[s]), c, m)
<1> DEFINE want == m.mounts[s]
           rewrite == MountRewrite(cur, want)
<1>1. s \in MpSlots /\ s \in DeviceSlots
  BY DEF ValidLXC, DeviceSlots, VolumeSlots
<1>2. Declares(want, {"pool", "size"}, {"mp"} \union MountOptions)
  BY DEF ValidLXC
<1>3. Orders(want) /\ "mp" \in DOMAIN want
  BY <1>2, NoThreadIsSwitch DEF Declares, MountOptions, Orders, CreatableLXC
<1>4. FitAt(s, want, c, m)
  BY <1>1, <1>3, VolumeStorable, CtDeviceFits DEF VolumeSlots
<1>5. CASE IsNewStorageSlot(cur)
  BY <1>4, <1>5 DEF MountUpdate
<1>6. CASE ~IsNewStorageSlot(cur) /\ ~IsBind(cur)
  <2>1. IsVolume(cur) /\ "mp" \in DOMAIN cur
    BY <1>1, <1>6 DEF IsComplete, IsNewStorageSlot
  <2>2. /\ DOMAIN rewrite = (DOMAIN want \intersect ({"mp"} \union MountOptions))
                           \union (DOMAIN cur \ MountOptions)
        /\ \A t \in DOMAIN cur \ DOMAIN want : t \notin MountOptions => rewrite[t] = cur[t]
    BY OverIs DEF MountRewrite, Only, Without, Restrict, Over
  <2>3. /\ {"pool", "vol", "mp"} \subseteq DOMAIN rewrite
        /\ "size" \in DOMAIN cur => "size" \in DOMAIN rewrite
        /\ DOMAIN rewrite \intersect {"host", "file", "bridge"} = {}
    BY <2>1, <2>2 DEF IsVolume, MountOptions
  <2>4. "of" \in DOMAIN cur => "of" \in DOMAIN rewrite /\ rewrite["of"] = cur["of"]
    BY <1>2, <2>2 DEF Declares, MountOptions
  <2>5. Names(rewrite)
    <3>1. IsSwitch(Option(cur, "iothread", "0"))
      BY <2>1 DEF IsVolume
    <3>2. "iothread" \in DOMAIN rewrite =>
            "iothread" \in DOMAIN cur /\ rewrite["iothread"] = cur["iothread"]
      BY <1>2, <2>2 DEF Declares, MountOptions
    <3> HIDE DEF rewrite
    <3>3. IsSwitch(Option(rewrite, "iothread", "0"))
      BY <3>1, <3>2, SameThreadIsSwitch
    <3> QED BY <2>1, <2>3, <2>4, <3>3 DEF IsVolume, Names, Option
  <2>6. FitAt(s, rewrite, c, m)
    <3> HIDE DEF rewrite
    <3> QED BY <1>1, <2>3, <2>5, VolumeStorable, CtDeviceFits DEF VolumeSlots
  <2> QED BY <1>4, <1>6, <2>6 DEF MountUpdate
<1>7. CASE ~IsNewStorageSlot(cur) /\ IsBind(cur)
  BY <1>4, <1>7 DEF MountUpdate
<1> QED BY <1>5, <1>6, <1>7

LEMMA BindFits ==
    ASSUME NEW m, ValidLXC(m), ~IsVM(m), NEW s \in DOMAIN m.binds, NEW cur, NEW c
    PROVE  /\ FitAt(s, m.binds[s], c, m)
           /\ BindUpdate(cur, m.binds[s]) \in {cur, m.binds[s]}
<1>1. s \in MpSlots /\ s \in DeviceSlots
  BY DEF ValidLXC, DeviceSlots, VolumeSlots
<1>2. Declares(m.binds[s], {"host", "mp"}, {"ro"})
  BY DEF ValidLXC
<1>3. Storable(s, m.binds[s])
  BY <1>1, <1>2, BindStorable DEF Declares
<1> QED BY <1>1, <1>3, CtDeviceFits DEF BindUpdate

LEMMA RootFits ==
    ASSUME NEW m, ValidLXC(m), ~IsVM(m), NEW c
    PROVE  FitAt("rootfs", m.root, c, m)
<1>1. "rootfs" \in DeviceSlots /\ "rootfs" \notin MpSlots
  BY SlotsAssumption DEF DeviceSlots, VolumeSlots
<1>2. Orders(m.root)
  BY NoThreadIsSwitch DEF ValidLXC, Declares, Orders
<1> QED BY <1>1, <1>2, VolumeStorable, CtDeviceFits DEF VolumeSlots

LEMMA VolumeUpdatesFit ==
    ASSUME NEW m, ValidLXC(m), CreatableLXC(m), ~IsVM(m), NEW cfg,
           \A s \in DeviceSlots : IsComplete(s, Device(cfg, s))
    PROVE  Updates(VolumeUpdates(m, cfg), cfg, m)
<1> DEFINE cur(s) == Device(cfg, s)
           root == "rootfs" :> RootUpdate(cur("rootfs"), m.root)
           mounts == [s \in DOMAIN m.mounts |-> MountUpdate(cur(s), m.mounts[s])]
           binds == [s \in DOMAIN m.binds |-> BindUpdate(cur(s), m.binds[s])]
           nets == [s \in DOMAIN m.nets |->
                      IF NetMatches(cur(s), m.nets[s]) THEN cur(s) ELSE m.nets[s]]
<1>1. Updates(root, cfg, m)
  <2>1. \/ RootUpdate(cur("rootfs"), m.root) = Device(cfg, "rootfs")
        \/ FitAt("rootfs", RootUpdate(cur("rootfs"), m.root), Device(cfg, "rootfs"), m)
    BY RootFits DEF RootUpdate
  <2> QED BY <2>1, OneUpdates
<1>2. Updates(mounts, cfg, m)
  <2>1. DOMAIN m.mounts \subseteq DeviceSlots
    BY DEF ValidLXC, DeviceSlots, VolumeSlots
  <2> QED BY <2>1, MountFits DEF Updates
<1>3. Updates(binds, cfg, m)
  BY BindFits DEF Updates
<1>4. Updates(nets, cfg, m)
  <2>1. DOMAIN m.nets \subseteq NicSlots
    BY DEF ValidLXC
  <2> QED BY <2>1, OtherFits DEF Updates
<1>5. VolumeUpdates(m, cfg) = root @@ mounts @@ binds @@ nets
  BY DEF VolumeUpdates
<1> QED
  <2> HIDE DEF root, mounts, binds, nets
  <2>1. Updates(root @@ mounts @@ binds, cfg, m)
    BY <1>1, <1>2, <1>3, OverUpdates
  <2> QED BY <2>1, <1>4, <1>5, OverUpdates

LEMMA CtFieldsFit ==
    ASSUME NEW m, ValidLXC(m), ~IsVM(m), NEW cfg
    PROVE  Fits(CtFields(m), cfg, m) /\ Fits(m.options, cfg, m)
<1>1. DOMAIN CtFields(m) \subseteq ColdCtKeys \union HotCtKeys
  BY OverIs DEF ValidLXC, CtFields, Over, :>, HotCtKeys
<1>2. (ColdCtKeys \union HotCtKeys) \intersect (DeviceSlots \union SwitchKeys) = {}
  BY PlainApart DEF PlainKeys, ColdCtKeys, HotCtKeys, SwitchKeys
<1>3. \A s \in DOMAIN m.options : s \notin DeviceSlots /\ IsSwitch(m.options[s])
  BY PlainApart DEF ValidLXC, PlainKeys, IsSwitch
<1> QED BY <1>1, <1>2, <1>3, CtFitAt DEF Fits

LEMMA LxcDriftFits ==
    ASSUME NEW m, ValidLXC(m), CreatableLXC(m), ~IsVM(m), NEW cfg,
           \A s \in DeviceSlots : IsComplete(s, Device(cfg, s))
    PROVE  Fits(LxcDrift(m, cfg).set, cfg, m)
<1> DEFINE fields == ChangedWords(cfg, CtFields(m))
           tags == ChangedSets(cfg, "tags" :> AllTags(m))
           switches == SwitchUpdates(m, cfg)
           volumes == ChangedDevices(cfg, VolumeUpdates(m, cfg))
<1>1. Fits(fields, cfg, m)
  BY CtFieldsFit, OnlyFits DEF ChangedWords
<1>2. Fits(tags, cfg, m)
  BY DataFits, OnlyFits DEF ChangedSets
<1>3. Fits(switches, cfg, m)
  <2>1. Fits(Only(m.options, SwitchKeys), cfg, m)
    BY CtFieldsFit, OnlyFits
  <2> QED BY <2>1, OnlyFits DEF SwitchUpdates
<1>4. Fits(volumes, cfg, m)
  BY VolumeUpdatesFit, ChangedFit
<1>5. LxcDrift(m, cfg).set = fields @@ tags @@ (switches @@ volumes)
  BY DEF LxcDrift
<1> QED
  <2> HIDE DEF fields, tags, switches, volumes
  <2> QED BY <1>1, <1>2, <1>3, <1>4, <1>5, OverFits

LEMMA LxcCreateFits ==
    ASSUME NEW m, ValidLXC(m), CreatableLXC(m), ~IsVM(m)
    PROVE  Fits(LxcCreate(m), Nothing, m)
<1> DEFINE root == "rootfs" :> m.root
           options == Without(m.options, {"keyctl", "fuse"})
<1>1. Fits(root, Nothing, m)
  BY RootFits, OneFits
<1>2. Fits(m.mounts, Nothing, m)
  <2>1. ASSUME NEW s \in DOMAIN m.mounts PROVE IsComplete(s, Nothing)
    BY DEF IsComplete
  <2> QED BY <2>1, MountFits DEF Fits
<1>3. Fits(m.binds, Nothing, m)
  BY BindFits DEF Fits
<1>4. Fits(m.nets, Nothing, m)
  BY OtherFits DEF ValidLXC, Fits
<1>5. Fits(options, Nothing, m)
  BY CtFieldsFit, OnlyFits
<1>6. LxcCreate(m) = CtFields(m) @@ ("tags" :> AllTags(m)) @@ root
                       @@ m.mounts @@ m.binds @@ m.nets @@ options
  BY DEF LxcCreate
<1> QED
  <2> HIDE DEF root, options
  <2>1. Fits(CtFields(m) @@ ("tags" :> AllTags(m)) @@ root, Nothing, m)
    BY <1>1, CtFieldsFit, DataFits, OverFits
  <2>2. Fits(CtFields(m) @@ ("tags" :> AllTags(m)) @@ root @@ m.mounts @@ m.binds,
             Nothing, m)
    BY <2>1, <1>2, <1>3, OverFits
  <2> QED BY <2>2, <1>4, <1>5, <1>6, OverFits

-----------------------------------------------------------------------------
(* What PVE has after a write.                                             *)

LEMMA OverWellFormed ==
    ASSUME NEW f, NEW g, WellFormed(f), WellFormed(g)
    PROVE  WellFormed(f @@ g)
BY OverIs DEF WellFormed, Over

LEMMA WithoutWellFormed ==
    ASSUME NEW f, NEW S, WellFormed(f)
    PROVE  WellFormed(Without(f, S))
BY DEF WellFormed, Without, Restrict

LEMMA PlainWellFormed ==
    ASSUME NEW k, NEW v, k \notin DeviceSlots, k \notin SwitchKeys
    PROVE  WellFormed(k :> v)
BY DEF WellFormed, :>

LEMMA NothingWellFormed == WellFormed(Nothing)
BY DEF WellFormed, Nothing

LEMMA WellFormedDevices ==
    ASSUME NEW cfg, WellFormed(cfg)
    PROVE  \A s \in DeviceSlots : IsComplete(s, Device(cfg, s))
BY DEF WellFormed, Device, IsComplete

LEMMA StoredWellFormed ==
    ASSUME NEW cfg, WellFormed(cfg), NEW set, NEW c, NEW m, Fits(set, c, m), NEW del
    PROVE  WellFormed(Stored(cfg, set, del))
<1> DEFINE keys == {k \in DOMAIN set : k \in SwitchKeys => set[k] # "0"}
           new == [k \in keys |-> IF k \in DeviceSlots
                                  THEN StoredDevice(Device(cfg, k), set[k]) ELSE set[k]]
           old == Without(cfg, del \union (SwitchKeys \intersect DOMAIN set))
<1>1. \A k \in keys : FitAt(k, set[k], Device(c, k), m)
  BY DEF Fits
<1>2. \A k \in DeviceSlots \intersect keys : IsComplete(k, new[k])
  BY <1>1 DEF FitAt, Storable
<1>3. \A k \in SwitchKeys \intersect keys : IsSwitch(new[k])
  BY <1>1, PlainApart DEF FitAt, PlainKeys
<1>4. WellFormed(new)
  <2>1. DOMAIN new = keys
    OBVIOUS
  <2> HIDE DEF new, keys
  <2> QED BY <1>2, <1>3, <2>1 DEF WellFormed
<1>5. WellFormed(old)
  BY WithoutWellFormed
<1> QED
  <2> HIDE DEF new, old
  <2> QED BY <1>4, <1>5, OverWellFormed DEF Stored, new, old, keys

LEMMA CreateFits ==
    ASSUME NEW m, Valid(m)
    PROVE  Fits(CreateConfig(m), Nothing, m)
<1>1. "name" \notin DeviceSlots \union SwitchKeys \union IpKeySet
  BY SlotsAssumption DEF SwitchKeys
<1>2. Fits("name" :> m.name, Nothing, m)
  BY <1>1, ElsewhereFits DEF :>
<1> QED
  BY <1>2, VmCreateFits, LxcCreateFits, OverFits DEF CreateConfig, Valid

LEMMA CreatedWellFormed ==
    ASSUME NEW m, Valid(m)
    PROVE  WellFormed(Stored(Nothing, CreateConfig(m), {}) @@ Filled(m))
<1>1. WellFormed(Stored(Nothing, CreateConfig(m), {}))
  BY CreateFits, NothingWellFormed, StoredWellFormed
<1>2. "arch" \notin DeviceSlots /\ "arch" \notin SwitchKeys
  BY PlainApart DEF PlainKeys, ColdCtKeys, SwitchKeys
<1>3. WellFormed(Filled(m))
  BY <1>2, PlainWellFormed, NothingWellFormed DEF Filled
<1> QED BY <1>1, <1>3, OverWellFormed

LEMMA DriftFits ==
    ASSUME NEW m, Valid(m), NEW cfg, WellFormed(cfg)
    PROVE  Fits(Drift(m, cfg).set, cfg, m)
BY WellFormedDevices, VmDriftFits, LxcDriftFits DEF Drift, Valid

LEMMA EditedWellFormed == WellFormed(live) /\ Edit => WellFormed(live')
<1> SUFFICES ASSUME WellFormed(live), EditWord \/ EditDevice
             PROVE  WellFormed(live')
  BY DEF Edit
<1>1. CASE EditWord
  <2>1. PICK e \in WordEdits :
           live' = IF e.word = "" THEN Without(live, {e.key})
                   ELSE (e.key :> e.word) @@ live
    BY <1>1 DEF EditWord
  <2>2. e.word # "" => WellFormed(e.key :> e.word)
    BY EditsAssumption DEF WellFormed, :>
  <2> QED BY <2>1, <2>2, WithoutWellFormed, OverWellFormed
<1>2. CASE EditDevice
  <2>1. PICK e \in DeviceEdits :
           \E device : IsComplete(e.key, device) /\ live' = (e.key :> device) @@ live
    BY <1>2 DEF EditDevice
  <2>2. e.key \in DeviceSlots /\ e.key \notin SwitchKeys
    BY EditsAssumption, PlainApart DEF PlainKeys
  <2>3. PICK device : IsComplete(e.key, device) /\ live' = (e.key :> device) @@ live
    BY <2>1
  <2>4. WellFormed(e.key :> device)
    BY <2>2, <2>3 DEF WellFormed, :>
  <2> QED BY <2>3, <2>4, OverWellFormed
<1> QED BY <1>1, <1>2

-----------------------------------------------------------------------------
(* The cycle writes what fits what it has read.                            *)

(* The executor has stopped a guest only between the stop and the end of   *)
(* the cycle, and until the restart it is down.                            *)
StoppedInv ==
    /\ stopped => pc \in {"write", "restart", "power"}
    /\ stopped /\ pc \in {"write", "restart"} => up = "stopped"
    /\ pc = "restart" => stopped

CountersOK ==
    /\ pushes \in Nat /\ edits \in Nat /\ faults \in Nat
    /\ pushes <= MaxPushes /\ edits <= MaxEdits /\ faults <= MaxFaults

PlanInv ==
    /\ pc = "clone" => IsVM(manifest) /\ IsCloneBacked(manifest)
    /\ pc \in {"stop", "write"} => Fits(plan.update.set, seen, manifest)

ShapeInv ==
    /\ manifest \in Manifests
    /\ up \in {"missing", "stopped", "running"}
    /\ pc \in {"idle", "stop", "write", "restart", "power", "clone"}
    /\ up = "missing" => pc = "idle" /\ live = Nothing
    /\ pc = "idle" => seen = Nothing /\ plan = NoPlan

GInv == ShapeInv /\ StoppedInv /\ CountersOK /\ WellFormed(live) /\ PlanInv

LEMMA GInit == Init => GInv
<1> SUFFICES ASSUME Init PROVE GInv
  OBVIOUS
<1>1. CountersOK
  BY BoundsAssumption DEF Init, CountersOK
<1> QED
  BY <1>1, NothingWellFormed DEF Init, GInv, ShapeInv, StoppedInv, PlanInv

LEMMA ShapeStep == ShapeInv /\ [Next]_vars => ShapeInv'
<1> SUFFICES ASSUME ShapeInv, [Next]_vars PROVE ShapeInv'
  OBVIOUS
<1> USE DEF ShapeInv
<1>1. CASE Plan
  BY <1>1 DEF Plan, counters
<1>2. CASE StopFirst \/ Write \/ Restart
  BY <1>2 DEF StopFirst, Write, Restart, counters
<1>3. CASE Power
  BY <1>3 DEF Power, Idle
<1>4. CASE Create
  BY <1>4 DEF Create, cycle
<1>5. CASE CloneGuest \/ CloneRead
  BY <1>5 DEF CloneGuest, CloneRead
<1>6. CASE WriteFails \/ CutOff
  BY <1>6 DEF WriteFails, CutOff, Idle
<1>7. CASE Push \/ Edit
  BY <1>7 DEF Push, Edit, cycle
<1>8. CASE UNCHANGED vars
  BY <1>8 DEF vars
<1> QED BY <1>1, <1>2, <1>3, <1>4, <1>5, <1>6, <1>7, <1>8 DEF Next, AgentStep

LEMMA StoppedStep == ShapeInv /\ StoppedInv /\ [Next]_vars => StoppedInv'
<1> SUFFICES ASSUME ShapeInv, StoppedInv, [Next]_vars PROVE StoppedInv'
  OBVIOUS
<1> USE DEF ShapeInv, StoppedInv
<1>1. CASE Plan
  BY <1>1 DEF Plan
<1>2. CASE StopFirst \/ Write \/ Restart
  BY <1>2 DEF StopFirst, Write, Restart
<1>3. CASE Power
  BY <1>3 DEF Power, Idle
<1>4. CASE Create
  BY <1>4 DEF Create, cycle
<1>5. CASE CloneGuest \/ CloneRead
  BY <1>5 DEF CloneGuest, CloneRead
<1>6. CASE WriteFails \/ CutOff
  BY <1>6 DEF WriteFails, CutOff, Idle
<1>7. CASE Push \/ Edit
  BY <1>7 DEF Push, Edit, cycle
<1>8. CASE UNCHANGED vars
  BY <1>8 DEF vars
<1> QED BY <1>1, <1>2, <1>3, <1>4, <1>5, <1>6, <1>7, <1>8 DEF Next, AgentStep

LEMMA CountersStep == CountersOK /\ [Next]_vars => CountersOK'
<1> SUFFICES ASSUME CountersOK, [Next]_vars PROVE CountersOK'
  OBVIOUS
<1>1. CASE AgentStep
  <2>1. UNCHANGED counters
    BY <1>1
       DEF AgentStep, Plan, StopFirst, Write, Restart, Power, Create, CloneGuest, CloneRead
  <2> QED BY <2>1 DEF counters, CountersOK
<1>2. CASE WriteFails \/ CutOff \/ Push \/ Edit
  BY <1>2, BoundsAssumption DEF WriteFails, CutOff, Push, Edit, CountersOK
<1>3. CASE UNCHANGED vars
  BY <1>3 DEF vars, CountersOK
<1> QED BY <1>1, <1>2, <1>3 DEF Next

LEMMA LiveStep == GInv /\ [Next]_vars => WellFormed(live')
<1> SUFFICES ASSUME GInv, [Next]_vars PROVE WellFormed(live')
  OBVIOUS
<1>1. Valid(manifest) /\ WellFormed(live)
  BY ManifestsAssumption DEF GInv, ShapeInv
<1>2. CASE live' = live
  BY <1>1, <1>2
<1>3. CASE Write
  BY <1>1, <1>3, StoredWellFormed DEF Write, GInv, PlanInv
<1>4. CASE WriteFails
  <2>1. Fits(Without(plan.update.set, DeviceSlots), seen, manifest)
    BY <1>4, OnlyFits DEF WriteFails, GInv, PlanInv
  <2> QED BY <1>1, <1>4, <2>1, StoredWellFormed DEF WriteFails
<1>5. CASE Create
  BY <1>1, <1>5, CreatedWellFormed DEF Create
<1>6. CASE CloneGuest
  <2>1. "name" \notin DeviceSlots /\ "name" \notin SwitchKeys
    BY SlotsAssumption DEF SwitchKeys
  <2> QED BY <1>6, <2>1, PlainWellFormed, OverWellFormed, TemplateAssumption DEF CloneGuest
<1>7. CASE Edit
  BY <1>1, <1>7, EditedWellFormed
<1>8. ASSUME Plan \/ StopFirst \/ Restart \/ Power \/ CloneRead
      PROVE  live' = live
  BY <1>8 DEF Plan, StopFirst, Restart, Power, CloneRead
<1>9. ASSUME CutOff \/ Push \/ UNCHANGED vars
      PROVE  live' = live
  BY <1>9 DEF CutOff, Push, vars
<1> QED
  BY <1>2, <1>3, <1>4, <1>5, <1>6, <1>7, <1>8, <1>9 DEF Next, AgentStep

LEMMA PlanStep == GInv /\ [Next]_vars => PlanInv'
<1> SUFFICES ASSUME GInv, [Next]_vars PROVE PlanInv'
  OBVIOUS
<1>1. PlanInv /\ manifest \in Manifests /\ Valid(manifest) /\ WellFormed(live)
  BY ManifestsAssumption DEF GInv, ShapeInv
<1>2. CASE Plan
  <2>1. /\ seen' = live /\ manifest' = manifest
        /\ plan'.update = Drift(manifest, live)
    BY <1>2 DEF Plan
  <2>2. Fits(plan'.update.set, seen', manifest')
    BY <1>1, <2>1, DriftFits
  <2>3. pc' # "clone"
    BY <1>2 DEF Plan
  <2> QED BY <2>2, <2>3 DEF PlanInv
<1>3. CASE CloneRead
  <2>1. /\ seen' = live /\ manifest' = manifest /\ pc' = "write"
        /\ plan'.update.set = CloneConfigWrite(manifest, live)
    BY <1>3 DEF CloneRead, NoPlan
  <2>2. IsVM(manifest) /\ IsCloneBacked(manifest) /\ ValidVM(manifest)
    BY <1>1, <1>3 DEF CloneRead, PlanInv, Valid
  <2>3. Fits(plan'.update.set, seen', manifest')
    BY <2>1, <2>2, CloneWriteFits
  <2> QED BY <2>1, <2>3 DEF PlanInv
<1>4. CASE StopFirst
  <2>1. pc' = "write" /\ UNCHANGED <<manifest, seen, plan>>
    BY <1>4 DEF StopFirst
  <2> QED BY <1>1, <1>4, <2>1 DEF PlanInv, StopFirst
<1>5. CASE CloneGuest
  BY <1>5 DEF CloneGuest, PlanInv
<1>6. ASSUME Write \/ Restart \/ Power \/ WriteFails \/ CutOff
      PROVE  pc' \in {"idle", "restart", "power"}
  BY <1>6 DEF Write, Restart, Power, WriteFails, CutOff, Idle
<1>7. ASSUME Create \/ Push
      PROVE  pc' = "idle"
  BY <1>7 DEF Create, Push, cycle
<1>8. CASE Edit \/ UNCHANGED vars
  <2>1. UNCHANGED <<manifest, pc, seen, plan>>
    BY <1>8 DEF Edit, cycle, vars
  <2> QED BY <1>1, <2>1 DEF PlanInv
<1>9. CASE pc' \in {"idle", "restart", "power"}
  BY <1>9 DEF PlanInv
<1> QED
  BY <1>2, <1>3, <1>4, <1>5, <1>6, <1>7, <1>8, <1>9 DEF Next, AgentStep

LEMMA GStep == GInv /\ [Next]_vars => GInv'
BY ShapeStep, StoppedStep, CountersStep, LiveStep, PlanStep DEF GInv

(* guest cycle: whatever hands, pushes and faults do, a configuration on   *)
(* PVE stays complete, and a cycle leaves nothing behind for the next.     *)
THEOREM GuestIsTyped == Spec => []GuestTypeOK
<1>1. GInv => GuestTypeOK
  BY DEF GInv, ShapeInv, StoppedInv, CountersOK, GuestTypeOK
<1> QED BY <1>1, GInit, GStep, PTL DEF Spec

-----------------------------------------------------------------------------
(* Options that a VM's manifest says nothing about.                        *)

(* A write changes nothing of a slot that it does not name.                *)
LEMMA UntouchedSlot ==
    ASSUME NEW set, NEW del, NEW cfg, NEW s \in VolumeSlots, s \in DOMAIN cfg,
           s \notin del, s \notin DOMAIN set
    PROVE  s \in DOMAIN Stored(cfg, set, del) /\ Stored(cfg, set, del)[s] = cfg[s]
<1>1. s \notin SwitchKeys
  BY VolumesApart DEF PlainKeys
<1> QED BY <1>1, OverIs DEF Stored, Without, Restrict, Over

LEMMA WrittenSlot ==
    ASSUME NEW set, NEW del, NEW cfg, NEW s \in VolumeSlots, s \in DOMAIN set
    PROVE  /\ s \in DOMAIN Stored(cfg, set, del)
           /\ Stored(cfg, set, del)[s] = StoredDevice(Device(cfg, s), set[s])
<1>1. s \notin SwitchKeys /\ s \in DeviceSlots
  BY VolumesApart DEF PlainKeys, DeviceSlots
<1> QED BY <1>1, OverIs DEF Stored, Over

(* A rewrite of a volume that spares its options.                          *)
LEMMA SparedStays ==
    ASSUME NEW s \in DiskSlots \union {"efidisk0"}, NEW cur, IsVolume(cur),
           NEW v, Storable(s, v), SameVol(cur, v), NEW declared,
           Spared(cur, v, declared)
    PROVE  LET unowned == DOMAIN cur \ (declared \union {"iothread"})
           IN  Only(cur, unowned) = Only(StoredDevice(cur, v), unowned)
<1> DEFINE unowned == DOMAIN cur \ (declared \union {"iothread"})
           stored == StoredDevice(cur, v)
<1>1. "vol" \in DOMAIN v /\ ~IsCreateForm(v)
  BY DEF IsVolume, SameVol, IsCreateForm
<1>2. "bridge" \in DOMAIN v => stored = v @@ ("mac" :> "drawn")
  BY <1>1 DEF StoredDevice
<1>3. "file" \in DOMAIN v /\ "bridge" \notin DOMAIN v
        => stored = v @@ ("size" :> "600M")
  BY <1>1 DEF StoredDevice
<1>4. IsComplete(s, stored)
  BY DEF Storable
<1>5. ~("bridge" \in DOMAIN v) /\ ~("file" \in DOMAIN v)
  <2>1. \A e : DOMAIN v \subseteq DOMAIN (v @@ e)
    BY OverDomain
  <2>2. \A e : "bridge" \in DOMAIN e \/ "file" \in DOMAIN e => ~IsComplete(s, e)
    BY DEF IsComplete, IsVolume, Nothing
  <2> HIDE DEF stored
  <2> QED BY <1>2, <1>3, <1>4, <2>1, <2>2
<1>6. stored = Reports(v)
  BY <1>1, <1>5 DEF StoredDevice
<1>7. \A t \in unowned : t \in DOMAIN v /\ v[t] = cur[t] /\ IsReported(cur, t)
  BY DEF Spared, IsVolume
<1>8. \A t \in unowned : t \in DOMAIN v /\ v[t] = cur[t] /\ IsReported(v, t)
  BY <1>7, SameReported DEF Spared
<1>9. \A t \in unowned : t \in DOMAIN Reports(v) /\ Reports(v)[t] = cur[t]
  BY <1>8 DEF Reports, Only, Restrict
<1>10. DOMAIN cur \intersect unowned = unowned /\ DOMAIN Reports(v) \intersect unowned = unowned
  BY <1>9
<1>11. Only(cur, unowned) = [t \in unowned |-> cur[t]]
  BY <1>10 DEF Only, Restrict
<1>12. Only(Reports(v), unowned) = [t \in unowned |-> cur[t]]
  BY <1>9, <1>10 DEF Only, Restrict
<1> QED BY <1>6, <1>11, <1>12

SpareOver ==
    pc = "write" /\ pc' # "write" /\ IsVM(manifest) =>
        \A s \in DiskSlots \union {"efidisk0"} :
            HasVolume(live, s) /\ Device(seen, s) = live[s] =>
                LET declared == DOMAIN Device(Devices(manifest), s)
                    unowned == DOMAIN live[s] \ (declared \union {"iothread"})
                IN  Only(live[s], unowned) = Only(live'[s], unowned)

LEMMA StepSpares ==
    ASSUME ClonesInheritEfi
    PROVE  IInv /\ GInv /\ [Next]_vars => SpareOver
<1> SUFFICES ASSUME IInv, GInv, [Next]_vars, pc = "write", pc' # "write",
                    IsVM(manifest), NEW s \in DiskSlots \union {"efidisk0"},
                    HasVolume(live, s), Device(seen, s) = live[s]
             PROVE  LET declared == DOMAIN Device(Devices(manifest), s)
                        unowned == DOMAIN live[s] \ (declared \union {"iothread"})
                    IN  Only(live[s], unowned) = Only(live'[s], unowned)
  BY DEF SpareOver
<1> DEFINE declared == DOMAIN Device(Devices(manifest), s)
           unowned == DOMAIN live[s] \ (declared \union {"iothread"})
<1>1. /\ Harmless(plan.update, seen) /\ Fits(plan.update.set, seen, manifest)
      /\ WellFormed(live) /\ ~RestatesEfi(manifest)
  BY DEF IInv, GInv, PlanInv, ClonesInheritEfi, RestatesEfi, IsCloneBacked
<1>2. /\ s \in VolumeSlots /\ s \in DeviceSlots /\ s \in DOMAIN live
      /\ "vol" \in DOMAIN live[s]
  BY DEF VolumeSlots, DeviceSlots, HasVolume, Device, Nothing
<1>3. IsVolume(live[s])
  BY <1>1, <1>2 DEF WellFormed, IsComplete, Nothing
<1>4. s \notin plan.update.del
  BY <1>1, <1>2 DEF Harmless
<1>5. CASE live' = live
  BY <1>5
<1>6. CASE live' = Stored(live, plan.update.set, plan.update.del)
  <2>1. CASE s \notin DOMAIN plan.update.set
    BY <1>2, <1>4, <1>6, <2>1, UntouchedSlot
  <2>2. CASE s \in DOMAIN plan.update.set
    <3> DEFINE v == plan.update.set[s]
    <3>1. live'[s] = StoredDevice(live[s], v)
      BY <1>2, <1>6, <2>2, WrittenSlot DEF Device
    <3>2. FitAt(s, v, live[s], manifest) /\ SameVol(live[s], v)
      BY <1>1, <1>2, <2>2 DEF Fits, Harmless, Keeps
    <3>3. Storable(s, v) /\ Spared(live[s], v, declared)
      BY <1>1, <1>2, <3>2 DEF FitAt
    <3> HIDE DEF v
    <3> QED BY <1>3, <3>1, <3>2, <3>3, SparedStays
  <2> QED BY <2>1, <2>2
<1>7. CASE live' = Stored(live, Without(plan.update.set, DeviceSlots), plan.update.del)
  <2>1. s \notin DOMAIN Without(plan.update.set, DeviceSlots)
    BY <1>2 DEF Without, Restrict
  <2> QED BY <1>2, <1>4, <1>7, <2>1, UntouchedSlot
<1>8. Write \/ WriteFails \/ CutOff
  <2>1. ~Plan /\ ~StopFirst /\ ~Restart /\ ~Power /\ ~Create /\ ~CloneGuest
        /\ ~CloneRead /\ ~Push
    BY DEF Plan, StopFirst, Restart, Power, Create, CloneGuest, CloneRead, Push
  <2>2. ~Edit /\ ~UNCHANGED vars
    BY DEF Edit, cycle, vars
  <2> QED BY <2>1, <2>2 DEF Next, AgentStep
<1> QED BY <1>5, <1>6, <1>7, <1>8 DEF Write, WriteFails, CutOff

(* vm.go, liveDriveRewrite and the efidisk0 part of Drift: what hands have *)
(* set on a VM's volume and the manifest does not declare outlives every   *)
(* write of the agent.                                                     *)
THEOREM UnownedIsKept ==
    ASSUME ClonesInheritEfi
    PROVE  Spec => UnownedKept
<1>1. Init => IInv /\ GInv
  BY GInit DEF Init, IInv
<1>2. IInv /\ GInv /\ [Next]_vars => IInv' /\ GInv'
  BY Inductive, GStep
<1>3. IInv /\ GInv /\ [Next]_vars => [SpareOver]_vars
  BY StepSpares
<1>4. UnownedKept <=> [][SpareOver]_vars
  BY PTL DEF UnownedKept, SpareOver
<1> QED BY <1>1, <1>2, <1>3, <1>4, PTL DEF Spec

-----------------------------------------------------------------------------
(* The identity of a clone.                                                *)

(* Every address key that the template, a manifest or a hand writes.       *)
Addresses ==
    {k \in IpKeySet :
        \/ k \in DOMAIN Template
        \/ \E m \in Manifests : IsVM(m) /\ k \in DOMAIN m.fields
        \/ \E e \in WordEdits : e.key = k}

(* They all lie among those that a clone clears, which are as many as it   *)
(* has networks: beyond them CloneKeepsIp shows a leak.                    *)
AddressesAreCleared ==
    \A m \in Manifests : IsVM(m) /\ IsCloneBacked(m) => Addresses \subseteq IdentityKeys(m)

AddressInv == IsVM(manifest) => DOMAIN live \intersect IpKeySet \subseteq Addresses

LEMMA StoredDomain ==
    ASSUME NEW cfg, NEW set, NEW del
    PROVE  DOMAIN Stored(cfg, set, del) \subseteq DOMAIN cfg \union DOMAIN set
BY OverIs DEF Stored, Without, Restrict, Over

LEMMA OneOverDomain ==
    ASSUME NEW k, NEW v, NEW f
    PROVE  DOMAIN ((k :> v) @@ f) = {k} \union DOMAIN f
<1>1. DOMAIN (k :> v) = {k}
  BY DEF :>
<1> QED BY <1>1, OverDomain

LEMMA FitAddresses ==
    ASSUME NEW m \in Manifests, IsVM(m), NEW set, NEW cfg, Fits(set, cfg, m)
    PROVE  DOMAIN set \intersect IpKeySet \subseteq Addresses
BY DEF Fits, FitAt, Addresses

LEMMA AddressStep == GInv /\ AddressInv /\ [Next]_vars => AddressInv'
<1> SUFFICES ASSUME GInv, AddressInv, [Next]_vars, IsVM(manifest')
             PROVE  DOMAIN live' \intersect IpKeySet \subseteq Addresses
  BY DEF AddressInv
<1>1. manifest \in Manifests /\ Valid(manifest)
  BY ManifestsAssumption DEF GInv, ShapeInv
<1>2. IsVM(manifest)
  <2>1. CASE Push
    BY <2>1 DEF Push, IsVM
  <2>2. CASE ~Push
    <3>1. CASE AgentStep
      BY <3>1
         DEF AgentStep, Plan, StopFirst, Write, Restart, Power, Create, CloneGuest, CloneRead
    <3>2. CASE WriteFails \/ CutOff \/ Edit \/ UNCHANGED vars
      BY <3>2 DEF WriteFails, CutOff, Edit, vars
    <3> QED BY <2>2, <3>1, <3>2 DEF Next
  <2> QED BY <2>1, <2>2
<1>3. DOMAIN live \intersect IpKeySet \subseteq Addresses
  BY <1>2 DEF AddressInv
<1>4. CASE live' = live
  BY <1>3, <1>4
<1>5. CASE Write \/ WriteFails
  <2>1. Fits(plan.update.set, seen, manifest)
    BY <1>5 DEF Write, WriteFails, GInv, PlanInv
  <2>2. Fits(Without(plan.update.set, DeviceSlots), seen, manifest)
    BY <2>1, OnlyFits
  <2>3. \/ live' = live
        \/ live' = Stored(live, plan.update.set, plan.update.del)
        \/ live' = Stored(live, Without(plan.update.set, DeviceSlots), plan.update.del)
    BY <1>5 DEF Write, WriteFails
  <2>4. /\ DOMAIN plan.update.set \intersect IpKeySet \subseteq Addresses
        /\ DOMAIN Without(plan.update.set, DeviceSlots) \intersect IpKeySet
             \subseteq Addresses
    BY <1>1, <1>2, <2>1, <2>2, FitAddresses
  <2> QED BY <1>3, <2>3, <2>4, StoredDomain
<1>6. CASE Create
  <2>1. live' = Stored(Nothing, CreateConfig(manifest), {}) @@ Filled(manifest)
    BY <1>6 DEF Create
  <2>2. DOMAIN CreateConfig(manifest) \intersect IpKeySet \subseteq Addresses
    BY <1>1, <1>2, CreateFits, FitAddresses
  <2>3. DOMAIN Nothing = {} /\ Filled(manifest) = Nothing
    BY <1>2 DEF Nothing, Filled
  <2>4. DOMAIN live' = DOMAIN Stored(Nothing, CreateConfig(manifest), {})
                         \union DOMAIN Filled(manifest)
    <3>1. \A f, g : DOMAIN (f @@ g) = DOMAIN f \union DOMAIN g
      BY OverDomain
    <3> QED BY <2>1, <3>1
  <2>5. DOMAIN live' \subseteq DOMAIN CreateConfig(manifest)
    BY <2>3, <2>4, StoredDomain
  <2> QED BY <2>2, <2>5
<1>7. CASE CloneGuest
  <2>1. DOMAIN live' = {"name"} \union DOMAIN Template
    BY <1>7, OneOverDomain DEF CloneGuest
  <2>2. "name" \notin IpKeySet
    BY SlotsAssumption
  <2> QED BY <2>1, <2>2 DEF Addresses
<1>8. CASE Edit
  <2>1. CASE EditWord
    <3>1. PICK e \in WordEdits :
             live' = IF e.word = "" THEN Without(live, {e.key})
                     ELSE (e.key :> e.word) @@ live
      BY <2>1 DEF EditWord
    <3>2. DOMAIN Without(live, {e.key}) \subseteq DOMAIN live
      BY DEF Without, Restrict
    <3>3. DOMAIN ((e.key :> e.word) @@ live) = {e.key} \union DOMAIN live
      BY OneOverDomain
    <3>4. DOMAIN live' \subseteq {e.key} \union DOMAIN live
      <4>1. CASE e.word = ""
        <5>1. live' = Without(live, {e.key})
          BY <3>1, <4>1
        <5> QED BY <3>2, <5>1
      <4>2. CASE e.word # ""
        <5>1. live' = (e.key :> e.word) @@ live
          BY <3>1, <4>2
        <5> QED BY <3>3, <5>1
      <4> QED BY <4>1, <4>2
    <3>5. e.key \in IpKeySet => e.key \in Addresses
      BY DEF Addresses
    <3> QED BY <1>3, <3>4, <3>5
  <2>2. CASE EditDevice
    <3>1. PICK e \in DeviceEdits : \E device : live' = (e.key :> device) @@ live
      BY <2>2 DEF EditDevice
    <3>2. DOMAIN live' = {e.key} \union DOMAIN live
      BY <3>1, OneOverDomain
    <3>3. e.key \notin IpKeySet
      BY EditsAssumption, PlainApart
    <3> QED BY <1>3, <3>2, <3>3
  <2> QED BY <1>8, <2>1, <2>2 DEF Edit
<1>9. ASSUME Plan \/ StopFirst \/ Restart \/ Power \/ CloneRead
             \/ CutOff \/ Push \/ UNCHANGED vars
      PROVE  live' = live
  BY <1>9 DEF Plan, StopFirst, Restart, Power, CloneRead, CutOff, Push, vars
<1> QED BY <1>4, <1>5, <1>6, <1>7, <1>8, <1>9 DEF Next, AgentStep

(* A drift without a deletion finds nothing left to clear.                 *)
LEMMA ClearedInv ==
    ASSUME AddressesAreCleared
    PROVE  GInv /\ AddressInv => NoIdentityLeak
<1> SUFFICES ASSUME GInv, AddressInv, Quiet, IsVM(manifest), IsCloneBacked(manifest),
                    NEW k \in (CloneInheritedKeys \union IpKeySet) \intersect DOMAIN live
             PROVE  k \in DOMAIN VmCreate(manifest)
  BY DEF NoIdentityLeak
<1>1. manifest \in Manifests
  BY DEF GInv, ShapeInv
<1>2. k \in IdentityKeys(manifest)
  BY <1>1 DEF AddressesAreCleared, AddressInv, IdentityKeys
<1>3. CloneClearKeys(manifest, live) = {}
  BY DEF Quiet, IsNoUpdate, Drift, VmDrift
<1> QED BY <1>2, <1>3 DEF CloneClearKeys, CloneDeleteKeys

(* vm.go, cloneIdentityDeleteKeys: a clone at rest answers to nobody but   *)
(* its manifest, if it has a network for every address ever written.       *)
THEOREM NoIdentityLeaks ==
    ASSUME AddressesAreCleared
    PROVE  Spec => []NoIdentityLeak
<1>1. Init => GInv /\ AddressInv
  BY GInit DEF Init, AddressInv, Nothing
<1>2. GInv /\ AddressInv /\ [Next]_vars => GInv' /\ AddressInv'
  BY GStep, AddressStep
<1> QED BY <1>1, <1>2, ClearedInv, PTL DEF Spec

-----------------------------------------------------------------------------
(* What an update without content says.                                    *)

(* Every value of want is there already.                                   *)
Agrees(want, cfg) == \A s \in DOMAIN want : Device(cfg, s) = want[s]

(* The device d has the options that are wanted, as far as they are owned. *)
Meets(d, want) ==
    IF want = Nothing THEN d = Nothing
    ELSE /\ d # Nothing
         /\ \A t \in DOMAIN want \ {"from", "size", "efitype"} : Held(d, want, t)

AllMet(cfg, wants) == \A s \in DOMAIN wants : Meets(Device(cfg, s), wants[s])

LEMMA OverEmpty ==
    ASSUME NEW f, NEW g, DOMAIN (f @@ g) = {}
    PROVE  DOMAIN f = {} /\ DOMAIN g = {}
BY OverDomain

LEMMA UnchangedWords ==
    ASSUME NEW cfg, NEW want, DOMAIN ChangedWords(cfg, want) = {}
    PROVE  \A k \in DOMAIN want : Word(cfg, k) = want[k]
BY DEF ChangedWords, Only, Restrict

LEMMA UnchangedSets ==
    ASSUME NEW cfg, NEW want, DOMAIN ChangedSets(cfg, want) = {}
    PROVE  \A k \in DOMAIN want : Words(cfg, k) = want[k]
BY DEF ChangedSets, Only, Restrict

LEMMA UnchangedDevices ==
    ASSUME NEW cfg, NEW want, DOMAIN ChangedDevices(cfg, want) = {}
    PROVE  Agrees(want, cfg)
BY DEF ChangedDevices, Only, Restrict, Agrees

LEMMA OverAgrees ==
    ASSUME NEW f, NEW g, NEW cfg, Agrees(f @@ g, cfg), DOMAIN f \intersect DOMAIN g = {}
    PROVE  Agrees(f, cfg) /\ Agrees(g, cfg)
BY OverIs DEF Agrees, Over

LEMMA OneAgrees ==
    ASSUME NEW k, NEW v, NEW cfg, Agrees(k :> v, cfg)
    PROVE  Device(cfg, k) = v
BY DEF Agrees, :>

LEMMA OverMet ==
    ASSUME NEW f, NEW g, NEW cfg, AllMet(cfg, f), AllMet(cfg, g)
    PROVE  AllMet(cfg, f @@ g)
BY OverIs DEF AllMet, Over

LEMMA OneMet ==
    ASSUME NEW k, NEW v, NEW cfg, Meets(Device(cfg, k), v)
    PROVE  AllMet(cfg, k :> v)
BY DEF AllMet, :>

LEMMA NothingMet == ASSUME NEW cfg PROVE AllMet(cfg, Nothing)
BY DEF AllMet, Nothing

(* An option with a value is held when it reads the same.                  *)
LEMMA SameHeld ==
    ASSUME NEW d, NEW want, NEW t \in DOMAIN want, NEW default,
           Option(d, t, default) = want[t],
           default = PveDefault(t) \/ default # want[t]
    PROVE  Held(d, want, t)
BY DEF Held, Option

LEMMA EqualMeets == ASSUME NEW want PROVE Meets(want, want)
BY DEF Meets, Held, Option

LEMMA MetOwned ==
    ASSUME NEW cfg, NEW wants, AllMet(cfg, wants), NEW s \in DOMAIN wants
    PROVE  IF wants[s] = Nothing THEN Device(cfg, s) = Nothing
           ELSE \A t \in DOMAIN wants[s] \ {"from", "size", "efitype"} :
                   Held(cfg[s], wants[s], t)
BY DEF AllMet, Meets, Device

(* Device by device.                                                       *)
LEMMA DiskMet ==
    ASSUME NEW m, ValidVM(m), NEW s \in DOMAIN m.disks, NEW cur,
           DiskUpdate(cur, m.disks[s]) = cur,
           cur # Nothing => ~Moved(cur, m.disks[s])
    PROVE  Meets(cur, m.disks[s])
<1> DEFINE want == m.disks[s]
<1>1. Declares(want, {"pool"}, {"from", "size"} \union DriveOptions)
  BY DEF ValidVM
<1>2. want # Nothing /\ want["pool"] # ""
  BY <1>1 DEF Declares, Nothing
<1>3. cur # Nothing
  BY <1>2 DEF DiskUpdate, IsNewStorageSlot
<1>4. Held(cur, want, "pool")
  BY <1>1, <1>2, <1>3 DEF Moved, Option, Held, Declares
<1>5. ASSUME DriveOptionsDrift(cur, want), NEW t \in DriveOptions \intersect DOMAIN want
      PROVE  Held(cur, want, t)
  <2>1. cur = LiveDriveRewrite(cur, want)
    BY <1>3, <1>5 DEF DiskUpdate, IsNewStorageSlot
  <2>2. t \in DOMAIN LiveDriveRewrite(cur, want) /\ LiveDriveRewrite(cur, want)[t] = want[t]
    BY OverIs DEF LiveDriveRewrite, Only, Restrict, Over
  <2> QED BY <2>1, <2>2 DEF Held, Option
<1>6. ASSUME ~DriveOptionsDrift(cur, want), NEW t \in DriveOptions \intersect DOMAIN want
      PROVE  Held(cur, want, t)
  <2>1. want[t] # ""
    BY <1>1 DEF Declares
  <2>2. t \in {"iothread", "discard", "ssd", "aio"}
    BY DEF DriveOptions
  <2>3. PveDefault(t) = IF t = "discard" THEN "ignore" ELSE "0"
    BY <2>2 DEF PveDefault
  <2> QED BY <1>6, <2>1, <2>2, <2>3 DEF DriveOptionsDrift, Option, Held
<1> QED BY <1>1, <1>2, <1>3, <1>4, <1>5, <1>6 DEF Declares, Meets

LEMMA NicMet ==
    ASSUME NEW want, Declares(want, {"model", "bridge"}, NicOptions), NEW cur,
           (IF NicMatches(cur, want) THEN cur ELSE want) = cur
    PROVE  Meets(cur, want)
<1>1. CASE NicMatches(cur, want)
  <2>1. \A t \in DOMAIN want : t \in DOMAIN cur /\ cur[t] = want[t]
    BY <1>1 DEF NicMatches, Declares, Option
  <2>2. cur # Nothing /\ want # Nothing
    BY <2>1 DEF Declares, Nothing
  <2> QED BY <2>1, <2>2 DEF Meets, Held, Option
<1>2. CASE ~NicMatches(cur, want)
  BY <1>2, EqualMeets
<1> QED BY <1>1, <1>2

LEMMA TpmMet ==
    ASSUME NEW m, m.tpm # "", NEW cur,
           m.tpm = Option(cur, "version", "") \/ cur = Tpm(m)
    PROVE  Meets(cur, Tpm(m))
<1>1. DOMAIN Tpm(m) = {"version"} /\ Tpm(m)["version"] = m.tpm
  BY DEF Tpm
<1>2. "version" \in DOMAIN cur /\ cur["version"] = m.tpm
  BY <1>1 DEF Option
<1>3. Tpm(m) # Nothing /\ cur # Nothing
  BY <1>1, <1>2 DEF Nothing
<1> QED BY <1>1, <1>2, <1>3 DEF Meets, Held, Option

LEMMA EfiMet ==
    ASSUME NEW m, ValidVM(m), m.efi # Nothing, NEW cur, IsComplete("efidisk0", cur),
           DOMAIN EfiUpdate(m, cur) = {}, Option(cur, "pool", m.efi.pool) = m.efi.pool
    PROVE  Meets(cur, m.efi)
<1>1. Declares(m.efi, {"pool"}, {"size", "efitype", "keys"})
  BY DEF ValidVM
<1>2. \A k, v : DOMAIN (k :> v) # {}
  BY DEF :>
<1>3. ~IsNewStorageSlot(cur)
  BY <1>2 DEF EfiUpdate
<1>4. IsVolume(cur)
  BY <1>3 DEF IsComplete, IsNewStorageSlot
<1>5. "pool" \in DOMAIN cur /\ cur["pool"] = m.efi["pool"]
  BY <1>4 DEF IsVolume, Option
<1>6. ~EfiDrift(cur, m.efi)
  BY <1>2, <1>3, <1>5 DEF EfiUpdate, Option
<1>7. Held(cur, m.efi, "pool") /\ ("keys" \in DOMAIN m.efi => Held(cur, m.efi, "keys"))
  BY <1>5, <1>6 DEF Held, Option, EfiDrift, PveDefault
<1> QED BY <1>1, <1>3, <1>7 DEF Declares, Meets, IsNewStorageSlot

(* The drive of a clone is compared by its pool alone, so an ISO in its    *)
(* place goes unnoticed on a pool that holds ISOs (vm.go:1254).            *)
LEMMA DriveMet ==
    ASSUME NEW m, m.drive # "", NEW cur, IsComplete("ide2", cur),
           DriveUpdate(m, cur) = cur,
           IsCloneBacked(m) =>
               m.drive # IsoPool /\ Option(cur, "pool", m.drive) = m.drive
    PROVE  Meets(cur, CloudInitDrive(m))
<1> DEFINE want == CloudInitDrive(m)
<1>1. /\ DOMAIN want = {"pool", "of"} /\ want["pool"] = m.drive
      /\ want["of"] = "cloudinit" /\ want # Nothing
  BY DEF CloudInitDrive, Nothing
<1>2. CASE cur = want
  BY <1>2, EqualMeets
<1>3. CASE cur # want
  <2>1. CloudInitMatches(cur, want) \/ (IsCloneBacked(m) /\ ~IsNewStorageSlot(cur))
    BY <1>3 DEF DriveUpdate
  <2>2. cur # Nothing
    BY <1>1, <2>1 DEF CloudInitMatches, Option, IsNewStorageSlot, Nothing
  <2>3. IsDrive(cur) \/ IsIso(cur)
    BY <2>2 DEF IsComplete
  <2>4. "pool" \in DOMAIN cur
    BY <2>3 DEF IsDrive, IsVolume, IsIso
  <2>5. cur["pool"] = m.drive
    <3>1. CASE CloudInitMatches(cur, want)
      BY <1>1, <2>4, <3>1 DEF CloudInitMatches, Option
    <3>2. CASE IsCloneBacked(m)
      BY <2>4, <3>2 DEF Option
    <3> QED BY <2>1, <3>1, <3>2
  <2>6. ~IsIso(cur)
    BY <2>1, <2>5 DEF CloudInitMatches, IsIso
  <2>7. "of" \in DOMAIN cur /\ cur["of"] = "cloudinit"
    BY <2>3, <2>6 DEF IsDrive, Option
  <2> HIDE DEF want
  <2> QED BY <1>1, <2>2, <2>4, <2>5, <2>7 DEF want, Meets, Held, Option
<1> QED BY <1>2, <1>3

LEMMA CdromMet ==
    ASSUME NEW m, m.cdrom # "", NEW s \in {"ide2", "ide3"}, NEW cur, IsComplete(s, cur),
           CdromUpdate(m, cur) = cur
    PROVE  Meets(cur, Cdrom(m))
<1>1. CASE cur = Cdrom(m)
  BY <1>1, EqualMeets
<1>2. CASE cur # Cdrom(m)
  <2> DEFINE want == Cdrom(m)
  <2>1. m.cdrom # "none" /\ Option(cur, "file", "") = m.cdrom
    BY <1>2 DEF CdromUpdate, Cdrom
  <2>2. /\ DOMAIN want = {"file", "pool"} /\ want["file"] = m.cdrom
        /\ want["pool"] = IsoPool /\ want # Nothing
    BY <2>1 DEF Cdrom, Nothing
  <2>3. "file" \in DOMAIN cur /\ cur["file"] = m.cdrom /\ cur # Nothing
    BY <2>1 DEF Option, Nothing
  <2>4. IsIso(cur)
    BY <2>3 DEF IsComplete, IsDrive, IsVolume
  <2>5. "pool" \in DOMAIN cur /\ cur["pool"] = IsoPool
    BY <2>4 DEF IsIso
  <2> HIDE DEF want
  <2> QED BY <2>2, <2>3, <2>5 DEF want, Meets, Held, Option
<1> QED BY <1>1, <1>2

LEMMA RootMet ==
    ASSUME NEW m, ValidLXC(m), NEW cur, RootUpdate(cur, m.root) = cur,
           cur # Nothing => ~Moved(cur, m.root)
    PROVE  Meets(cur, m.root)
<1>1. DOMAIN m.root = {"pool", "size"} /\ m.root["pool"] # ""
  BY DEF ValidLXC, Declares
<1>2. m.root # Nothing
  BY <1>1 DEF Nothing
<1>3. cur # Nothing
  BY <1>2 DEF RootUpdate, IsNewStorageSlot
<1> QED BY <1>1, <1>2, <1>3 DEF Moved, Option, Held, Meets

(* Mount options that PVE does not report are never compared               *)
(* (lxc.go:1020), so the manifest must not declare any; an absent "backup" *)
(* is compared as 0 (lxc.go:998), which PVE has to agree with.             *)
SeenMount(want) ==
    /\ "mountoptions" \notin DOMAIN want
    /\ "backup" \in DOMAIN want => BackupDefault = "0"

LEMMA MountMet ==
    ASSUME NEW m, ValidLXC(m), CreatableLXC(m), NEW s \in DOMAIN m.mounts,
           SeenMount(m.mounts[s]), NEW cur, IsComplete(s, cur),
           MountUpdate(cur, m.mounts[s]) = cur,
           cur # Nothing => ~IsBind(cur) /\ ~Moved(cur, m.mounts[s])
    PROVE  Meets(cur, m.mounts[s])
<1> DEFINE want == m.mounts[s]
<1>1. Declares(want, {"pool", "size"}, {"mp"} \union MountOptions)
  BY DEF ValidLXC
<1>2. want # Nothing /\ want["pool"] # ""
  BY <1>1 DEF Declares, Nothing
<1>3. cur # Nothing /\ ~IsBind(cur) /\ ~Moved(cur, want)
  BY <1>2 DEF MountUpdate, IsNewStorageSlot
<1>4. Held(cur, want, "pool")
  BY <1>1, <1>2, <1>3 DEF Moved, Option, Held, Declares
<1>5. "mp" \in DOMAIN cur
  BY <1>3 DEF IsComplete, ValidLXC
<1>6. ASSUME MountDrift(cur, want), NEW t \in ({"mp"} \union MountOptions) \intersect DOMAIN want
      PROVE  Held(cur, want, t)
  <2>1. cur = MountRewrite(cur, want)
    BY <1>3, <1>6 DEF MountUpdate, IsNewStorageSlot
  <2>2. t \in DOMAIN MountRewrite(cur, want) /\ MountRewrite(cur, want)[t] = want[t]
    BY OverIs DEF MountRewrite, Only, Restrict, Over
  <2> QED BY <2>1, <2>2 DEF Held, Option
<1>7. ASSUME ~MountDrift(cur, want), NEW t \in ({"mp"} \union MountOptions) \intersect DOMAIN want
      PROVE  Held(cur, want, t)
  <2>1. t # "discard" /\ t # "mountoptions" /\ PveDefault(t) = "0"
    BY DEF MountOptions, SeenMount, PveDefault
  <2> QED BY <1>5, <1>7, <2>1 DEF MountDrift, Option, Held
<1> QED BY <1>1, <1>2, <1>3, <1>4, <1>6, <1>7 DEF Declares, Meets

LEMMA BindMet ==
    ASSUME NEW m, ValidLXC(m), NEW s \in DOMAIN m.binds, NEW cur, IsComplete(s, cur),
           BindUpdate(cur, m.binds[s]) = cur,
           cur # Nothing => Option(cur, "host", "") = m.binds[s].host
    PROVE  Meets(cur, m.binds[s])
<1> DEFINE want == m.binds[s]
<1>1. Declares(want, {"host", "mp"}, {"ro"}) /\ s \in MpSlots
  BY DEF ValidLXC
<1>2. want # Nothing /\ want["host"] # ""
  BY <1>1 DEF Declares, Nothing
<1>3. cur # Nothing
  BY <1>2 DEF BindUpdate, IsNewStorageSlot
<1>4. "host" \in DOMAIN cur /\ cur["host"] = want["host"]
  BY <1>2, <1>3 DEF Option
<1>5. IsBind(cur) /\ "mp" \in DOMAIN cur
  BY <1>1, <1>3, <1>4 DEF IsComplete, IsVolume
<1>6. CASE cur = want
  BY <1>6, EqualMeets
<1>7. CASE cur # want
  <2>1. ~BindDrift(cur, want)
    BY <1>3, <1>4, <1>5, <1>7 DEF BindUpdate, IsNewStorageSlot
  <2>2. /\ Held(cur, want, "host") /\ Held(cur, want, "mp")
        /\ "ro" \in DOMAIN want => Held(cur, want, "ro")
    BY <1>4, <1>5, <2>1 DEF BindDrift, Held, Option, PveDefault
  <2> QED BY <1>1, <1>2, <1>3, <2>2 DEF Declares, Meets
<1> QED BY <1>6, <1>7

(* The type of a NIC is never compared (lxc.go:828).                       *)
LEMMA NetMet ==
    ASSUME NEW want, Declares(want, {"bridge"}, NetOptions),
           "type" \notin DOMAIN want, NEW cur,
           (IF NetMatches(cur, want) THEN cur ELSE want) = cur
    PROVE  Meets(cur, want)
<1>1. CASE NetMatches(cur, want)
  <2>1. \A t \in DOMAIN want : t \in DOMAIN cur /\ cur[t] = want[t]
    BY <1>1 DEF NetMatches, Declares, Option
  <2>2. cur # Nothing /\ want # Nothing
    BY <2>1 DEF Declares, Nothing
  <2> QED BY <2>1, <2>2 DEF Meets, Held, Option
<1>2. CASE ~NetMatches(cur, want)
  BY <1>2, EqualMeets
<1> QED BY <1>1, <1>2

(* All that a VM's drift compares, taken apart.                            *)
LEMMA QuietVmParts ==
    ASSUME NEW m, ValidVM(m), NEW cfg, IsNoUpdate(VmDrift(m, cfg))
    PROVE  /\ DOMAIN FieldUpdates(m, cfg) = {}
           /\ DOMAIN ChangedDevices(cfg, DeviceUpdates(m, cfg)) = {}
           /\ DOMAIN EfiUpdate(m, Device(cfg, "efidisk0")) = {}
           /\ DOMAIN TagUpdate(m, cfg) = {}
           /\ DOMAIN ChangedSets(cfg, DeclaredSets(m)) = {}
           /\ DOMAIN PasswordUpdate(m, cfg) = {}
<1> DEFINE fields == FieldUpdates(m, cfg)
           devices == ChangedDevices(cfg, DeviceUpdates(m, cfg))
           efi == EfiUpdate(m, Device(cfg, "efidisk0"))
           tags == TagUpdate(m, cfg)
           sets == ChangedSets(cfg, DeclaredSets(m))
           password == PasswordUpdate(m, cfg)
<1>1. VmDrift(m, cfg).set = fields @@ (devices @@ efi) @@ tags @@ (sets @@ password)
  BY DEF VmDrift, DataUpdates
<1> HIDE DEF fields, devices, efi, tags, sets, password
<1>2. DOMAIN (fields @@ (devices @@ efi) @@ tags @@ (sets @@ password)) = {}
  BY <1>1, NothingIsEmpty DEF IsNoUpdate
<1>3. DOMAIN (fields @@ (devices @@ efi) @@ tags) = {} /\ DOMAIN (sets @@ password) = {}
  BY <1>2, OverEmpty
<1>4. DOMAIN (fields @@ (devices @@ efi)) = {} /\ DOMAIN tags = {}
  BY <1>3, OverEmpty
<1>5. DOMAIN fields = {} /\ DOMAIN (devices @@ efi) = {}
  BY <1>4, OverEmpty
<1> QED BY <1>3, <1>4, <1>5, OverEmpty DEF fields, devices, efi, tags, sets, password

(* The values that DeviceUpdates holds for slots of different kinds.       *)
LEMMA QuietVmDevices ==
    ASSUME NEW m, ValidVM(m), NEW cfg, Agrees(DeviceUpdates(m, cfg), cfg)
    PROVE  /\ \A s \in DOMAIN m.disks :
                 DiskUpdate(Device(cfg, s), m.disks[s]) = Device(cfg, s)
           /\ \A s \in DOMAIN m.nics :
                 (IF NicMatches(Device(cfg, s), m.nics[s])
                  THEN Device(cfg, s) ELSE m.nics[s]) = Device(cfg, s)
           /\ Agrees(m.pci, cfg)
           /\ \/ m.tpm \in {"", Option(Device(cfg, "tpm0"), "version", "")}
              \/ Device(cfg, "tpm0") = Tpm(m)
           /\ m.drive # "" => DriveUpdate(m, Device(cfg, "ide2")) = Device(cfg, "ide2")
           /\ m.cdrom # "" => CdromUpdate(m, Device(cfg, CdromSlot(m)))
                                = Device(cfg, CdromSlot(m))
<1> DEFINE cur(s) == Device(cfg, s)
           disks == [s \in DOMAIN m.disks |-> DiskUpdate(cur(s), m.disks[s])]
           nics == [s \in DOMAIN m.nics |->
                      IF NicMatches(cur(s), m.nics[s]) THEN cur(s) ELSE m.nics[s]]
           tpm == IF m.tpm \in {"", Option(cur("tpm0"), "version", "")}
                  THEN Nothing ELSE "tpm0" :> Tpm(m)
           drive == IF m.drive = "" THEN Nothing
                    ELSE "ide2" :> DriveUpdate(m, cur("ide2"))
           cdrom == IF m.cdrom = "" THEN Nothing
                    ELSE CdromSlot(m) :> CdromUpdate(m, cur(CdromSlot(m)))
<1>1. DeviceUpdates(m, cfg) = disks @@ nics @@ m.pci @@ tpm @@ drive @@ cdrom
  BY DEF DeviceUpdates
<1>2. /\ DOMAIN disks \subseteq DiskSlots /\ DOMAIN nics \subseteq NicSlots
      /\ DOMAIN m.pci \subseteq PciSlots
  BY DEF ValidVM
<1>3. /\ DOMAIN tpm \subseteq {"tpm0"} /\ DOMAIN drive \subseteq {"ide2"}
      /\ DOMAIN cdrom \subseteq {"ide2", "ide3"}
      /\ DOMAIN drive \intersect DOMAIN cdrom = {}
  BY DEF :>, Nothing, CdromSlot
<1>4. /\ DiskSlots \intersect (NicSlots \union PciSlots \union {"ide2", "ide3", "tpm0"}) = {}
      /\ NicSlots \intersect (PciSlots \union {"ide2", "ide3", "tpm0"}) = {}
      /\ PciSlots \intersect {"ide2", "ide3", "tpm0"} = {}
  BY SlotsAssumption DEF VolumeSlots
<1>5. /\ Agrees(disks, cfg) /\ Agrees(nics, cfg) /\ Agrees(m.pci, cfg)
      /\ Agrees(tpm, cfg) /\ Agrees(drive, cfg) /\ Agrees(cdrom, cfg)
  <2> HIDE DEF disks, nics, tpm, drive, cdrom
  <2> DEFINE a == disks @@ nics
             b == a @@ m.pci
             c == b @@ tpm
             d == c @@ drive
  <2>1. /\ DOMAIN a = DOMAIN disks \union DOMAIN nics
        /\ DOMAIN b = DOMAIN a \union DOMAIN m.pci
        /\ DOMAIN c = DOMAIN b \union DOMAIN tpm
        /\ DOMAIN d = DOMAIN c \union DOMAIN drive
    BY OverDomain
  <2>2. Agrees(d @@ cdrom, cfg)
    BY <1>1
  <2> HIDE DEF a, b, c, d
  <2>3. Agrees(d, cfg) /\ Agrees(cdrom, cfg)
    BY <1>2, <1>3, <1>4, <2>1, <2>2, OverAgrees
  <2>4. Agrees(c, cfg) /\ Agrees(drive, cfg)
    BY <1>2, <1>3, <1>4, <2>1, <2>3, OverAgrees DEF d
  <2>5. Agrees(b, cfg) /\ Agrees(tpm, cfg)
    BY <1>2, <1>3, <1>4, <2>1, <2>4, OverAgrees DEF c
  <2>6. Agrees(a, cfg) /\ Agrees(m.pci, cfg)
    BY <1>2, <1>3, <1>4, <2>1, <2>5, OverAgrees DEF b
  <2>7. Agrees(disks, cfg) /\ Agrees(nics, cfg)
    BY <1>2, <1>3, <1>4, <2>1, <2>6, OverAgrees DEF a
  <2> QED BY <2>3, <2>4, <2>5, <2>6, <2>7
<1>6. /\ \A s \in DOMAIN m.disks : DiskUpdate(cur(s), m.disks[s]) = cur(s)
      /\ \A s \in DOMAIN m.nics :
            (IF NicMatches(cur(s), m.nics[s]) THEN cur(s) ELSE m.nics[s]) = cur(s)
  BY <1>5 DEF Agrees
<1>7. m.tpm \in {"", Option(cur("tpm0"), "version", "")} \/ cur("tpm0") = Tpm(m)
  BY <1>5, OneAgrees
<1>8. m.drive # "" => DriveUpdate(m, cur("ide2")) = cur("ide2")
  BY <1>5, OneAgrees
<1>9. m.cdrom # "" => CdromUpdate(m, cur(CdromSlot(m))) = cur(CdromSlot(m))
  BY <1>5, OneAgrees
<1> QED BY <1>5, <1>6, <1>7, <1>8, <1>9

LEMMA QuietVmMet ==
    ASSUME NEW m, ValidVM(m), NEW cfg, WellFormed(cfg),
           Agrees(DeviceUpdates(m, cfg), cfg),
           DOMAIN EfiUpdate(m, Device(cfg, "efidisk0")) = {}, VmAnomalies(m, cfg) = {},
           IsCloneBacked(m) => m.drive # IsoPool
    PROVE  AllMet(cfg, Devices(m))
<1> DEFINE cur(s) == Device(cfg, s)
           efi == IF m.efi # Nothing THEN "efidisk0" :> m.efi ELSE Nothing
           tpm == IF m.tpm # "" THEN "tpm0" :> Tpm(m) ELSE Nothing
           drive == IF m.drive # "" THEN "ide2" :> CloudInitDrive(m) ELSE Nothing
           cdrom == IF m.cdrom # "" THEN CdromSlot(m) :> Cdrom(m) ELSE Nothing
<1>1. \A s \in DeviceSlots : IsComplete(s, cur(s))
  BY WellFormedDevices
<1>2. AllMet(cfg, m.disks)
  <2> SUFFICES ASSUME NEW s \in DOMAIN m.disks PROVE Meets(cur(s), m.disks[s])
    BY DEF AllMet
  <2>1. DiskUpdate(cur(s), m.disks[s]) = cur(s)
    BY QuietVmDevices
  <2>2. cur(s) # Nothing => ~Moved(cur(s), m.disks[s])
    BY DEF VmAnomalies
  <2> QED BY <2>1, <2>2, DiskMet
<1>3. AllMet(cfg, m.nics)
  <2> SUFFICES ASSUME NEW s \in DOMAIN m.nics PROVE Meets(cur(s), m.nics[s])
    BY DEF AllMet
  <2>1. (IF NicMatches(cur(s), m.nics[s]) THEN cur(s) ELSE m.nics[s]) = cur(s)
    BY QuietVmDevices
  <2>2. Declares(m.nics[s], {"model", "bridge"}, NicOptions)
    BY DEF ValidVM
  <2> QED BY <2>1, <2>2, NicMet
<1>4. AllMet(cfg, m.pci)
  <2>1. Agrees(m.pci, cfg)
    BY QuietVmDevices
  <2> QED BY <2>1, EqualMeets DEF Agrees, AllMet
<1>5. AllMet(cfg, efi)
  <2>1. "efidisk0" \in DeviceSlots
    BY DEF DeviceSlots, VolumeSlots
  <2>2. m.efi # Nothing => Option(cur("efidisk0"), "pool", m.efi.pool) = m.efi.pool
    BY DEF VmAnomalies
  <2>3. m.efi # Nothing => Meets(cur("efidisk0"), m.efi)
    BY <1>1, <2>1, <2>2, EfiMet
  <2> QED BY <2>3, OneMet, NothingMet
<1>6. AllMet(cfg, tpm)
  <2>1. m.tpm # "" => m.tpm = Option(cur("tpm0"), "version", "") \/ cur("tpm0") = Tpm(m)
    BY QuietVmDevices
  <2>2. m.tpm # "" => Meets(cur("tpm0"), Tpm(m))
    BY <2>1, TpmMet
  <2> QED BY <2>2, OneMet, NothingMet
<1>7. AllMet(cfg, drive)
  <2>1. "ide2" \in DeviceSlots
    BY DEF DeviceSlots
  <2>2. m.drive # "" => DriveUpdate(m, cur("ide2")) = cur("ide2")
    BY QuietVmDevices
  <2>3. m.drive # "" /\ IsCloneBacked(m) => Option(cur("ide2"), "pool", m.drive) = m.drive
    BY DEF VmAnomalies
  <2>4. m.drive # "" => Meets(cur("ide2"), CloudInitDrive(m))
    BY <1>1, <2>1, <2>2, <2>3, DriveMet
  <2> QED BY <2>4, OneMet, NothingMet
<1>8. AllMet(cfg, cdrom)
  <2> DEFINE s == CdromSlot(m)
  <2>1. s \in {"ide2", "ide3"} /\ s \in DeviceSlots
    BY DEF CdromSlot, DeviceSlots
  <2>2. m.cdrom # "" => CdromUpdate(m, cur(s)) = cur(s)
    BY QuietVmDevices
  <2>3. m.cdrom # "" => Meets(cur(s), Cdrom(m))
    <3> HIDE DEF s
    <3> QED BY <1>1, <2>1, <2>2, CdromMet
  <2> QED BY <2>3, OneMet, NothingMet
<1>9. Devices(m) = m.disks @@ m.nics @@ m.pci @@ efi @@ tpm @@ drive @@ cdrom
  BY DEF Devices
<1> QED
  <2> HIDE DEF efi, tpm, drive, cdrom
  <2>1. AllMet(cfg, m.disks @@ m.nics @@ m.pci)
    BY <1>2, <1>3, <1>4, OverMet
  <2>2. AllMet(cfg, m.disks @@ m.nics @@ m.pci @@ efi @@ tpm)
    BY <2>1, <1>5, <1>6, OverMet
  <2>3. AllMet(cfg, m.disks @@ m.nics @@ m.pci @@ efi @@ tpm @@ drive)
    BY <2>2, <1>7, OverMet
  <2> QED BY <2>3, <1>8, <1>9, OverMet

LEMMA SetKeysAre ==
    ASSUME NEW m
    PROVE  /\ DOMAIN SetKeys(m) = {"sshkeys", "nameserver", "searchdomain"}
           /\ SetKeys(m)["sshkeys"] = SSHKeysWire(m)
           /\ SetKeys(m)["nameserver"] = m.nameserver
           /\ SetKeys(m)["searchdomain"] = m.searchdomain
<1> DEFINE a == "sshkeys" :> SSHKeysWire(m)
           b == "nameserver" :> m.nameserver
           c == "searchdomain" :> m.searchdomain
<1>1. /\ DOMAIN a = {"sshkeys"} /\ a["sshkeys"] = SSHKeysWire(m)
      /\ DOMAIN b = {"nameserver"} /\ b["nameserver"] = m.nameserver
      /\ DOMAIN c = {"searchdomain"} /\ c["searchdomain"] = m.searchdomain
  BY DEF :>
<1>2. SetKeys(m) = a @@ b @@ c
  BY DEF SetKeys
<1> HIDE DEF a, b, c
<1>3. /\ DOMAIN (a @@ b) = {"sshkeys", "nameserver"}
      /\ (a @@ b)["sshkeys"] = SSHKeysWire(m) /\ (a @@ b)["nameserver"] = m.nameserver
  BY <1>1, OverIs DEF Over
<1> QED BY <1>1, <1>2, <1>3, OverIs DEF Over

LEMMA SetsOwned ==
    ASSUME NEW m, ValidVM(m), NEW cfg, DOMAIN ChangedSets(cfg, DeclaredSets(m)) = {}
    PROVE  /\ m.sshkeys \in {{}, {"*"}, Words(cfg, "sshkeys")}
           /\ m.nameserver \in {{}, Words(cfg, "nameserver")}
           /\ m.searchdomain \in {{}, Words(cfg, "searchdomain")}
<1>1. \A k \in DOMAIN DeclaredSets(m) : Words(cfg, k) = DeclaredSets(m)[k]
  BY UnchangedSets
<1>2. /\ DOMAIN SetKeys(m) = {"sshkeys", "nameserver", "searchdomain"}
      /\ SetKeys(m)["sshkeys"] = SSHKeysWire(m)
      /\ SetKeys(m)["nameserver"] = m.nameserver
      /\ SetKeys(m)["searchdomain"] = m.searchdomain
  BY SetKeysAre
<1>3. \A k \in DOMAIN SetKeys(m) : SetKeys(m)[k] = {} \/ Words(cfg, k) = SetKeys(m)[k]
  BY <1>1 DEF DeclaredSets, Only, Restrict
<1>4. m.nameserver = {} \/ Words(cfg, "nameserver") = m.nameserver
  BY <1>2, <1>3
<1>5. m.searchdomain = {} \/ Words(cfg, "searchdomain") = m.searchdomain
  BY <1>2, <1>3
<1>6. SSHKeysWire(m) = {} \/ Words(cfg, "sshkeys") = SSHKeysWire(m)
  BY <1>2, <1>3
<1>7. "*" \in m.sshkeys => m.sshkeys = {"*"}
  BY DEF ValidVM
<1> QED BY <1>4, <1>5, <1>6, <1>7 DEF SSHKeysWire

LEMMA TagsOwned ==
    ASSUME NEW m, NEW cfg, DOMAIN ChangedSets(cfg, "tags" :> AllTags(m)) = {}
    PROVE  Words(cfg, "tags") = m.tags \union {OwnershipTag}
<1>1. \A k \in DOMAIN ("tags" :> AllTags(m)) : Words(cfg, k) = ("tags" :> AllTags(m))[k]
  BY UnchangedSets
<1> QED BY <1>1 DEF :>, AllTags

LEMMA QuietVmOwned ==
    ASSUME NEW m, ValidVM(m), IsVM(m), NEW cfg, WellFormed(cfg),
           IsNoUpdate(VmDrift(m, cfg)), VmAnomalies(m, cfg) = {},
           IsCloneBacked(m) => m.drive # IsoPool
    PROVE  Owned(m, cfg)
<1>1. AllMet(cfg, DeclaredDevices(m))
  BY QuietVmParts, UnchangedDevices, QuietVmMet DEF DeclaredDevices
<1>2. \A k \in DOMAIN DeclaredWords(m) : Word(cfg, k) = DeclaredWords(m)[k]
  BY QuietVmParts, UnchangedWords DEF FieldUpdates, DeclaredWords
<1>3. Words(cfg, "tags") = m.tags \union {OwnershipTag}
  BY QuietVmParts, TagsOwned DEF TagUpdate
<1>4. /\ m.sshkeys \in {{}, {"*"}, Words(cfg, "sshkeys")}
      /\ m.nameserver \in {{}, Words(cfg, "nameserver")}
      /\ m.searchdomain \in {{}, Words(cfg, "searchdomain")}
  BY QuietVmParts, SetsOwned
<1>5. m.password # "" => "cipassword" \in DOMAIN cfg
  <2>1. DOMAIN PasswordUpdate(m, cfg) = {}
    BY QuietVmParts
  <2> QED BY <2>1 DEF PasswordUpdate, Password, :>
<1> QED BY <1>1, <1>2, <1>3, <1>4, <1>5, MetOwned DEF Owned

(* And of a container's.                                                   *)
LEMMA QuietLxcParts ==
    ASSUME NEW m, NEW cfg, IsNoUpdate(LxcDrift(m, cfg))
    PROVE  /\ DOMAIN ChangedWords(cfg, CtFields(m)) = {}
           /\ DOMAIN ChangedSets(cfg, "tags" :> AllTags(m)) = {}
           /\ DOMAIN SwitchUpdates(m, cfg) = {}
           /\ DOMAIN ChangedDevices(cfg, VolumeUpdates(m, cfg)) = {}
<1> DEFINE fields == ChangedWords(cfg, CtFields(m))
           tags == ChangedSets(cfg, "tags" :> AllTags(m))
           switches == SwitchUpdates(m, cfg)
           volumes == ChangedDevices(cfg, VolumeUpdates(m, cfg))
<1>1. LxcDrift(m, cfg).set = fields @@ tags @@ (switches @@ volumes)
  BY DEF LxcDrift
<1> HIDE DEF fields, tags, switches, volumes
<1>2. DOMAIN (fields @@ tags @@ (switches @@ volumes)) = {}
  BY <1>1, NothingIsEmpty DEF IsNoUpdate
<1>3. DOMAIN (fields @@ tags) = {} /\ DOMAIN (switches @@ volumes) = {}
  BY <1>2, OverEmpty
<1> QED BY <1>3, OverEmpty DEF fields, tags, switches, volumes

LEMMA QuietLxcDevices ==
    ASSUME NEW m, ValidLXC(m), NEW cfg, Agrees(VolumeUpdates(m, cfg), cfg)
    PROVE  /\ RootUpdate(Device(cfg, "rootfs"), m.root) = Device(cfg, "rootfs")
           /\ \A s \in DOMAIN m.mounts :
                 MountUpdate(Device(cfg, s), m.mounts[s]) = Device(cfg, s)
           /\ \A s \in DOMAIN m.binds :
                 BindUpdate(Device(cfg, s), m.binds[s]) = Device(cfg, s)
           /\ \A s \in DOMAIN m.nets :
                 (IF NetMatches(Device(cfg, s), m.nets[s])
                  THEN Device(cfg, s) ELSE m.nets[s]) = Device(cfg, s)
<1> DEFINE cur(s) == Device(cfg, s)
           root == "rootfs" :> RootUpdate(cur("rootfs"), m.root)
           mounts == [s \in DOMAIN m.mounts |-> MountUpdate(cur(s), m.mounts[s])]
           binds == [s \in DOMAIN m.binds |-> BindUpdate(cur(s), m.binds[s])]
           nets == [s \in DOMAIN m.nets |->
                      IF NetMatches(cur(s), m.nets[s]) THEN cur(s) ELSE m.nets[s]]
<1>1. VolumeUpdates(m, cfg) = root @@ mounts @@ binds @@ nets
  BY DEF VolumeUpdates
<1>2. /\ DOMAIN root = {"rootfs"} /\ DOMAIN mounts \subseteq MpSlots
      /\ DOMAIN binds \subseteq MpSlots /\ DOMAIN nets \subseteq NicSlots
      /\ DOMAIN mounts \intersect DOMAIN binds = {}
  BY DEF ValidLXC, :>
<1>3. "rootfs" \notin MpSlots \union NicSlots /\ MpSlots \intersect NicSlots = {}
  BY SlotsAssumption DEF VolumeSlots
<1>4. Agrees(root, cfg) /\ Agrees(mounts, cfg) /\ Agrees(binds, cfg) /\ Agrees(nets, cfg)
  <2> HIDE DEF root, mounts, binds, nets
  <2> DEFINE a == root @@ mounts
             b == a @@ binds
  <2>1. DOMAIN a = DOMAIN root \union DOMAIN mounts /\ DOMAIN b = DOMAIN a \union DOMAIN binds
    BY OverDomain
  <2>2. Agrees(b @@ nets, cfg)
    BY <1>1
  <2> HIDE DEF a, b
  <2>3. Agrees(b, cfg) /\ Agrees(nets, cfg)
    BY <1>2, <1>3, <2>1, <2>2, OverAgrees
  <2>4. Agrees(a, cfg) /\ Agrees(binds, cfg)
    BY <1>2, <1>3, <2>1, <2>3, OverAgrees DEF b
  <2>5. Agrees(root, cfg) /\ Agrees(mounts, cfg)
    BY <1>2, <1>3, <2>1, <2>4, OverAgrees DEF a
  <2> QED BY <2>3, <2>4, <2>5
<1>5. RootUpdate(cur("rootfs"), m.root) = cur("rootfs")
  BY <1>4, OneAgrees
<1>6. /\ \A s \in DOMAIN m.mounts : MountUpdate(cur(s), m.mounts[s]) = cur(s)
      /\ \A s \in DOMAIN m.binds : BindUpdate(cur(s), m.binds[s]) = cur(s)
      /\ \A s \in DOMAIN m.nets :
            (IF NetMatches(cur(s), m.nets[s]) THEN cur(s) ELSE m.nets[s]) = cur(s)
  BY <1>4 DEF Agrees
<1> QED BY <1>5, <1>6

LEMMA QuietLxcMet ==
    ASSUME NEW m, ValidLXC(m), CreatableLXC(m), ~IsVM(m), NEW cfg, WellFormed(cfg),
           Agrees(VolumeUpdates(m, cfg), cfg), LxcAnomalies(m, cfg) = {},
           \A s \in DOMAIN m.mounts : SeenMount(m.mounts[s]),
           \A s \in DOMAIN m.nets : "type" \notin DOMAIN m.nets[s]
    PROVE  AllMet(cfg, DeclaredDevices(m))
<1> DEFINE cur(s) == Device(cfg, s)
           root == "rootfs" :> m.root
<1>1. \A s \in DeviceSlots : IsComplete(s, cur(s))
  BY WellFormedDevices
<1>2. MountAnomalies(m, cfg) = {}
  BY DEF LxcAnomalies
<1>3. DOMAIN m.mounts \union DOMAIN m.binds \subseteq DeviceSlots
  BY DEF ValidLXC, DeviceSlots, VolumeSlots
<1>4. AllMet(cfg, root)
  <2>1. RootUpdate(cur("rootfs"), m.root) = cur("rootfs")
    BY QuietLxcDevices
  <2>2. cur("rootfs") # Nothing => ~Moved(cur("rootfs"), m.root)
    BY <1>2 DEF MountAnomalies
  <2>3. Meets(cur("rootfs"), m.root)
    BY <2>1, <2>2, RootMet
  <2> QED BY <2>3, OneMet
<1>5. AllMet(cfg, m.mounts)
  <2> SUFFICES ASSUME NEW s \in DOMAIN m.mounts PROVE Meets(cur(s), m.mounts[s])
    BY DEF AllMet
  <2>1. MountUpdate(cur(s), m.mounts[s]) = cur(s)
    BY QuietLxcDevices
  <2>2. cur(s) # Nothing => ~IsBind(cur(s)) /\ ~Moved(cur(s), m.mounts[s])
    BY <1>2 DEF MountAnomalies
  <2> QED BY <1>1, <1>3, <2>1, <2>2, MountMet
<1>6. AllMet(cfg, m.binds)
  <2> SUFFICES ASSUME NEW s \in DOMAIN m.binds PROVE Meets(cur(s), m.binds[s])
    BY DEF AllMet
  <2>1. BindUpdate(cur(s), m.binds[s]) = cur(s)
    BY QuietLxcDevices
  <2>2. cur(s) # Nothing => Option(cur(s), "host", "") = m.binds[s].host
    BY <1>2 DEF MountAnomalies
  <2> QED BY <1>1, <1>3, <2>1, <2>2, BindMet
<1>7. AllMet(cfg, m.nets)
  <2> SUFFICES ASSUME NEW s \in DOMAIN m.nets PROVE Meets(cur(s), m.nets[s])
    BY DEF AllMet
  <2>1. (IF NetMatches(cur(s), m.nets[s]) THEN cur(s) ELSE m.nets[s]) = cur(s)
    BY QuietLxcDevices
  <2>2. Declares(m.nets[s], {"bridge"}, NetOptions)
    BY DEF ValidLXC
  <2> QED BY <2>1, <2>2, NetMet
<1>8. DeclaredDevices(m) = root @@ m.mounts @@ m.binds @@ m.nets
  BY DEF DeclaredDevices
<1> QED
  <2> HIDE DEF root
  <2>1. AllMet(cfg, root @@ m.mounts @@ m.binds)
    BY <1>4, <1>5, <1>6, OverMet
  <2> QED BY <2>1, <1>7, <1>8, OverMet

LEMMA QuietLxcOwned ==
    ASSUME NEW m, ValidLXC(m), CreatableLXC(m), ~IsVM(m), NEW cfg, WellFormed(cfg),
           IsNoUpdate(LxcDrift(m, cfg)), LxcAnomalies(m, cfg) = {},
           \A s \in DOMAIN m.mounts : SeenMount(m.mounts[s]),
           \A s \in DOMAIN m.nets : "type" \notin DOMAIN m.nets[s]
    PROVE  Owned(m, cfg)
<1>1. AllMet(cfg, DeclaredDevices(m))
  BY QuietLxcParts, UnchangedDevices, QuietLxcMet
<1>2. \A k \in DOMAIN DeclaredWords(m) : Word(cfg, k) = DeclaredWords(m)[k]
  BY QuietLxcParts, UnchangedWords DEF DeclaredWords
<1>3. Words(cfg, "tags") = m.tags \union {OwnershipTag}
  BY QuietLxcParts, TagsOwned
<1>4. \A k \in DOMAIN m.options \intersect SwitchKeys : Option(cfg, k, "0") = m.options[k]
  <2> TAKE k \in DOMAIN m.options \intersect SwitchKeys
  <2>1. DOMAIN SwitchUpdates(m, cfg) = {}
    BY QuietLxcParts
  <2>2. (Word(cfg, k) = "1") = (m.options[k] = "1")
    BY <2>1 DEF SwitchUpdates, Only, Restrict
  <2>3. m.options[k] \in {"0", "1"} /\ (k \in DOMAIN cfg => cfg[k] \in {"0", "1"})
    BY DEF ValidLXC, WellFormed, IsSwitch
  <2> QED BY <2>2, <2>3 DEF Word, Option
<1> QED BY <1>1, <1>2, <1>3, <1>4, MetOwned DEF Owned

-----------------------------------------------------------------------------
(* Where the comparisons do have a blind spot.                             *)

(* A container is never asked for mount options that PVE might not report, *)
(* for a share in backups that PVE and the drift take differently when it  *)
(* is not reported, or for the type of a NIC; and a clone has its drive    *)
(* where no ISO can take its place.                                        *)
NoBlindSpots ==
    \A m \in Manifests :
        /\ ~IsVM(m) =>
              /\ \A s \in DOMAIN m.mounts : SeenMount(m.mounts[s])
              /\ \A s \in DOMAIN m.nets : "type" \notin DOMAIN m.nets[s]
        /\ IsVM(m) /\ IsCloneBacked(m) => m.drive # IsoPool

(* vm.go, lxc.go, Drift: when nothing is left to update and nothing is     *)
(* reported, all that the manifest declares is on PVE, whatever hands,     *)
(* pushes and failed writes have brought the guest to.                     *)
THEOREM QuietIsOwned ==
    ASSUME NoBlindSpots
    PROVE  Spec => []QuietMeansOwned
<1>1. GInv => QuietMeansOwned
  <2> SUFFICES ASSUME GInv, Quiet, Anomalies(manifest, live) = {}
               PROVE  Owned(manifest, live)
    BY DEF QuietMeansOwned
  <2>1. manifest \in Manifests /\ Valid(manifest) /\ WellFormed(live)
    BY ManifestsAssumption DEF GInv, ShapeInv
  <2>2. CASE IsVM(manifest)
    BY <2>1, <2>2, QuietVmOwned DEF NoBlindSpots, Quiet, Drift, Anomalies, Valid
  <2>3. CASE ~IsVM(manifest)
    BY <2>1, <2>3, QuietLxcOwned DEF NoBlindSpots, Quiet, Drift, Anomalies, Valid
  <2> QED BY <2>2, <2>3
<1> QED BY <1>1, GInit, GStep, PTL DEF Spec

-----------------------------------------------------------------------------
(* The manifest adopted from a guest.                                      *)

(* Where something is in ide3, the cloud-init drive is in ide2.  Adoption  *)
(* reads an ISO from ide3 first, and a manifest without the drive has its  *)
(* CD-ROM in ide2 (adopt.go:167, vm.go:971).                               *)
MediaInPlace(cfg) == "ide3" \in DOMAIN cfg => AdoptedDrive(cfg) # ""

LEMMA AgreesOver ==
    ASSUME NEW f, NEW g, NEW cfg, Agrees(f, cfg), Agrees(g, cfg)
    PROVE  Agrees(f @@ g, cfg)
BY OverIs DEF Agrees, Over

LEMMA AgreesOne ==
    ASSUME NEW k, NEW v, NEW cfg, Device(cfg, k) = v
    PROVE  Agrees(k :> v, cfg)
BY DEF Agrees, :>

LEMMA AgreesNothing == ASSUME NEW cfg PROVE Agrees(Nothing, cfg)
BY DEF Agrees, Nothing

LEMMA AgreedUnchanged ==
    ASSUME NEW cfg, NEW want, Agrees(want, cfg)
    PROVE  DOMAIN ChangedDevices(cfg, want) = {}
BY DEF ChangedDevices, Only, Restrict, Agrees

(* A value that is taken over reads the same as the one it was taken from. *)
LEMMA OnlyReadsSame ==
    ASSUME NEW d, NEW S, NEW t \in DOMAIN Only(d, S), NEW default
    PROVE  /\ t \in S /\ Only(d, S)[t] = d[t] /\ t \in DOMAIN d
           /\ Option(d, t, default) = Only(d, S)[t]
BY DEF Only, Restrict, Option

LEMMA ReportedIsThere ==
    ASSUME NEW cfg, NEW S, NEW s \in Reported(cfg, S)
    PROVE  s \in S /\ s \in DOMAIN cfg /\ Device(cfg, s) = cfg[s] /\ cfg[s] # Nothing
BY DEF Reported, Device

LEMMA AdoptedDiskStays ==
    ASSUME NEW d, IsSwitch(Option(d, "iothread", "0")), d # Nothing
    PROVE  DiskUpdate(d, AdoptedDisk(d)) = d /\ ~Moved(d, AdoptedDisk(d))
<1> DEFINE want == AdoptedDisk(d)
<1>1. \A t \in DOMAIN want : t \in DOMAIN d /\ want[t] = d[t]
  BY DEF AdoptedDisk, Only, Restrict
<1>2. \A t \in {"pool", "size", "discard", "ssd", "aio"} : t \in DOMAIN d => t \in DOMAIN want
  BY DEF AdoptedDisk, Only, Restrict
<1>3. Option(d, "iothread", "0") = Option(want, "iothread", "0")
  BY DEF AdoptedDisk, Only, Restrict, Option, IsSwitch
<1> HIDE DEF want
<1>4. ~Moved(d, want)
  BY <1>1, <1>2 DEF Moved, Option
<1>5. ~DriveOptionsDrift(d, want)
  BY <1>1, <1>2, <1>3 DEF DriveOptionsDrift, Option
<1> QED BY <1>4, <1>5 DEF DiskUpdate, IsNewStorageSlot, want

LEMMA AdoptedNicStays == ASSUME NEW d PROVE NicMatches(d, AdoptedNic(d))
BY DEF NicMatches, AdoptedNic, Only, Restrict, Option

LEMMA AdoptedEfiStays ==
    ASSUME NEW m, NEW d, m.efi = AdoptedEfi(d)
    PROVE  EfiUpdate(m, d) = Nothing
<1> DEFINE want == AdoptedEfi(d)
<1>1. \A t \in DOMAIN want : t \in DOMAIN d /\ want[t] = d[t]
  BY DEF AdoptedEfi, Only, Restrict
<1>2. d = Nothing => want = Nothing
  BY DEF AdoptedEfi, Only, Restrict, Nothing
<1> HIDE DEF want
<1>3. ~EfiDrift(d, want)
  BY <1>1 DEF EfiDrift, Option
<1> QED BY <1>2, <1>3 DEF EfiUpdate, IsNewStorageSlot, want

(* The two drives: the cloud-init drive, and the CD-ROM where it belongs.  *)
LEMMA AdoptedMediaStay ==
    ASSUME NEW m, NEW cfg, WellFormed(cfg), MediaInPlace(cfg),
           m.drive = AdoptedDrive(cfg), m.cdrom = AdoptedCdrom(cfg)
    PROVE  /\ m.drive # "" => DriveUpdate(m, Device(cfg, "ide2")) = Device(cfg, "ide2")
           /\ m.cdrom # "" => CdromUpdate(m, Device(cfg, CdromSlot(m)))
                                = Device(cfg, CdromSlot(m))
<1>1. \A s \in {"ide2", "ide3"} \intersect DOMAIN cfg :
          cfg[s] # Nothing => IsDrive(cfg[s]) \/ IsIso(cfg[s])
  BY DEF WellFormed, IsComplete, DeviceSlots
<1>2. \A d : IsIso(d) => "of" \notin DOMAIN d /\ "file" \in DOMAIN d
                         /\ d["file"] \notin {"", "none"}
  BY DEF IsIso
<1>3. \A d : IsDrive(d) => "file" \notin DOMAIN d /\ "size" \notin DOMAIN d
                           /\ "of" \in DOMAIN d /\ "pool" \in DOMAIN d
  BY DEF IsDrive, IsVolume, Option
<1>4. ASSUME m.drive # ""
      PROVE  /\ "ide2" \in DOMAIN cfg /\ IsDrive(cfg["ide2"])
             /\ m.drive = cfg["ide2"]["pool"]
  <2>1. Option(Device(cfg, "ide2"), "of", "") = "cloudinit"
        /\ m.drive = Device(cfg, "ide2")["pool"]
    BY <1>4 DEF AdoptedDrive
  <2>2. "ide2" \in DOMAIN cfg /\ "of" \in DOMAIN cfg["ide2"]
    BY <2>1 DEF Option, Device, Nothing
  <2>3. cfg["ide2"] # Nothing
    BY <2>2 DEF Nothing
  <2> QED BY <1>1, <1>2, <2>1, <2>2, <2>3 DEF Device
<1>5. ASSUME m.drive # ""
      PROVE  DriveUpdate(m, Device(cfg, "ide2")) = Device(cfg, "ide2")
  <2>1. CloudInitMatches(cfg["ide2"], CloudInitDrive(m))
    BY <1>3, <1>4, <1>5 DEF CloudInitMatches, CloudInitDrive, Option
  <2> QED BY <1>4, <1>5, <2>1 DEF DriveUpdate, Device
<1> DEFINE speaks(s) == s \in DOMAIN cfg /\ (cfg[s] = Nothing \/ "file" \in DOMAIN cfg[s])
           of(s) == IF cfg[s] = Nothing THEN "none" ELSE cfg[s]["file"]
<1>6. ASSUME NEW s \in {"ide2", "ide3"}, speaks(s), m.cdrom = of(s)
      PROVE  CdromUpdate(m, Device(cfg, s)) = Device(cfg, s)
  <2>1. CASE cfg[s] = Nothing
    BY <1>6, <2>1 DEF CdromUpdate, Device
  <2>2. CASE cfg[s] # Nothing
    <3>1. IsIso(cfg[s])
      BY <1>1, <1>3, <1>6, <2>2
    <3>2. m.cdrom = cfg[s]["file"] /\ m.cdrom # "none" /\ "file" \in DOMAIN cfg[s]
      BY <1>2, <1>6, <2>2, <3>1
    <3> QED BY <1>6, <3>2 DEF CdromUpdate, Device, Option
  <2> QED BY <2>1, <2>2
<1>7. ASSUME m.cdrom # ""
      PROVE  speaks(CdromSlot(m)) /\ m.cdrom = of(CdromSlot(m))
  <2>1. m.cdrom = IF speaks("ide3") THEN of("ide3")
                  ELSE IF speaks("ide2") THEN of("ide2") ELSE ""
    BY DEF AdoptedCdrom
  <2>2. CASE m.drive # ""
    <3>1. ~speaks("ide2")
      <4>1. cfg["ide2"] # Nothing
        BY <1>3, <1>4, <2>2 DEF Nothing
      <4> QED BY <1>3, <1>4, <2>2, <4>1
    <3> QED BY <1>7, <2>1, <2>2, <3>1 DEF CdromSlot
  <2>3. CASE m.drive = ""
    <3>1. ~speaks("ide3")
      BY <2>3 DEF MediaInPlace
    <3> QED BY <1>7, <2>1, <2>3, <3>1 DEF CdromSlot
  <2> QED BY <2>2, <2>3
<1>8. CdromSlot(m) \in {"ide2", "ide3"}
  BY DEF CdromSlot
<1>9. m.cdrom # "" => CdromUpdate(m, Device(cfg, CdromSlot(m))) = Device(cfg, CdromSlot(m))
  <2> HIDE DEF speaks, of
  <2> QED BY <1>6, <1>7, <1>8
<1> QED BY <1>5, <1>9

LEMMA OverWithin ==
    ASSUME NEW f, NEW g, NEW S, DOMAIN f \subseteq S, DOMAIN g \subseteq S
    PROVE  DOMAIN (f @@ g) \subseteq S
<1>1. DOMAIN (f @@ g) = DOMAIN f \union DOMAIN g
  BY OverDomain
<1> QED BY <1>1

(* Every declared device of an adopted VM reads as it did.                 *)
LEMMA AdoptedVmDevices ==
    ASSUME NEW cfg, WellFormed(cfg), MediaInPlace(cfg), NEW power
    PROVE  Agrees(DeviceUpdates(AdoptVm(cfg, power), cfg), cfg)
<1> DEFINE m == AdoptVm(cfg, power)
           cur(s) == Device(cfg, s)
           disks == [s \in DOMAIN m.disks |-> DiskUpdate(cur(s), m.disks[s])]
           nics == [s \in DOMAIN m.nics |->
                      IF NicMatches(cur(s), m.nics[s]) THEN cur(s) ELSE m.nics[s]]
           tpm == IF m.tpm \in {"", Option(cur("tpm0"), "version", "")}
                  THEN Nothing ELSE "tpm0" :> Tpm(m)
           drive == IF m.drive = "" THEN Nothing
                    ELSE "ide2" :> DriveUpdate(m, cur("ide2"))
           cdrom == IF m.cdrom = "" THEN Nothing
                    ELSE CdromSlot(m) :> CdromUpdate(m, cur(CdromSlot(m)))
<1>1. DeviceUpdates(m, cfg) = disks @@ nics @@ m.pci @@ tpm @@ drive @@ cdrom
  BY DEF DeviceUpdates
<1>2. /\ m.disks = AdoptedDisks(cfg)
      /\ m.nics = [s \in Reported(cfg, NicSlots) |-> AdoptedNic(cfg[s])]
      /\ m.pci = Only(cfg, Reported(cfg, PciSlots))
      /\ m.tpm = Option(cur("tpm0"), "version", "")
      /\ m.drive = AdoptedDrive(cfg) /\ m.cdrom = AdoptedCdrom(cfg)
  BY DEF AdoptVm
<1> HIDE DEF m
<1>3. Agrees(disks, cfg)
  <2> SUFFICES ASSUME NEW s \in DOMAIN m.disks
               PROVE  DiskUpdate(cur(s), m.disks[s]) = cur(s)
    BY DEF Agrees
  <2>1. s \in Reported(cfg, DiskSlots) /\ m.disks[s] = AdoptedDisk(cfg[s])
    BY <1>2 DEF AdoptedDisks
  <2>2. s \in DiskSlots /\ cur(s) = cfg[s] /\ cfg[s] # Nothing
    BY <2>1, ReportedIsThere
  <2>3. IsVolume(cur(s))
    BY <2>2, WellFormedDevices DEF IsComplete, DeviceSlots, VolumeSlots
  <2> QED BY <2>1, <2>2, <2>3, AdoptedDiskStays DEF IsVolume
<1>4. Agrees(nics, cfg)
  <2> SUFFICES ASSUME NEW s \in DOMAIN m.nics
               PROVE  NicMatches(cur(s), m.nics[s])
    BY DEF Agrees
  <2>1. s \in Reported(cfg, NicSlots) /\ m.nics[s] = AdoptedNic(cfg[s])
    BY <1>2
  <2> QED BY <2>1, ReportedIsThere, AdoptedNicStays
<1>5. Agrees(m.pci, cfg)
  BY <1>2 DEF Agrees, Only, Restrict, Device
<1>6. Agrees(tpm, cfg)
  BY <1>2, AgreesNothing
<1>7. Agrees(drive, cfg) /\ Agrees(cdrom, cfg)
  <2>1. m.drive # "" => DriveUpdate(m, cur("ide2")) = cur("ide2")
    BY <1>2, AdoptedMediaStay
  <2>2. m.cdrom # "" => CdromUpdate(m, cur(CdromSlot(m))) = cur(CdromSlot(m))
    BY <1>2, AdoptedMediaStay
  <2>3. Agrees(drive, cfg)
    BY <2>1, AgreesNothing, AgreesOne
  <2> QED BY <2>2, <2>3, AgreesNothing, AgreesOne
<1> QED
  <2> HIDE DEF disks, nics, tpm, drive, cdrom
  <2>1. Agrees(disks @@ nics @@ m.pci, cfg)
    BY <1>3, <1>4, <1>5, AgreesOver
  <2>2. Agrees(disks @@ nics @@ m.pci @@ tpm @@ drive, cfg)
    BY <1>6, <1>7, <2>1, AgreesOver
  <2> QED BY <1>1, <1>7, <2>2, AgreesOver DEF m

LEMMA AdoptedVmData ==
    ASSUME NEW cfg, NEW power
    PROVE  /\ DOMAIN FieldUpdates(AdoptVm(cfg, power), cfg) = {}
           /\ DOMAIN DataUpdates(AdoptVm(cfg, power), cfg) = {}
<1> DEFINE m == AdoptVm(cfg, power)
<1>1. /\ m.fields = AdoptedFields(cfg) /\ m.sshkeys = AdoptedKeys(cfg)
      /\ m.nameserver = Words(cfg, "nameserver") /\ m.password = ""
      /\ m.searchdomain = Words(cfg, "searchdomain")
  BY DEF AdoptVm
<1> HIDE DEF m
<1>2. DOMAIN FieldUpdates(m, cfg) = {}
  BY <1>1 DEF FieldUpdates, ChangedWords, AdoptedFields, Only, Without, Restrict, Word
<1>3. SSHKeysWire(m) = {}
  BY <1>1 DEF SSHKeysWire, AdoptedKeys
<1>4. \A k \in DOMAIN SetKeys(m) : SetKeys(m)[k] = {} \/ Words(cfg, k) = SetKeys(m)[k]
  <2>1. /\ DOMAIN SetKeys(m) = {"sshkeys", "nameserver", "searchdomain"}
        /\ SetKeys(m)["sshkeys"] = {}
        /\ SetKeys(m)["nameserver"] = Words(cfg, "nameserver")
        /\ SetKeys(m)["searchdomain"] = Words(cfg, "searchdomain")
    BY <1>1, <1>3, SetKeysAre
  <2> QED BY <2>1
<1>5. DOMAIN ChangedSets(cfg, DeclaredSets(m)) = {}
  BY <1>4 DEF ChangedSets, DeclaredSets, Only, Restrict
<1>6. DOMAIN PasswordUpdate(m, cfg) = {}
  BY <1>1 DEF PasswordUpdate, Password, Nothing
<1>7. DOMAIN DataUpdates(m, cfg) \subseteq {}
  BY <1>5, <1>6, OverWithin DEF DataUpdates
<1> QED BY <1>2, <1>7 DEF m

LEMMA AdoptedVmQuiet ==
    ASSUME NEW cfg, WellFormed(cfg), MediaInPlace(cfg), NEW power
    PROVE  LET m == AdoptVm(cfg, power)
           IN  /\ DOMAIN VmDrift(m, cfg).set \subseteq {"tags"}
               /\ VmDrift(m, cfg).del = {}
               /\ \A s \in VmAnomalies(m, cfg) : IsCdromMedia(Device(cfg, s))
<1> DEFINE m == AdoptVm(cfg, power)
           fields == FieldUpdates(m, cfg)
           devices == ChangedDevices(cfg, DeviceUpdates(m, cfg))
           efi == EfiUpdate(m, Device(cfg, "efidisk0"))
           tags == TagUpdate(m, cfg)
           data == DataUpdates(m, cfg)
<1>1. /\ m.clone = FALSE /\ m.efi = AdoptedEfi(Device(cfg, "efidisk0"))
      /\ m.disks = AdoptedDisks(cfg) /\ DOMAIN m.nics = Reported(cfg, NicSlots)
      /\ m.pci = Only(cfg, Reported(cfg, PciSlots))
  BY DEF AdoptVm
<1>2. DOMAIN fields = {} /\ DOMAIN data = {}
  BY AdoptedVmData
<1>3. DOMAIN devices = {}
  BY AdoptedVmDevices, AgreedUnchanged
<1>4. DOMAIN efi = {}
  BY <1>1, AdoptedEfiStays DEF Nothing
<1>5. DOMAIN tags \subseteq {"tags"}
  BY DEF TagUpdate, ChangedSets, Only, Restrict, :>
<1>6. /\ VmDrift(m, cfg).set = fields @@ (devices @@ efi) @@ tags @@ data
      /\ VmDrift(m, cfg).del = {}
  BY <1>1 DEF VmDrift, IsCloneBacked
<1>7. DOMAIN VmDrift(m, cfg).set \subseteq {"tags"}
  <2> HIDE DEF m, fields, devices, efi, tags, data
  <2>1. DOMAIN (devices @@ efi) \subseteq {"tags"}
    BY <1>3, <1>4, OverWithin
  <2>2. DOMAIN (fields @@ (devices @@ efi)) \subseteq {"tags"}
    BY <1>2, <2>1, OverWithin
  <2>3. DOMAIN (fields @@ (devices @@ efi) @@ tags) \subseteq {"tags"}
    BY <1>5, <2>2, OverWithin
  <2> DEFINE most == fields @@ (devices @@ efi) @@ tags
  <2> HIDE DEF most
  <2>4. DOMAIN most \subseteq {"tags"} /\ DOMAIN data \subseteq {"tags"}
    BY <1>2, <2>3 DEF most
  <2>5. DOMAIN (most @@ data) \subseteq {"tags"}
    BY <2>4, OverWithin
  <2> QED BY <1>6, <2>5 DEF most
<1>8. ASSUME NEW s \in VmAnomalies(m, cfg)
      PROVE  IsCdromMedia(Device(cfg, s))
  <2> DEFINE there(S) == {x \in S : Device(cfg, x) # Nothing}
  <2>1. there(NicSlots \ DOMAIN m.nics) = {} /\ there(PciSlots \ DOMAIN m.pci) = {}
    BY <1>1 DEF Reported, Only, Restrict, Device
  <2>2. \A x \in there(DiskSlots \ DOMAIN m.disks) : IsCdromMedia(Device(cfg, x))
    BY <1>1, ReportedIsThere DEF AdoptedDisks, Reported
  <2>3. \A x \in DOMAIN m.disks : ~Moved(Device(cfg, x), m.disks[x])
    <3> SUFFICES ASSUME NEW x \in DOMAIN m.disks
                 PROVE  ~Moved(Device(cfg, x), m.disks[x])
      OBVIOUS
    <3>1. x \in Reported(cfg, DiskSlots) /\ m.disks[x] = AdoptedDisk(cfg[x])
      BY <1>1 DEF AdoptedDisks
    <3>2. x \in DiskSlots /\ Device(cfg, x) = cfg[x] /\ cfg[x] # Nothing
      BY <3>1, ReportedIsThere
    <3>3. IsVolume(cfg[x])
      BY <3>2, WellFormedDevices DEF IsComplete, DeviceSlots, VolumeSlots
    <3> QED BY <3>1, <3>2, <3>3, AdoptedDiskStays DEF IsVolume
  <2>4. m.efi # Nothing
        => Option(Device(cfg, "efidisk0"), "pool", m.efi.pool) = m.efi.pool
    BY <1>1 DEF AdoptedEfi, Only, Restrict, Option
  <2> HIDE DEF m
  <2> QED BY <1>1, <2>1, <2>2, <2>3, <2>4 DEF VmAnomalies, IsCloneBacked
<1> QED BY <1>6, <1>7, <1>8

(* And of an adopted container, whose architecture PVE always tells.       *)
LEMMA AdoptedMountStays ==
    ASSUME NEW d, ~IsBind(d)
    PROVE  /\ MountUpdate(d, AdoptedMount(d)) = d \/ d = Nothing
           /\ ~Moved(d, AdoptedMount(d))
<1> DEFINE want == AdoptedMount(d)
<1>1. \A t \in DOMAIN want : t \in DOMAIN d /\ want[t] = d[t]
  BY DEF AdoptedMount, Only, Restrict
<1>2. "pool" \in DOMAIN d => "pool" \in DOMAIN want
  BY DEF AdoptedMount, Only, Restrict
<1> HIDE DEF want
<1>3. ~Moved(d, want) /\ ~MountDrift(d, want)
  BY <1>1, <1>2 DEF Moved, MountDrift, Option
<1> QED BY <1>3 DEF MountUpdate, IsNewStorageSlot, want

LEMMA AdoptedBindStays ==
    ASSUME NEW d, IsBind(d), "mp" \in DOMAIN d
    PROVE  /\ BindUpdate(d, AdoptedBind(d)) = d
           /\ Option(d, "host", "") = AdoptedBind(d)["host"]
<1> DEFINE want == AdoptedBind(d)
<1>1. \A t \in DOMAIN want : t \in DOMAIN d /\ want[t] = d[t]
  BY DEF AdoptedBind, Only, Restrict
<1>2. {"host", "mp"} \subseteq DOMAIN want
  BY DEF AdoptedBind, Only, Restrict, IsBind
<1> HIDE DEF want
<1>3. ~BindDrift(d, want)
  BY <1>1, <1>2 DEF BindDrift, Option
<1>4. d # Nothing
  BY DEF Nothing
<1> QED BY <1>1, <1>2, <1>3, <1>4 DEF BindUpdate, IsNewStorageSlot, Option, want

LEMMA AdoptedNetStays == ASSUME NEW s, NEW d PROVE NetMatches(d, AdoptedNet(s, d))
BY DEF NetMatches, AdoptedNet, Only, Restrict, Option

LEMMA AdoptedRootStays ==
    ASSUME NEW d
    PROVE  LET want == Only(d, {"pool", "size"})
           IN  RootUpdate(d, want) = d /\ ~Moved(d, want)
<1> DEFINE want == Only(d, {"pool", "size"})
<1>1. d = Nothing => want = Nothing
  BY DEF Only, Restrict, Nothing
<1>2. RootUpdate(d, want) = d
  BY <1>1 DEF RootUpdate, IsNewStorageSlot
<1>3. ~Moved(d, want)
  BY DEF Moved, Option, Only, Restrict
<1> QED BY <1>2, <1>3

LEMMA AdoptedLxcMounts ==
    ASSUME NEW cfg, WellFormed(cfg), NEW power
    PROVE  LET m == AdoptLxc(cfg, power)
           IN  /\ \A s \in DOMAIN m.mounts :
                     /\ m.mounts[s] = AdoptedMount(Device(cfg, s))
                     /\ Device(cfg, s) # Nothing /\ ~IsBind(Device(cfg, s))
               /\ \A s \in DOMAIN m.binds :
                     /\ m.binds[s] = AdoptedBind(Device(cfg, s))
                     /\ IsBind(Device(cfg, s)) /\ "mp" \in DOMAIN Device(cfg, s)
               /\ Reported(cfg, MpSlots) \subseteq DOMAIN m.mounts \union DOMAIN m.binds
<1> DEFINE m == AdoptLxc(cfg, power)
           mps == Reported(cfg, MpSlots)
           binds == {s \in mps : IsBind(cfg[s])}
<1>1. /\ m.mounts = [s \in mps \ binds |-> AdoptedMount(cfg[s])]
      /\ m.binds = [s \in binds |-> AdoptedBind(cfg[s])]
  BY DEF AdoptLxc
<1>2. \A s \in mps : s \in MpSlots /\ Device(cfg, s) = cfg[s] /\ cfg[s] # Nothing
  BY ReportedIsThere
<1>3. \A s \in mps : "mp" \in DOMAIN cfg[s]
  BY <1>2, WellFormedDevices DEF IsComplete, DeviceSlots, VolumeSlots
<1> HIDE DEF m, mps
<1> QED BY <1>1, <1>2, <1>3 DEF m, mps

LEMMA AdoptedLxcVolumes ==
    ASSUME NEW cfg, WellFormed(cfg), NEW power
    PROVE  Agrees(VolumeUpdates(AdoptLxc(cfg, power), cfg), cfg)
<1> DEFINE m == AdoptLxc(cfg, power)
           cur(s) == Device(cfg, s)
           root == "rootfs" :> RootUpdate(cur("rootfs"), m.root)
           mounts == [s \in DOMAIN m.mounts |-> MountUpdate(cur(s), m.mounts[s])]
           binds == [s \in DOMAIN m.binds |-> BindUpdate(cur(s), m.binds[s])]
           nets == [s \in DOMAIN m.nets |->
                      IF NetMatches(cur(s), m.nets[s]) THEN cur(s) ELSE m.nets[s]]
<1>1. VolumeUpdates(m, cfg) = root @@ mounts @@ binds @@ nets
  BY DEF VolumeUpdates
<1>2. /\ m.root = Only(cur("rootfs"), {"pool", "size"})
      /\ m.nets = [s \in Reported(cfg, NicSlots) |-> AdoptedNet(s, cfg[s])]
  BY DEF AdoptLxc
<1>3. Agrees(root, cfg)
  <2>1. RootUpdate(cur("rootfs"), m.root) = cur("rootfs")
    BY <1>2, AdoptedRootStays
  <2> QED BY <2>1, AgreesOne
<1>4. Agrees(mounts, cfg) /\ Agrees(binds, cfg)
  <2>1. \A s \in DOMAIN m.mounts : MountUpdate(cur(s), m.mounts[s]) = cur(s)
    BY AdoptedLxcMounts, AdoptedMountStays
  <2>2. \A s \in DOMAIN m.binds : BindUpdate(cur(s), m.binds[s]) = cur(s)
    BY AdoptedLxcMounts, AdoptedBindStays
  <2> HIDE DEF m
  <2> QED BY <2>1, <2>2 DEF Agrees
<1>5. Agrees(nets, cfg)
  <2> SUFFICES ASSUME NEW s \in DOMAIN m.nets
               PROVE  NetMatches(cur(s), m.nets[s])
    BY DEF Agrees
  <2>1. s \in Reported(cfg, NicSlots) /\ m.nets[s] = AdoptedNet(s, cfg[s])
    BY <1>2
  <2> QED BY <2>1, ReportedIsThere, AdoptedNetStays
<1> QED
  <2> HIDE DEF root, mounts, binds, nets
  <2>1. Agrees(root @@ mounts @@ binds, cfg)
    BY <1>3, <1>4, AgreesOver
  <2> QED BY <1>1, <1>5, <2>1, AgreesOver

LEMMA AdoptedLxcWords ==
    ASSUME NEW cfg, "arch" \in DOMAIN cfg, NEW power
    PROVE  /\ DOMAIN ChangedWords(cfg, CtFields(AdoptLxc(cfg, power))) = {}
           /\ DOMAIN SwitchUpdates(AdoptLxc(cfg, power), cfg) = {}
<1> DEFINE m == AdoptLxc(cfg, power)
           own == Only(cfg, ColdCtKeys \union HotCtKeys)
<1>1. /\ m.fields = own @@ ("arch" :> "amd64") /\ m.name = Word(cfg, "hostname")
      /\ m.options = Only(cfg, SwitchKeys \union FixedKeys)
  BY DEF AdoptLxc
<1>2. /\ \A k \in DOMAIN own : own[k] = Word(cfg, k)
      /\ "arch" \in DOMAIN own
  BY DEF Only, Restrict, Word, ColdCtKeys
<1> HIDE DEF m, own
<1>3. \A k \in DOMAIN m.fields : m.fields[k] = Word(cfg, k)
  BY <1>1, <1>2, OverIs DEF Over, :>
<1>4. \A k \in DOMAIN CtFields(m) : CtFields(m)[k] = Word(cfg, k)
  BY <1>1, <1>3, OverIs DEF CtFields, Over, :>
<1>5. DOMAIN ChangedWords(cfg, CtFields(m)) = {}
  BY <1>4 DEF ChangedWords, Only, Restrict
<1>6. DOMAIN SwitchUpdates(m, cfg) = {}
  BY <1>1 DEF SwitchUpdates, Only, Restrict, Word
<1> QED BY <1>5, <1>6 DEF m

LEMMA AdoptedLxcQuiet ==
    ASSUME NEW cfg, WellFormed(cfg), "arch" \in DOMAIN cfg, NEW power
    PROVE  LET m == AdoptLxc(cfg, power)
           IN  /\ DOMAIN LxcDrift(m, cfg).set \subseteq {"tags"}
               /\ LxcDrift(m, cfg).del = {}
               /\ LxcAnomalies(m, cfg) = {}
<1> DEFINE m == AdoptLxc(cfg, power)
           fields == ChangedWords(cfg, CtFields(m))
           tags == ChangedSets(cfg, "tags" :> AllTags(m))
           switches == SwitchUpdates(m, cfg)
           volumes == ChangedDevices(cfg, VolumeUpdates(m, cfg))
<1>1. DOMAIN fields = {} /\ DOMAIN switches = {}
  BY AdoptedLxcWords
<1>2. DOMAIN volumes = {}
  BY AdoptedLxcVolumes, AgreedUnchanged
<1>3. DOMAIN tags \subseteq {"tags"}
  BY DEF ChangedSets, Only, Restrict, :>
<1>4. /\ LxcDrift(m, cfg).set = fields @@ tags @@ (switches @@ volumes)
      /\ LxcDrift(m, cfg).del = {}
  BY DEF LxcDrift
<1>5. DOMAIN LxcDrift(m, cfg).set \subseteq {"tags"}
  <2> HIDE DEF m, fields, tags, switches, volumes
  <2> DEFINE hot == fields @@ tags
             cold == switches @@ volumes
  <2>1. DOMAIN hot \subseteq {"tags"}
    BY <1>1, <1>3, OverWithin
  <2>2. DOMAIN cold \subseteq {"tags"}
    BY <1>1, <1>2, OverWithin
  <2>3. LxcDrift(m, cfg).set = hot @@ cold
    BY <1>4
  <2> HIDE DEF hot, cold
  <2> QED BY <2>1, <2>2, <2>3, OverWithin
<1>6. FixedAnomalies(m, cfg) = {}
  <2>1. \A k \in DOMAIN m.options : k \in DOMAIN cfg /\ m.options[k] = cfg[k]
    BY DEF AdoptLxc, Only, Restrict
  <2> HIDE DEF m
  <2> QED BY <2>1 DEF FixedAnomalies, Word, Option
<1>7. MountAnomalies(m, cfg) = {}
  <2>1. \A s \in MpSlots \ (DOMAIN m.mounts \union DOMAIN m.binds) : Device(cfg, s) = Nothing
    BY AdoptedLxcMounts DEF Reported
  <2>2. \A s \in DOMAIN m.mounts :
            ~IsBind(Device(cfg, s)) /\ ~Moved(Device(cfg, s), m.mounts[s])
    BY AdoptedLxcMounts, AdoptedMountStays
  <2>3. \A s \in DOMAIN m.binds : Option(Device(cfg, s), "host", "") = m.binds[s].host
    <3>1. \A s \in DOMAIN m.binds :
             /\ m.binds[s] = AdoptedBind(Device(cfg, s))
             /\ IsBind(Device(cfg, s)) /\ "mp" \in DOMAIN Device(cfg, s)
      BY AdoptedLxcMounts
    <3> HIDE DEF m
    <3> QED BY <3>1, AdoptedBindStays
  <2>4. m.root = Only(Device(cfg, "rootfs"), {"pool", "size"})
    BY DEF AdoptLxc
  <2>5. ~Moved(Device(cfg, "rootfs"), m.root)
    BY <2>4, AdoptedRootStays
  <2> HIDE DEF m
  <2> QED BY <2>1, <2>2, <2>3, <2>5 DEF MountAnomalies
<1> QED BY <1>4, <1>5, <1>6, <1>7 DEF LxcAnomalies

(* PVE records the architecture of a container when it makes it, and no    *)
(* cycle deletes a key of one.  Hands that do leave nothing to adopt, and  *)
(* the manifest says amd64 (adopt.go:799, lxc.go:1232).                    *)
ArchIsLeft == \A e \in WordEdits : e.key = "arch" => e.word # ""

ArchInv ==
    ~IsVM(manifest) =>
        /\ up # "missing" => "arch" \in DOMAIN live
        /\ pc \in {"stop", "write"} => plan.update.del = {}

LEMMA StoredKeepsArch ==
    ASSUME NEW cfg, "arch" \in DOMAIN cfg, NEW set
    PROVE  "arch" \in DOMAIN Stored(cfg, set, {})
<1>1. "arch" \notin SwitchKeys
  BY DEF SwitchKeys
<1> QED BY <1>1, OverIs DEF Stored, Without, Restrict, Over

LEMMA EditKeepsArch ==
    ASSUME ArchIsLeft, "arch" \in DOMAIN live, Edit
    PROVE  "arch" \in DOMAIN live'
<1>1. CASE EditWord
  <2>1. PICK e \in WordEdits :
           live' = IF e.word = "" THEN Without(live, {e.key})
                   ELSE (e.key :> e.word) @@ live
    BY <1>1 DEF EditWord
  <2>2. e.key = "arch" => e.word # ""
    BY DEF ArchIsLeft
  <2> QED BY <2>1, <2>2, OverIs DEF Without, Restrict, Over
<1>2. CASE EditDevice
  <2>1. PICK e \in DeviceEdits : \E device : live' = (e.key :> device) @@ live
    BY <1>2 DEF EditDevice
  <2> QED BY <2>1, OverIs DEF Over
<1> QED BY <1>1, <1>2 DEF Edit

LEMMA ArchStep ==
    ASSUME ArchIsLeft
    PROVE  GInv /\ ArchInv /\ [Next]_vars => ArchInv'
<1> SUFFICES ASSUME GInv, ArchInv, [Next]_vars, ~IsVM(manifest')
             PROVE  /\ up' # "missing" => "arch" \in DOMAIN live'
                    /\ pc' \in {"stop", "write"} => plan'.update.del = {}
  BY DEF ArchInv
<1>1. ShapeInv /\ PlanInv
  BY DEF GInv
<1>2. ~IsVM(manifest)
  <2>1. CASE Push
    BY <2>1 DEF Push, IsVM
  <2>2. CASE ~Push
    BY <2>2 DEF Next, AgentStep, Plan, StopFirst, Write, Restart, Power, Create,
                CloneGuest, CloneRead, WriteFails, CutOff, Edit, vars
  <2> QED BY <2>1, <2>2
<1>3. /\ up # "missing" => "arch" \in DOMAIN live
      /\ pc \in {"stop", "write"} => plan.update.del = {}
  BY <1>2 DEF ArchInv
<1>4. CASE Plan
  <2>1. plan'.update = LxcDrift(manifest, live)
    BY <1>2, <1>4 DEF Plan, Drift
  <2> QED BY <1>3, <1>4, <2>1 DEF Plan, LxcDrift
<1>5. CASE Write \/ WriteFails
  <2>1. plan.update.del = {} /\ "arch" \in DOMAIN live
    BY <1>1, <1>3, <1>5 DEF Write, WriteFails, ShapeInv
  <2>2. "arch" \in DOMAIN live'
    BY <1>5, <2>1, StoredKeepsArch DEF Write, WriteFails
  <2>3. pc' \notin {"stop", "write"}
    BY <1>5 DEF Write, WriteFails
  <2> QED BY <2>2, <2>3
<1>6. CASE Create
  <2>1. "arch" \in DOMAIN live'
    <3>1. live' = Stored(Nothing, CreateConfig(manifest), {}) @@ ("arch" :> "amd64")
      BY <1>2, <1>6 DEF Create, Filled
    <3> QED BY <3>1, OverIs DEF Over, :>
  <2> QED BY <1>6, <2>1 DEF Create, cycle
<1>7. CASE Edit
  <2>1. up # "missing" /\ UNCHANGED <<up, pc, plan>>
    BY <1>7 DEF Edit, cycle
  <2> QED BY <1>3, <1>7, <2>1, EditKeepsArch
<1>8. CASE StopFirst \/ Restart \/ Power \/ CutOff
  <2>1. up # "missing" /\ live' = live
    BY <1>1, <1>8 DEF StopFirst, Restart, Power, CutOff, ShapeInv
  <2>2. pc' \in {"stop", "write"} => pc = "stop" /\ plan' = plan
    BY <1>8 DEF StopFirst, Restart, Power, CutOff, Idle
  <2> QED BY <1>3, <2>1, <2>2
<1>9. CASE CloneGuest \/ CloneRead
  BY <1>1, <1>2, <1>9 DEF CloneGuest, CloneRead, PlanInv
<1>10. CASE Push \/ UNCHANGED vars
  <2>1. UNCHANGED <<live, up, pc, plan>>
    BY <1>10 DEF Push, cycle, vars
  <2> QED BY <1>3, <2>1
<1> QED
  BY <1>4, <1>5, <1>6, <1>7, <1>8, <1>9, <1>10 DEF Next, AgentStep

(* vm.go, lxc.go, Drift and adopt.go: whatever has become of a guest, the  *)
(* manifest that adoption writes for it asks for nothing but the ownership *)
(* tag, and reports nothing but the cloud-init volumes on a data bus.      *)
THEOREM AdoptionStaysQuiet ==
    ASSUME ArchIsLeft
    PROVE  Spec => []((IsVM(manifest) => MediaInPlace(live)) => AdoptionIsQuiet)
<1>1. Init => ArchInv
  BY DEF Init, ArchInv
<1>2. ASSUME GInv, ArchInv, IsVM(manifest) => MediaInPlace(live)
      PROVE  AdoptionIsQuiet
  <2> SUFFICES ASSUME up # "missing" PROVE AdoptionIsQuiet
    BY DEF AdoptionIsQuiet
  <2>1. WellFormed(live) /\ up \in {"stopped", "running"}
    BY <1>2 DEF GInv, ShapeInv
  <2>2. CASE IsVM(manifest)
    <3> DEFINE m == AdoptVm(live, up)
    <3>1. IsVM(m) /\ m.state = StateOf(up)
      BY DEF AdoptVm, IsVM
    <3>2. /\ DOMAIN VmDrift(m, live).set \subseteq {"tags"}
          /\ VmDrift(m, live).del = {}
          /\ \A s \in VmAnomalies(m, live) : IsCdromMedia(Device(live, s))
      BY <1>2, <2>1, <2>2, AdoptedVmQuiet
    <3>3. Verb(m, up) = ""
      BY <2>1, <3>1 DEF Verb, StateOf
    <3> HIDE DEF m
    <3> QED BY <2>2, <3>1, <3>2, <3>3 DEF AdoptionIsQuiet, Drift, Anomalies, m
  <2>3. CASE ~IsVM(manifest)
    <3> DEFINE m == AdoptLxc(live, up)
    <3>1. ~IsVM(m) /\ m.state = StateOf(up)
      BY DEF AdoptLxc, IsVM
    <3>2. /\ DOMAIN LxcDrift(m, live).set \subseteq {"tags"}
          /\ LxcDrift(m, live).del = {}
          /\ LxcAnomalies(m, live) = {}
      BY <1>2, <2>1, <2>3, AdoptedLxcQuiet DEF ArchInv
    <3>3. Verb(m, up) = ""
      BY <2>1, <3>1 DEF Verb, StateOf
    <3> HIDE DEF m
    <3> QED BY <2>3, <3>1, <3>2, <3>3 DEF AdoptionIsQuiet, Drift, Anomalies, m
  <2> QED BY <2>2, <2>3
<1> QED BY <1>1, <1>2, GInit, GStep, ArchStep, PTL DEF Spec

=============================================================================
