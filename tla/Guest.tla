------------------------------- MODULE Guest -------------------------------
(***************************************************************************)
(* The configuration of one guest, VM or container, through the cycles of  *)
(* the agent: it is created or cloned, its configuration drifts by hand,   *)
(* the manifest changes, a write fails or is cut off, and the agent keeps  *)
(* correcting.  Pve and Reconcile tell which guests exist and in which     *)
(* order they are touched; here is what is in them, option by option.      *)
(*                                                                         *)
(* A cycle reads the configuration once, in Plan, and acts on what it read *)
(* ("seen"); hands may be at work in between.  A manifest that is pushed   *)
(* while a cycle runs is seen by the next, so Push waits for the cycle.    *)
(***************************************************************************)
EXTENDS Adopt

CONSTANTS
    Manifests,       \* the manifests that are pushed, of either kind
    Template,        \* the configuration of the template that clones copy
    WordEdits,       \* by hand: [kind, key, word]; no word deletes the key
    DeviceEdits,     \* by hand: [kind, key, put, drop] on the device's options
    BackupDefault,   \* what PVE takes a mount for that tells no "backup"
    MaxPushes, MaxEdits, MaxFaults

VARIABLES
    manifest,        \* what git declares
    live, up,        \* the guest on PVE: configuration and power
    pc,              \* where the cycle is
    seen,            \* the configuration the running cycle has read
    plan,            \* its update, and the power verb it found necessary
    stopped,         \* it has stopped the guest for the update
    pushes, edits, faults

vars == <<manifest, live, up, pc, seen, plan, stopped, pushes, edits, faults>>
cycle == <<pc, seen, plan, stopped>>
counters == <<pushes, edits, faults>>

IsVM(m) == m.kind = "VM"
Valid(m) == IF IsVM(m) THEN ValidVM(m) ELSE ValidLXC(m) /\ CreatableLXC(m)
ASSUME ManifestsAssumption == \A m \in Manifests : Valid(m)
ASSUME BoundsAssumption == {MaxPushes, MaxEdits, MaxFaults} \subseteq Nat

(* The schema's comments say 1 (lxc.go:111, adopt.go:834), its drift and    *)
(* the test of the drift 0 (lxc.go:998, lxc_wire_regressions_test.go:315). *)
ASSUME BackupAssumption == BackupDefault \in {"0", "1"}

Drift(m, cfg) == IF IsVM(m) THEN VmDrift(m, cfg) ELSE LxcDrift(m, cfg)
Anomalies(m, cfg) == IF IsVM(m) THEN VmAnomalies(m, cfg) ELSE LxcAnomalies(m, cfg)
CreateConfig(m) ==
    IF IsVM(m) THEN ("name" :> m.name) @@ VmCreate(m) ELSE LxcCreate(m)

-----------------------------------------------------------------------------
(* Proxmox VE: what a configuration becomes when it is written.            *)
VolumeSlots == DiskSlots \union MpSlots \union {"efidisk0", "rootfs"}
DeviceSlots == VolumeSlots \union NicSlots \union PciSlots
                 \union {"ide2", "ide3", "tpm0"}

(* What else a manifest may write.                                         *)
PlainKeys == ColdKeys \union HotKeys \union CreateOnlyKeys \union CloneInheritedKeys
               \union ColdCtKeys \union HotCtKeys \union SwitchKeys \union FixedKeys
               \union {"tags"}

(* No key has two meanings, and no slot is of two kinds.                   *)
ASSUME SlotsAssumption ==
    /\ DeviceSlots \intersect (PlainKeys \union {"name"}) = {}
    /\ IpKeySet \intersect (CloneInheritedKeys \union SwitchKeys
                             \union {"tags", "name"}) = {}
    /\ VolumeSlots \intersect (NicSlots \union PciSlots
                                \union {"ide2", "ide3", "tpm0"}) = {}
    /\ DiskSlots \intersect (MpSlots \union {"efidisk0", "rootfs"}) = {}
    /\ MpSlots \intersect {"efidisk0", "rootfs"} = {}
    /\ NicSlots \intersect PciSlots = {}
    /\ (NicSlots \union PciSlots) \intersect {"ide2", "ide3", "tpm0"} = {}

IsCreateForm(d) == "pool" \in DOMAIN d /\ DOMAIN d \intersect {"vol", "file"} = {}
HasVolume(cfg, s) == "vol" \in DOMAIN Device(cfg, s)

(* A cloud-init volume has a fixed name: a pool cannot hold it twice.      *)
Refused(cfg, set) ==
    /\ "ide2" \in DOMAIN set
    /\ IsCreateForm(set["ide2"])
    /\ HasVolume(cfg, "ide2") /\ cfg["ide2"].pool = set["ide2"].pool

PveDefault(t) ==
    CASE t = "discard" -> "ignore"
      [] t = "mountoptions" -> "defaults"
      [] t = "backup" -> BackupDefault
      [] OTHER -> "0"

(* Options of a disk or a mount that have their defaults are not reported. *)
IsReported(d, t) ==
    t \in {"ssd", "discard"} \union (IF "mp" \in DOMAIN d THEN MountOptions ELSE {})
        => d[t] # PveDefault(t)

Reports(d) == Only(d, {t \in DOMAIN d : IsReported(d, t)})

(* A new volume gets a name, one that "not" does not bear, and its size.   *)
Allocated(d, not) ==
    Without(Reports(d), {"from"})
      @@ ("vol" :> (IF not = "a" THEN "b" ELSE "a"))
      @@ (IF Option(d, "of", "") = "cloudinit" THEN Nothing ELSE "size" :> "3G")

StoredDevice(cur, d) ==
    IF IsCreateForm(d) THEN Allocated(d, Option(cur, "vol", ""))
    ELSE IF "bridge" \in DOMAIN d THEN d @@ ("mac" :> "drawn")
    ELSE IF "file" \in DOMAIN d THEN d @@ ("size" :> "600M")
    ELSE Reports(d)

(* A switch that is off is not reported at all.                            *)
Stored(cfg, set, del) ==
    [k \in {k \in DOMAIN set : k \in SwitchKeys => set[k] # "0"} |->
        IF k \in DeviceSlots THEN StoredDevice(Device(cfg, k), set[k]) ELSE set[k]]
      @@ Without(cfg, del \union (SwitchKeys \intersect DOMAIN set))

IsSwitch(word) == word \in {"0", "1"}

(* What PVE has at a slot: of a volume it always tells the pool and, unless *)
(* it is a cloud-init drive, the size; of a mount point the path.  In ide2 *)
(* and ide3 there is a medium: a disk of that bus is none of DiskSlots.    *)
IsVolume(d) ==
    /\ {"pool", "vol"} \subseteq DOMAIN d
    /\ DOMAIN d \intersect {"host", "file", "bridge"} = {}
    /\ Option(d, "of", "") = "cloudinit" \/ "size" \in DOMAIN d
    /\ IsSwitch(Option(d, "iothread", "0"))
    /\ \A t \in DOMAIN d : IsReported(d, t)

IsIso(d) ==
    /\ {"file", "size", "pool"} \subseteq DOMAIN d
    /\ d["pool"] = IsoPool /\ d["file"] \notin {"", "none"}
    /\ DOMAIN d \intersect {"vol", "bridge", "of"} = {}

IsDrive(d) ==
    IsVolume(d) /\ Option(d, "of", "") = "cloudinit" /\ "size" \notin DOMAIN d

IsComplete(s, d) ==
    d # Nothing =>
      /\ s \in DiskSlots \union {"efidisk0", "rootfs"} => IsVolume(d)
      /\ s \in MpSlots => "mp" \in DOMAIN d /\ (IsVolume(d) \/ IsBind(d))
      /\ s \in {"ide2", "ide3"} => IsDrive(d) \/ IsIso(d)

WellFormed(cfg) ==
    /\ \A s \in DeviceSlots \intersect DOMAIN cfg : IsComplete(s, cfg[s])
    /\ \A k \in SwitchKeys \intersect DOMAIN cfg : IsSwitch(cfg[k])

ASSUME TemplateAssumption == WellFormed(Template)

(* Hands write what PVE accepts; a slot they can only empty as a whole, or *)
(* change option by option.                                                *)
ASSUME EditsAssumption ==
    /\ \A e \in WordEdits :
          /\ e.key \in DeviceSlots => e.word = ""
          /\ e.key \in SwitchKeys => e.word = "" \/ IsSwitch(e.word)
    /\ \A e \in DeviceEdits : e.key \in DeviceSlots

(* PVE always records the architecture of a container.                     *)
Filled(m) == IF IsVM(m) THEN Nothing ELSE "arch" :> "amd64"

-----------------------------------------------------------------------------
(* The cycle.                                                              *)
NoPlan == [update |-> NoUpdate, verb |-> ""]

(* powerDesiredToLive                                                      *)
Verb(m, power) ==
    IF m.state = "started" /\ power # "running" THEN "start"
    ELSE IF m.state = "stopped" /\ power = "running" THEN "stop" ELSE ""

Quiet ==
    /\ up # "missing"
    /\ IsNoUpdate(Drift(manifest, live))
    /\ Verb(manifest, up) = ""

Init ==
    /\ manifest \in Manifests
    /\ live = Nothing /\ up = "missing"
    /\ pc = "idle" /\ seen = Nothing /\ plan = NoPlan /\ stopped = FALSE
    /\ pushes = 0 /\ edits = 0 /\ faults = 0

(* Mutant of Idle: the plan of one cycle is left to the next.              *)
IdleWithPlan == pc' = "idle" /\ seen' = seen /\ plan' = plan /\ stopped' = FALSE

Idle == pc' = "idle" /\ seen' = Nothing /\ plan' = NoPlan /\ stopped' = FALSE

(* The update first, then the power, each if it is called for.             *)
Plan ==
    /\ pc = "idle" /\ up # "missing" /\ ~Quiet
    /\ seen' = live
    /\ plan' = [update |-> Drift(manifest, live), verb |-> Verb(manifest, up)]
    /\ pc' = IF IsNoUpdate(plan'.update) THEN "power"
              ELSE IF plan'.update.stop /\ up = "running" THEN "stop" ELSE "write"
    /\ UNCHANGED <<manifest, live, up, stopped, counters>>

(* Stop-first: the write waits for the task.                               *)
StopFirst ==
    /\ pc = "stop"
    /\ up' = "stopped" /\ stopped' = TRUE /\ pc' = "write"
    /\ UNCHANGED <<manifest, live, seen, plan, counters>>

(* One request sets and deletes; the guest runs again when the executor    *)
(* stopped it and it is wanted started.                                    *)
Write ==
    /\ pc = "write" /\ ~Refused(live, plan.update.set)
    /\ live' = Stored(live, plan.update.set, plan.update.del)
    /\ pc' = IF stopped /\ manifest.state = "started" THEN "restart" ELSE "power"
    /\ UNCHANGED <<manifest, up, seen, plan, stopped, counters>>

Restart ==
    /\ pc = "restart"
    /\ up' = "running" /\ pc' = "power"
    /\ UNCHANGED <<manifest, live, seen, plan, stopped, counters>>

(* An action of its own in the plan: it comes after the update, and also   *)
(* after an update that failed.                                            *)
Power ==
    /\ pc = "power"
    /\ up' = CASE plan.verb = "start" -> "running"
               [] plan.verb = "stop" -> "stopped"
               [] OTHER -> up
    /\ Idle
    /\ UNCHANGED <<manifest, live, counters>>

Create ==
    /\ pc = "idle" /\ up = "missing"
    /\ ~(IsVM(manifest) /\ IsCloneBacked(manifest))
    /\ live' = Stored(Nothing, CreateConfig(manifest), {}) @@ Filled(manifest)
    /\ up' = IF manifest.state = "started" THEN "running" ELSE "stopped"
    /\ UNCHANGED <<manifest, cycle, counters>>

(* The clone has volumes of its own, and stays stopped.                    *)
CloneGuest ==
    /\ pc = "idle" /\ up = "missing"
    /\ IsVM(manifest) /\ IsCloneBacked(manifest)
    /\ live' = ("name" :> manifest.name) @@ Template
    /\ up' = "stopped"
    /\ pc' = "clone"
    /\ UNCHANGED <<manifest, seen, plan, stopped, counters>>

(* The clone is read before it is configured; its start is left to the     *)
(* next cycle.                                                             *)
CloneRead ==
    /\ pc = "clone"
    /\ seen' = live
    /\ plan' = [NoPlan EXCEPT
                  !.update = [set |-> CloneConfigWrite(manifest, live),
                              del |-> CloneDeleteKeys(manifest),
                              stop |-> FALSE]]
    /\ pc' = "write"
    /\ UNCHANGED <<manifest, live, up, stopped, counters>>

(* A write that fails has done nothing, or what comes before the devices.  *)
WriteFails ==
    /\ pc = "write"
    /\ \/ Refused(live, plan.update.set) /\ UNCHANGED faults
       \/ faults < MaxFaults /\ faults' = faults + 1
    /\ \/ UNCHANGED live
       \/ live' = Stored(live, Without(plan.update.set, DeviceSlots), plan.update.del)
    /\ pc' = "power"
    /\ UNCHANGED <<manifest, up, seen, plan, stopped, pushes, edits>>

(* Any other step fails, or the agent dies: the next cycle starts over.    *)
CutOff ==
    /\ pc # "idle" /\ faults < MaxFaults
    /\ faults' = faults + 1
    /\ Idle
    /\ UNCHANGED <<manifest, live, up, pushes, edits>>

AgentStep ==
    \/ Plan \/ StopFirst \/ Write \/ Restart \/ Power
    \/ Create \/ CloneGuest \/ CloneRead

-----------------------------------------------------------------------------
(* The world outside.                                                      *)
Push ==
    /\ pc = "idle" /\ pushes < MaxPushes
    /\ pushes' = pushes + 1
    /\ \E m \in Manifests :
          /\ m.kind = manifest.kind
          /\ manifest' = m
    /\ UNCHANGED <<live, up, cycle, edits, faults>>

EditWord ==
    \E e \in WordEdits :
        /\ e.kind = manifest.kind
        /\ live' = IF e.word = "" THEN Without(live, {e.key})
                    ELSE (e.key :> e.word) @@ live

(* An emptied device is a detached slot.                                   *)
EditDevice ==
    \E e \in DeviceEdits :
        LET device == e.put @@ Without(Device(live, e.key), e.drop)
        IN  /\ e.kind = manifest.kind
            /\ IsComplete(e.key, device)
            /\ live' = (e.key :> device) @@ live

Edit ==
    /\ up # "missing" /\ edits < MaxEdits
    /\ edits' = edits + 1
    /\ EditWord \/ EditDevice
    /\ UNCHANGED <<manifest, up, cycle, pushes, faults>>

Next == AgentStep \/ WriteFails \/ CutOff \/ Push \/ Edit

Spec == Init /\ [][Next]_vars

(* The loop comes back every interval, and every step of a cycle ends: a   *)
(* request by its deadline, a task by its timeout.                         *)
FairSpec ==
    Spec /\ WF_vars(AgentStep \/ (WriteFails /\ Refused(live, plan.update.set)))

-----------------------------------------------------------------------------
(* Properties.                                                             *)

(* A cycle works on a guest that exists, and leaves nothing behind.        *)
GuestTypeOK ==
    /\ manifest \in Manifests
    /\ up \in {"missing", "stopped", "running"}
    /\ pc \in {"idle", "stop", "write", "restart", "power", "clone"}
    /\ WellFormed(live)
    /\ up = "missing" => live = Nothing
    /\ up = "missing" => pc = "idle"
    /\ pc = "idle" => seen = Nothing /\ plan = NoPlan
    /\ pc = "restart" => stopped /\ up = "stopped"
    /\ pushes <= MaxPushes /\ edits <= MaxEdits /\ faults <= MaxFaults

SameVolume(a, b, s) == HasVolume(a, s) /\ HasVolume(b, s) /\ a[s].vol = b[s].vol

(* A write, whether it succeeds or fails half-way, keeps every volume that *)
(* the cycle has read: no update ever replaces a disk that holds data.     *)
VolumesKept ==
    [][pc = "write" /\ pc' # "write" =>
          \A s \in VolumeSlots :
              SameVolume(seen, live, s) => SameVolume(live, live', s)]_vars

(* Options of a VM's volume that the manifest says nothing about survive   *)
(* the rewrite of those it declares; iothread is declared by its absence.  *)
UnownedKept ==
    [][pc = "write" /\ pc' # "write" /\ IsVM(manifest) =>
          \A s \in DiskSlots \union {"efidisk0"} :
              HasVolume(live, s) /\ Device(seen, s) = live[s] =>
                  LET declared == DOMAIN Device(Devices(manifest), s)
                      unowned == DOMAIN live[s] \ (declared \union {"iothread"})
                  IN  Only(live[s], unowned) = Only(live'[s], unowned)]_vars

(* What PVE reports, or else PVE's own default, whatever the drift takes   *)
(* an absent option for.                                                   *)
Held(cur, want, t) == Option(cur, t, PveDefault(t)) = want[t]

DeclaredDevices(m) ==
    IF IsVM(m) THEN Devices(m)
    ELSE ("rootfs" :> m.root) @@ m.mounts @@ m.binds @@ m.nets

DeclaredWords(m) ==
    IF IsVM(m) THEN Without(m.fields, CreateOnlyKeys) ELSE CtFields(m)

(* What the manifest declares is on PVE, told without the drift functions. *)
Owned(m, cfg) ==
    /\ \A k \in DOMAIN DeclaredWords(m) : Word(cfg, k) = DeclaredWords(m)[k]
    /\ Words(cfg, "tags") = m.tags \union {OwnershipTag}
    /\ \A s \in DOMAIN DeclaredDevices(m) :
          LET want == DeclaredDevices(m)[s]
          IN  IF want = Nothing THEN Device(cfg, s) = Nothing
              ELSE \A t \in DOMAIN want \ {"from", "size", "efitype"} :
                      Held(cfg[s], want, t)
    /\ IsVM(m) =>
          /\ m.sshkeys \in {{}, {"*"}, Words(cfg, "sshkeys")}
          /\ m.nameserver \in {{}, Words(cfg, "nameserver")}
          /\ m.searchdomain \in {{}, Words(cfg, "searchdomain")}
          /\ m.password # "" => "cipassword" \in DOMAIN cfg
    /\ ~IsVM(m) =>
          \A k \in DOMAIN m.options \intersect SwitchKeys :
              Option(cfg, k, "0") = m.options[k]

(* When no update is left and nothing is reported, every declared value is *)
(* in place: the comparisons of the drift functions leave no blind spot.   *)
QuietMeansOwned ==
    Quiet /\ pc = "idle" /\ Anomalies(manifest, live) = {} => Owned(manifest, live)

(* A clone at rest has no cloud-init identity but that of its manifest,    *)
(* whichever of the steps from the clone to here have failed.              *)
NoIdentityLeak ==
    Quiet /\ pc = "idle" /\ IsVM(manifest) /\ IsCloneBacked(manifest) =>
        (CloneInheritedKeys \union IpKeySet) \intersect DOMAIN live
            \subseteq DOMAIN VmCreate(manifest)

(* Whatever has become of the guest, the manifest adopted from it wants    *)
(* nothing but the ownership tag, and reports nothing but the cloud-init   *)
(* volumes on a data bus.                                                  *)
AdoptionIsQuiet ==
    up # "missing" =>
        LET m == IF IsVM(manifest) THEN AdoptVm(live, up) ELSE AdoptLxc(live, up)
            u == Drift(m, live)
        IN  /\ DOMAIN u.set \subseteq {"tags"}
            /\ u.del = {} /\ Verb(m, up) = ""
            /\ \A s \in Anomalies(m, live) : IsCdromMedia(Device(live, s))

(* When hands, pushes and faults come to an end the agent comes to rest.   *)
EventuallyQuiet == <>[](pc = "idle" /\ Quiet)

=============================================================================
