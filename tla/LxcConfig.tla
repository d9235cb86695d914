----------------------------- MODULE LxcConfig -----------------------------
(***************************************************************************)
(* The container half of the manifest schema: creation, drift and          *)
(* anomalies of an LXC configuration.  A manifest holds what it declares:  *)
(* "fields" the plain keys, "options" the tri-state ones, "root" and       *)
(* "mounts" allocated volumes, "binds" host directories, "nets" the NICs.  *)
(***************************************************************************)
EXTENDS DeviceForms

CONSTANT MpSlots                     \* mp<N>

ColdCtKeys == {"cores", "memory", "swap", "arch", "startup"}
HotCtKeys == {"hostname", "nameserver", "searchdomain", "description"}

(* Written with the configuration; nesting travels inside "features".      *)
SwitchKeys == {"protection", "onboot", "console", "nesting"}
(* Never writable in place.                                                *)
FixedKeys == {"unprivileged", "keyctl", "fuse"}

MountOptions == {"ro", "backup", "acl", "quota", "shared", "mountoptions"}
NetOptions == {"name", "type", "mac", "tag", "rate", "firewall", "ip", "gw"}

ValidLXC(m) ==
    /\ {"cores", "memory"} \subseteq DOMAIN m.fields
    /\ DOMAIN m.fields \subseteq ColdCtKeys \union HotCtKeys
    /\ DOMAIN m.options \subseteq SwitchKeys \union FixedKeys
    /\ \A k \in DOMAIN m.options : m.options[k] \in {"0", "1"}
    /\ Declares(m.root, {"pool", "size"}, {})
    /\ DOMAIN m.nets \subseteq NicSlots
    /\ DOMAIN m.mounts \union DOMAIN m.binds \subseteq MpSlots
    /\ DOMAIN m.mounts \intersect DOMAIN m.binds = {}
    /\ \A s \in DOMAIN m.mounts :
          Declares(m.mounts[s], {"pool", "size"}, {"mp"} \union MountOptions)
    /\ \A s \in DOMAIN m.binds : Declares(m.binds[s], {"host", "mp"}, {"ro"})
    /\ \A s \in DOMAIN m.nets :
          /\ Declares(m.nets[s], {"bridge"}, NetOptions)
          /\ Option(m.nets[s], "firewall", "1") = "1"

(* keyctl and fuse cannot be asked for when a container is made, and PVE   *)
(* takes no mount point without a path.                                    *)
CreatableLXC(m) ==
    /\ \A k \in {"keyctl", "fuse"} : Word(m.options, k) # "1"
    /\ \A s \in DOMAIN m.mounts : "mp" \in DOMAIN m.mounts[s]

(* The host name defaults to the name of the manifest.                     *)
CtFields(m) == m.fields @@ ("hostname" :> m.name)

LxcCreate(m) ==
    CtFields(m) @@ ("tags" :> AllTags(m)) @@ ("rootfs" :> m.root)
      @@ m.mounts @@ m.binds @@ m.nets
      @@ Without(m.options, {"keyctl", "fuse"})

-----------------------------------------------------------------------------
(* Volumes and binds.                                                      *)
IsBind(d) == "host" \in DOMAIN d /\ "vol" \notin DOMAIN d

(* Mutant of RootUpdate: the data-loss guard is missing.                   *)
RootRewritten(cur, want) ==
    IF IsNewStorageSlot(cur) \/ Moved(cur, want) THEN want ELSE cur
RootUpdate(cur, want) == IF IsNewStorageSlot(cur) THEN want ELSE cur

(* A path or mount options that PVE does not report never differ; a switch *)
(* that it does not report is off.                                         *)
MountDrift(cur, want) ==
    \/ \E t \in {"mp", "mountoptions"} \intersect DOMAIN cur \intersect DOMAIN want :
          cur[t] # want[t]
    \/ \E t \in (MountOptions \ {"mountoptions"}) \intersect DOMAIN want :
          Option(cur, t, "0") # want[t]

(* Mutant of MountRewrite: the volume is not named.                        *)
MountForgetsVolume(cur, want) == want

(* The declared options only, on the volume that is there.                 *)
MountRewrite(cur, want) ==
    Only(want, {"mp"} \union MountOptions) @@ Without(cur, MountOptions)

MountUpdate(cur, want) ==
    IF IsNewStorageSlot(cur) THEN want
    ELSE IF ~IsBind(cur) /\ ~Moved(cur, want) /\ MountDrift(cur, want)
         THEN MountRewrite(cur, want)
    ELSE cur

BindDrift(cur, want) ==
    \/ "mp" \in DOMAIN cur /\ cur.mp # want.mp
    \/ "ro" \in DOMAIN want /\ Option(cur, "ro", "0") # want.ro

(* A bind is never pointed at another directory of the host.               *)
BindUpdate(cur, want) ==
    IF IsNewStorageSlot(cur) THEN want
    ELSE IF IsBind(cur) /\ cur.host = want.host /\ BindDrift(cur, want) THEN want
    ELSE cur

(* Only what the manifest declares; the type is written, never compared.   *)
NetMatches(cur, want) ==
    \A t \in DOMAIN want \ {"type"} : Option(cur, t, "") = want[t]

-----------------------------------------------------------------------------
(* Mutant of SwitchUpdates: an absent switch counts as different from off. *)
SwitchesRepeated(m, cfg) == ChangedWords(cfg, Only(m.options, SwitchKeys))

(* A switch that PVE does not report is off.                               *)
SwitchUpdates(m, cfg) ==
    LET want == Only(m.options, SwitchKeys)
    IN  Only(want, {k \in DOMAIN want : (Word(cfg, k) = "1") # (want[k] = "1")})

VolumeUpdates(m, cfg) ==
    LET cur(s) == Device(cfg, s)
    IN  ("rootfs" :> RootUpdate(cur("rootfs"), m.root))
          @@ [s \in DOMAIN m.mounts |-> MountUpdate(cur(s), m.mounts[s])]
          @@ [s \in DOMAIN m.binds |-> BindUpdate(cur(s), m.binds[s])]
          @@ [s \in DOMAIN m.nets |->
                 IF NetMatches(cur(s), m.nets[s]) THEN cur(s) ELSE m.nets[s]]

LxcDrift(m, cfg) ==
    LET fields == ChangedWords(cfg, CtFields(m))
        cold == SwitchUpdates(m, cfg) @@ ChangedDevices(cfg, VolumeUpdates(m, cfg))
    IN  [set |-> fields @@ ChangedSets(cfg, "tags" :> AllTags(m)) @@ cold,
         del |-> {},
         stop |-> cold # Nothing \/ DOMAIN fields \intersect ColdCtKeys # {}]

(* The options that only a recreate, or a hand on the host, can bring in.  *)
FixedAnomalies(m, cfg) ==
    {k \in {"keyctl", "fuse"} \intersect DOMAIN m.options :
        m.options[k] = "1" /\ Word(cfg, k) # "1"}
      \union {k \in {"unprivileged"} \intersect DOMAIN m.options :
                  m.options[k] # Option(cfg, k, "1")}

MountAnomalies(m, cfg) ==
    LET cur(s) == Device(cfg, s)
    IN  {s \in MpSlots \ (DOMAIN m.mounts \union DOMAIN m.binds) : cur(s) # Nothing}
          \union {s \in DOMAIN m.mounts :
                     cur(s) # Nothing /\ (IsBind(cur(s)) \/ Moved(cur(s), m.mounts[s]))}
          \union {s \in DOMAIN m.binds :
                     cur(s) # Nothing /\ Option(cur(s), "host", "") # m.binds[s].host}
          \union IF /\ cur("rootfs") # Nothing
                    /\ Moved(cur("rootfs"), m.root) THEN {"rootfs"} ELSE {}

LxcAnomalies(m, cfg) == FixedAnomalies(m, cfg) \union MountAnomalies(m, cfg)

=============================================================================
