---------------------------- MODULE MCReconcile ----------------------------
(***************************************************************************)
(* Small clusters for TLC.  A configuration picks the revisions, the       *)
(* deployments, the disturbances and the faults of its question.           *)
(***************************************************************************)
EXTENDS Claims, TLC

Named(kind, name) == [kind |-> kind, name |-> name]

Guest1(kind, name, id, state) ==
    [ref |-> Named(kind, name), nodes |-> {1}, id |-> id, hot |-> "a",
     cold |-> "a", state |-> state, uses |-> {}, after |-> {}, clone |-> NoRef]

File1(kind, name) == [Guest1(kind, name, 0, "") EXCEPT !.nodes = {1}]

(* A disk image, the template built from it and a clone of the template.   *)
Image == File1("DiskImage", "image")
Base  == [Guest1("TemplateVM", "base", 1, "stopped") EXCEPT !.uses = {Image.ref}]
Web   == [Guest1("VM", "web", 2, "started") EXCEPT !.clone = Base.ref]

(* A container from a container template, and one that waits for it.       *)
Rootfs == File1("CTTemplate", "rootfs")
Dns    == [Guest1("LXC", "dns", 1, "started") EXCEPT !.uses = {Rootfs.ref}]
Golden == [Guest1("TemplateCT", "base", 2, "stopped") EXCEPT !.after = {Dns.ref}]

Db == Guest1("VM", "db", 1, "started")
Spare == Guest1("VM", "db", 2, "started")

Manifest(v) ==
    CASE v = "clone"    -> {Image, Base, Web}
      [] v = "reclone"  -> {Image, Base, [Web EXCEPT !.cold = "b"]}
      [] v = "parked"   -> {Image, Base, [Web EXCEPT !.state = "stopped", !.cold = "b"]}
      [] v = "template" -> {Image, Base}
      [] v = "orphaned" -> {Base, Web}              \* no image: does not parse
      [] v = "ct"       -> {Rootfs, Dns, Golden}
      [] v = "dns"      -> {Rootfs, [Dns EXCEPT !.hot = "b", !.cold = "b"]}
      [] v = "db"       -> {Db}
      [] v = "spare"    -> {Spare}
      [] v = "dbtemplate" -> {Guest1("TemplateVM", "db", 1, "stopped")}
      [] v = "away"     -> {[Db EXCEPT !.nodes = {2}]}
      [] v = "dnsvm"    -> {Guest1("VM", "dns", 1, "started"),
                            [Golden EXCEPT !.after = {}]}
      [] v = "spread"   -> {[Image EXCEPT !.nodes = {1, 2}]}
      [] v = "none"     -> {}

MCManifests == [v \in Revisions |-> Manifest(v)]

-----------------------------------------------------------------------------
(* A guest as the agent leaves it for manifest r, and variations of it.    *)
Live(r) ==
    [type |-> PveType(r.ref.kind), name |-> r.ref.name, hot |-> r.hot,
     cold |-> r.cold, tagged |-> TRUE,
     template |-> r.ref.kind \in TemplateKinds,
     power |-> IF r.state = "started" THEN "running" ELSE "stopped"]

Foreign(g) == [g EXCEPT !.tagged = FALSE]

(* Guests at the slots of f, NoGuest elsewhere.                            *)
Fleet(f) == [s \in Slot |-> IF s \in DOMAIN f THEN f[s] ELSE NoGuest]

EmptyPve == <<Fleet([s \in {} |-> NoGuest]), {}>>

Deployed(v) ==
    <<Fleet([s \in {SlotOf(r) : r \in Guests(Manifest(v))} |->
               Live(CHOOSE r \in Guests(Manifest(v)) : SlotOf(r) = s)]),
      {<<1, r.ref>> : r \in Artifacts(Manifest(v))}>>

OnlyDb == {<<Fleet(<<1, 1>> :> Live(Db)), {}>>}
OnlyEmpty == {EmptyPve}
EmptyOrCloned == {EmptyPve, Deployed("clone")}

(* A template, two VMs and two containers, the last one a stranger's.      *)
Crowd ==
    <<Fleet(<<1, 1>> :> Live(Base) @@ <<1, 2>> :> Live(Spare) @@ <<1, 3>> :> Live(Web)
              @@ <<1, 4>> :> Live(Dns) @@ <<1, 5>> :> Foreign(Live(Dns))), {}>>

(* A cluster next to another one, which also tags its guests.              *)
Neighbours ==
    <<Fleet(<<1, 1>> :> Live(Web) @@ <<1, 2>> :> Foreign(Live(Web))
              @@ <<2, 1>> :> Live(Db) @@ <<2, 2>> :> Foreign(Live(Db))), {}>>

OnlyCrowd == {Crowd}
OnlyNeighbours == {Neighbours}
EmptyOrContainers == {EmptyPve, Deployed("ct")}

=============================================================================
