------------------------------- MODULE Planner -------------------------------
(***************************************************************************)
(* PlanActions: from the desired resources of one revision and the         *)
(* inventory snapshot to the actions of one cycle.  The planner is pure,   *)
(* so this module has no variables.  A plan is a set of actions with the   *)
(* order relation Precedes instead of a sorted list.                       *)
(***************************************************************************)
EXTENDS Schema

CONSTANT Budget      \* prune budget per cycle

ASSUME BudgetAssumption == Budget \in Nat \ {0}

Slot == Nodes \X Ids
File == Nodes \X {x \in Ref : x.kind \in ArtifactKinds}

(* A guest as PVE stores it.                                               *)
Guest == [type : {"VM", "LXC"}, name : Names, hot : Values, cold : Values,
          tagged : BOOLEAN, template : BOOLEAN,
          power : {"running", "stopped"}]
NoGuest == [type |-> "none"]

(* What LoadLive collects: the listing, the configs and power states read  *)
(* per guest ("" is power unknown), and the artifact files probed.         *)
Inventory == [listed : [Slot -> {"none", "VM", "LXC"}],
              cfg    : [Slot -> Guest \union {NoGuest}],
              power  : [Slot -> {"", "running", "stopped", "read-error"}],
              seen   : SUBSET File,
              have   : SUBSET File]

NoInventory == [listed |-> [s \in Slot |-> "none"],
                cfg    |-> [s \in Slot |-> NoGuest],
                power  |-> [s \in Slot |-> ""],
                seen   |-> {},
                have   |-> {}]

Fields == {"hot", "cold", "tags"}
Verbs == {"create", "update", "start", "stop", "delete", "mark-template"}

NoResource == [ref |-> NoRef]

(* The levels that occur; prunes have level 0.                             *)
Level == {0} \union UNION {{LevelsAt[v][r.ref] : r \in Manifests[v]} : v \in Parses}

Action == [what : Verbs, kind : GuestKinds \union ArtifactKinds,
           res : Resource \union {NoResource},
           node : Nodes, id : Ids \union {0},
           level : Level, deps : SUBSET Ref,
           set : SUBSET Fields, stopFirst : BOOLEAN,
           live : {"", "running", "stopped", "read-error"},
           src : Ids \union {0}]

-----------------------------------------------------------------------------
(* An action on resource r of revision v at node n, with nothing to write. *)
Plain(v, r, n, what) ==
    [what |-> what, kind |-> r.ref.kind, res |-> r, node |-> n, id |-> r.id,
     level |-> LevelsAt[v][r.ref], deps |-> {}, set |-> {},
     stopFirst |-> FALSE, live |-> "", src |-> 0]

(* A config of the right type was read at r's slot.                        *)
Occupied(inv, r) ==
    /\ inv.cfg[SlotOf(r)] # NoGuest
    /\ inv.cfg[SlotOf(r)].type = PveType(r.ref.kind)

(* LoadLive files a template guest under both kinds, any other under VM or *)
(* LXC only.                                                               *)
Found(inv, r) ==
    /\ Occupied(inv, r)
    /\ r.ref.kind \in TemplateKinds => inv.cfg[SlotOf(r)].template

(* A VM or LXC manifest over a live template: reported, never written.     *)
KindAnomaly(inv, r) ==
    /\ r.ref.kind \notin TemplateKinds
    /\ Found(inv, r) /\ inv.cfg[SlotOf(r)].template

(* Power is filed under the VM / LXC key only.                             *)
LivePower(inv, r) ==
    IF r.ref.kind \in TemplateKinds THEN "" ELSE inv.power[SlotOf(r)]

(* Mutant of Drift: the ownership tag is not compared.                     *)
DriftWithoutTags(r, o) ==
    (IF o.hot # r.hot THEN {"hot"} ELSE {})
      \union (IF o.cold # r.cold THEN {"cold"} ELSE {})

(* The owned fields in which the live config o differs from the manifest.  *)
Drift(r, o) ==
    (IF o.hot # r.hot THEN {"hot"} ELSE {})
      \union (IF o.cold # r.cold THEN {"cold"} ELSE {})
      \union (IF o.tagged THEN {} ELSE {"tags"})

PowerVerb(want, live) ==
    IF want = "started" /\ live \notin {"", "running"} THEN {"start"}
    ELSE IF want = "stopped" /\ live = "running" THEN {"stop"} ELSE {}

-----------------------------------------------------------------------------
(* Pass A: desired resources.                                              *)

(* Mutant of Marks: a half-made template is left as it is.                 *)
NoMarks(inv, v) == {}

Marks(inv, v) ==
    {[Plain(v, r, NodeOf(r), "mark-template") EXCEPT
        !.deps = EdgesFor(r), !.live = inv.power[SlotOf(r)]] :
        r \in {q \in Guests(Manifests[v]) :
                 Occupied(inv, q) /\ ~Found(inv, q)}}

CloneSource(v, r) ==
    IF r.clone = NoRef THEN 0 ELSE ByRef(Manifests[v], r.clone).id

Creates(inv, v) ==
    {[Plain(v, r, NodeOf(r), "create") EXCEPT
        !.deps = EdgesFor(r), !.set = Fields, !.src = CloneSource(v, r)] :
        r \in {q \in Guests(Manifests[v]) : ~Occupied(inv, q)}}

Tracked(inv, v) ==
    {r \in Guests(Manifests[v]) : Found(inv, r) /\ ~KindAnomaly(inv, r)}

Updates(inv, v) ==
    {LET drift == Drift(r, inv.cfg[SlotOf(r)])
     IN  [Plain(v, r, NodeOf(r), "update") EXCEPT
            !.set = drift, !.stopFirst = "cold" \in drift,
            !.live = LivePower(inv, r)] :
        r \in {q \in Tracked(inv, v) : Drift(q, inv.cfg[SlotOf(q)]) # {}}}

PowerChanges(inv, v) ==
    UNION {{[Plain(v, r, NodeOf(r), verb) EXCEPT !.live = LivePower(inv, r)] :
              verb \in PowerVerb(r.state, LivePower(inv, r))} :
              r \in Tracked(inv, v)}

(* An artifact is downloaded to each declared node whose storage was read  *)
(* and does not hold it; an unread storage is skipped.                     *)
Downloads(inv, v) ==
    {Plain(v, f[2], f[1], "create") :
        f \in {g \in Nodes \X Artifacts(Manifests[v]) :
                 /\ g[1] \in g[2].nodes
                 /\ <<g[1], g[2].ref>> \in inv.seen \ inv.have}}

-----------------------------------------------------------------------------
(* Pass B: prunes.                                                         *)

(* Mutant of Claimed: a template guest does not protect its VM slot.       *)
ClaimedByKind(v, s, o) ==
    \E r \in Guests(Manifests[v]) :
        \/ SlotOf(r) = s /\ r.ref.kind = o.type
        \/ o.type = "VM" /\ r.ref = [kind |-> "VM", name |-> o.name]

(* Still in git: by slot, or by the name of a desired VM anywhere.  A live *)
(* LXC config carries no "name", so only VMs are recognised by name.       *)
Claimed(v, s, o) ==
    \E r \in Guests(Manifests[v]) :
        \/ SlotOf(r) = s /\ PveType(r.ref.kind) = o.type
        \/ o.type = "VM" /\ r.ref = [kind |-> "VM", name |-> o.name]

(* Mutant of Orphans: the ownership gate is missing.                       *)
OrphansOfAnyone(inv, v) ==
    {s \in Slot :
        /\ inv.listed[s] # "none" /\ NodeAllowed(s[1])
        /\ inv.cfg[s] # NoGuest
        /\ ~Claimed(v, s, inv.cfg[s])}

Orphans(inv, v) ==
    {s \in Slot :
        /\ inv.listed[s] # "none" /\ NodeAllowed(s[1])
        /\ inv.cfg[s] # NoGuest
        /\ ~Claimed(v, s, inv.cfg[s])
        /\ inv.cfg[s].tagged}

OrphansOf(inv, v, k) == {s \in Orphans(inv, v) : inv.cfg[s].type = k}

(* Mutants of Suppressed: no guard; a guard that stops at the budget       *)
(* instead of above it.                                                    *)
NeverSuppressed(inv, v) == {}
SuppressedAtBudget(inv, v) ==
    {k \in {"VM", "LXC"} :
        /\ \A r \in Manifests[v] : r.ref.kind # k
        /\ Cardinality(OrphansOf(inv, v, k)) >= Budget}

(* The empty-desired guard: a kind without manifests and with more tagged  *)
(* orphans than the budget is a probable bad push.                         *)
Suppressed(inv, v) ==
    {k \in {"VM", "LXC"} :
        /\ \A r \in Manifests[v] : r.ref.kind # k
        /\ Cardinality(OrphansOf(inv, v, k)) > Budget}

Prunable(inv, v) ==
    {s \in Orphans(inv, v) : inv.cfg[s].type \notin Suppressed(inv, v)}

SlotBefore(s, t) == s[1] < t[1] \/ (s[1] = t[1] /\ s[2] < t[2])

(* Mutant of IsKept: the budget is not applied.                            *)
KeepAll(kept, cands) == kept = cands

(* The first Budget candidates by node and id; the rest is deferred.       *)
IsKept(kept, cands) ==
    IF Cardinality(cands) <= Budget
    THEN kept = cands
    ELSE /\ Cardinality(kept) = Budget
         /\ \A s \in kept : \A t \in cands \ kept : SlotBefore(s, t)

Prune(inv, s) ==
    [what |-> "delete", kind |-> inv.cfg[s].type, res |-> NoResource,
     node |-> s[1], id |-> s[2], level |-> 0, deps |-> {}, set |-> {},
     stopFirst |-> FALSE, live |-> inv.power[s], src |-> 0]

-----------------------------------------------------------------------------
(* The whole plan, given the prunes kept within the budget.                *)
PlanOf(inv, v, kept) ==
    Marks(inv, v) \union Creates(inv, v) \union Updates(inv, v)
      \union PowerChanges(inv, v) \union Downloads(inv, v)
      \union {Prune(inv, s) : s \in kept}

Tier(a) == IF a.what = "delete" THEN 9 ELSE 0

(* mark-template has no entry in the rank table and ranks as 0.            *)
WhatRank(a) ==
    CASE a.what = "update" -> 1 [] a.what = "start" -> 3
      [] a.what = "stop" -> 4 [] a.what = "delete" -> 9 [] OTHER -> 0

(* The plan order.  Creates and marks of one level stay in no fixed order: *)
(* they rank alike without comparing as equal, so the comparator the code  *)
(* sorts with is no weak order on them.                                    *)
Precedes(a, b) ==
    \/ Tier(a) < Tier(b)
    \/ /\ Tier(a) = Tier(b)
       /\ \/ Tier(a) = 0 /\ a.level < b.level
          \/ /\ Tier(a) = 0 => a.level = b.level
             /\ \/ WhatRank(a) < WhatRank(b)
                \/ /\ a.what = b.what
                   /\ a.what \notin {"create", "mark-template"}
                   /\ SlotBefore(<<a.node, a.id>>, <<b.node, b.id>>)

=============================================================================
