-------------------------- MODULE ReconcileProofs --------------------------
(***************************************************************************)
(* Safety of the reconciler for any cluster, any manifests, any prune      *)
(* budget and any faults.  The argument has three layers.  The planner is  *)
(* pure: from a parsed, allowlisted tree and a well-typed snapshot every   *)
(* action it plans is Sound, and it plans at most Budget deletes, none of  *)
(* a declared guest (PlanSound).  The executor only moves the actions of   *)
(* one plan between todo, cur and results, so what holds of the plan holds *)
(* until the cycle ends (PlanInv).  PVE's tasks hold the guests they work  *)
(* on, so the guest a task needs is there when it ends (TaskInv).          *)
(***************************************************************************)
EXTENDS Reconcile, FiniteSetTheorems, SequenceTheorems, TLAPS

(* What ValidIndex (parse.BuildClusterIndex) gives for every resource of a *)
(* revision that parses.                                                   *)
LEMMA DesiredResource ==
    ASSUME NEW v \in Parses, NEW r \in Manifests[v]
    PROVE  /\ r \in Resource
           /\ NodeOf(r) \in r.nodes /\ NodeOf(r) \in Nodes
           /\ LevelsAt[v][r.ref] \in Level
           /\ EdgesFor(r) \subseteq Ref
           /\ ~IsArtifact(r) => SlotOf(r) \in Slot /\ r.id \in Ids
<1>1. r \in Resource /\ ValidIndex(Manifests[v]) /\ v \in Revisions
  BY SchemaAssumption DEF Parses
<1>2. Validate(r)
  BY <1>1 DEF ValidIndex
<1>3. NodeOf(r) \in r.nodes /\ NodeOf(r) \in Nodes
  BY <1>1, <1>2 DEF Validate, NodeOf, Resource
<1>4. LevelsAt[v][r.ref] \in Level
  BY DEF Level
<1>5. EdgesFor(r) \subseteq Ref
  BY <1>1 DEF EdgesFor, Resource
<1>6. ~IsArtifact(r) => SlotOf(r) \in Slot /\ r.id \in Ids
  BY <1>1, <1>2, <1>3 DEF Validate, SlotOf, Slot, Resource
<1> QED BY <1>1, <1>3, <1>4, <1>5, <1>6

(* An unadorned action on a declared node is well typed.                   *)
LEMMA PlainAction ==
    ASSUME NEW v \in Parses, NEW r \in Manifests[v], NEW n \in r.nodes,
           NEW what \in Verbs
    PROVE  Plain(v, r, n, what) \in Action
<1>1. r \in Resource /\ LevelsAt[v][r.ref] \in Level
  BY DesiredResource
<1>2. /\ n \in Nodes /\ r.id \in Ids \union {0}
      /\ r.ref.kind \in GuestKinds \union ArtifactKinds
  BY <1>1 DEF Resource, Ref
<1> QED BY <1>1, <1>2 DEF Plain, Action, Resource, Fields

-----------------------------------------------------------------------------
(* What every planned action is, beyond its type.                          *)

Sound(a) ==
    /\ a \in Action /\ NodeAllowed(a.node)
    /\ IF a.what = "delete"
       THEN a.res = NoResource /\ a.kind \in {"VM", "LXC"} /\ a.id \in Ids
       ELSE /\ a.res \in Resource /\ a.kind = a.res.ref.kind
            /\ IF a.kind \in ArtifactKinds THEN a.what = "create" ELSE a.id \in Ids
            /\ a.what = "start" => a.res.state = "started"
            /\ a.what = "mark-template" => a.kind \in TemplateKinds

(* The actions for a desired resource: sound, and no deletes.              *)
LEMMA PlainSound ==
    ASSUME NEW v \in Parses, NEW r \in Manifests[v], NEW n \in r.nodes,
           NEW what \in Verbs \ {"delete"},
           OnAllowedNodes(Manifests[v]),
           IF IsArtifact(r) THEN what = "create" ELSE n = NodeOf(r),
           what = "start" => r.state = "started",
           what = "mark-template" => r.ref.kind \in TemplateKinds
    PROVE  Sound(Plain(v, r, n, what)) /\ Plain(v, r, n, what).what = what
<1>1. Plain(v, r, n, what) \in Action
  BY PlainAction
<1>2. NodeAllowed(n)
  BY DEF OnAllowedNodes
<1>3. r \in Resource /\ (~IsArtifact(r) => r.id \in Ids)
  BY DesiredResource
<1> QED BY <1>1, <1>2, <1>3 DEF Sound, Plain, IsArtifact

(* Changing the writes of an action keeps it sound.                        *)
LEMMA AdornedSound ==
    ASSUME NEW a, Sound(a), a.what # "delete",
           NEW deps \in SUBSET Ref, NEW set \in SUBSET Fields,
           NEW live \in {"", "running", "stopped", "read-error"},
           NEW src \in Ids \union {0}
    PROVE  /\ Sound([a EXCEPT !.deps = deps, !.live = live])
           /\ Sound([a EXCEPT !.deps = deps, !.set = set, !.src = src])
           /\ Sound([a EXCEPT !.live = live])
<1> USE DEF Sound, Action
<1>1. Sound([a EXCEPT !.deps = deps, !.live = live])
  OBVIOUS
<1>2. Sound([a EXCEPT !.deps = deps, !.set = set, !.src = src])
  OBVIOUS
<1>3. Sound([a EXCEPT !.live = live])
  OBVIOUS
<1> QED BY <1>1, <1>2, <1>3

(* The same of an update.                                                  *)
LEMMA UpdateSound ==
    ASSUME NEW a, Sound(a), a.what # "delete",
           NEW set \in SUBSET Fields, NEW stopFirst \in BOOLEAN,
           NEW live \in {"", "running", "stopped", "read-error"}
    PROVE  Sound([a EXCEPT !.set = set, !.stopFirst = stopFirst, !.live = live])
BY DEF Sound, Action

IsSoundWrite(a) == Sound(a) /\ a.what # "delete"

(* What the snapshot holds about one slot.                                 *)
LEMMA InventoryAt ==
    ASSUME NEW i \in Inventory, NEW s \in Slot
    PROVE  /\ i.power[s] \in {"", "running", "stopped", "read-error"}
           /\ i.cfg[s] \in Guest \union {NoGuest}
BY DEF Inventory

(* The clone source resolves to an id, because the index resolved the ref. *)
LEMMA CloneSourceType ==
    ASSUME NEW v \in Parses, NEW r \in Manifests[v]
    PROVE  CloneSource(v, r) \in Ids \union {0}
<1>1. CASE r.clone = NoRef
  BY <1>1 DEF CloneSource
<1>2. CASE r.clone # NoRef
  <2>1. r \in Resource /\ ValidIndex(Manifests[v])
    BY DesiredResource DEF Parses
  <2>2. r.clone \in EdgesFor(r)
    BY <1>2 DEF EdgesFor
  <2>3. r.clone \in Refs(Manifests[v])
    BY <2>1, <2>2 DEF ValidIndex, ReferencesResolve
  <2>4. ByRef(Manifests[v], r.clone) \in Manifests[v]
    BY <2>3 DEF Refs, ByRef
  <2>5. ByRef(Manifests[v], r.clone) \in Resource
    BY <2>4, DesiredResource
  <2> QED BY <1>2, <2>5 DEF CloneSource, Resource
<1> QED BY <1>1, <1>2

(* The desired-side pass of PlanActions plans sound actions, no deletes.   *)
LEMMA WritesSound ==
    ASSUME NEW v \in Parses, OnAllowedNodes(Manifests[v]), NEW i \in Inventory
    PROVE  \A a \in Marks(i, v) \union Creates(i, v) \union Updates(i, v)
                      \union PowerChanges(i, v) \union Downloads(i, v) :
               IsSoundWrite(a)
<1>1. ASSUME NEW r \in Guests(Manifests[v])
      PROVE  /\ r \in Manifests[v] /\ ~IsArtifact(r) /\ SlotOf(r) \in Slot
             /\ EdgesFor(r) \subseteq Ref
             /\ i.power[SlotOf(r)] \in {"", "running", "stopped", "read-error"}
             /\ LivePower(i, r) \in {"", "running", "stopped", "read-error"}
             /\ \A what \in Verbs \ {"delete"} :
                   /\ what = "start" => r.state = "started"
                   /\ what = "mark-template" => r.ref.kind \in TemplateKinds
                   => /\ Sound(Plain(v, r, NodeOf(r), what))
                      /\ Plain(v, r, NodeOf(r), what).what = what
  <2>1. r \in Manifests[v] /\ ~IsArtifact(r)
    BY DEF Guests
  <2>2. SlotOf(r) \in Slot /\ EdgesFor(r) \subseteq Ref /\ NodeOf(r) \in r.nodes
    BY <2>1, DesiredResource
  <2>3. i.power[SlotOf(r)] \in {"", "running", "stopped", "read-error"}
    BY <2>2, InventoryAt
  <2>4. \A what \in Verbs \ {"delete"} :
                   /\ what = "start" => r.state = "started"
                   /\ what = "mark-template" => r.ref.kind \in TemplateKinds
                   => /\ Sound(Plain(v, r, NodeOf(r), what))
                      /\ Plain(v, r, NodeOf(r), what).what = what
    BY <2>1, <2>2, PlainSound
  <2> QED BY <2>1, <2>2, <2>3, <2>4 DEF LivePower
<1>2. ASSUME NEW a \in Marks(i, v) PROVE IsSoundWrite(a)
  <2>1. PICK r \in Guests(Manifests[v]) :
          /\ a = [Plain(v, r, NodeOf(r), "mark-template") EXCEPT
                    !.deps = EdgesFor(r), !.live = i.power[SlotOf(r)]]
          /\ Occupied(i, r) /\ ~Found(i, r)
    BY <1>2 DEF Marks
  <2> DEFINE q == Plain(v, r, NodeOf(r), "mark-template")
  <2>2. Sound(q) /\ q.what = "mark-template"
    BY <1>1, <2>1 DEF Verbs, Found
  <2> HIDE DEF q
  <2>3. Sound([q EXCEPT !.deps = EdgesFor(r), !.live = i.power[SlotOf(r)]])
    BY <2>2, <1>1, AdornedSound, {} \in SUBSET Fields, FALSE \in BOOLEAN
  <2> QED BY <2>1, <2>2, <2>3 DEF IsSoundWrite, q
<1>3. ASSUME NEW a \in Creates(i, v) PROVE IsSoundWrite(a)
  <2>1. PICK r \in Guests(Manifests[v]) :
          a = [Plain(v, r, NodeOf(r), "create") EXCEPT
                 !.deps = EdgesFor(r), !.set = Fields, !.src = CloneSource(v, r)]
    BY <1>3 DEF Creates
  <2> DEFINE q == Plain(v, r, NodeOf(r), "create")
  <2>2. Sound(q) /\ q.what = "create"
    BY <1>1 DEF Verbs
  <2>3. CloneSource(v, r) \in Ids \union {0}
    BY <1>1, CloneSourceType
  <2> HIDE DEF q
  <2>4. Sound([q EXCEPT !.deps = EdgesFor(r), !.set = Fields, !.src = CloneSource(v, r)])
    BY <2>2, <2>3, <1>1, AdornedSound, Fields \in SUBSET Fields, FALSE \in BOOLEAN
  <2> QED BY <2>1, <2>2, <2>4 DEF IsSoundWrite, q
<1>4. ASSUME NEW a \in Updates(i, v) PROVE IsSoundWrite(a)
  <2>1. PICK r \in Guests(Manifests[v]) :
          a = LET drift == Drift(r, i.cfg[SlotOf(r)])
              IN  [Plain(v, r, NodeOf(r), "update") EXCEPT
                     !.set = drift, !.stopFirst = "cold" \in drift,
                     !.live = LivePower(i, r)]
    BY <1>4 DEF Updates, Tracked
  <2> DEFINE q == Plain(v, r, NodeOf(r), "update")
             d == Drift(r, i.cfg[SlotOf(r)])
             b == "cold" \in d
  <2>2. Sound(q) /\ q.what = "update"
    BY <1>1 DEF Verbs
  <2>3. d \in SUBSET Fields /\ b \in BOOLEAN
    BY DEF Drift, Fields
  <2> HIDE DEF q, d, b
  <2>4. Sound([q EXCEPT !.set = d, !.stopFirst = b, !.live = LivePower(i, r)])
    <3>1. LivePower(i, r) \in {"", "running", "stopped", "read-error"} /\ q.what # "delete"
      BY <1>1, <2>2
    <3> QED BY <2>2, <2>3, <3>1, UpdateSound
  <2> QED BY <2>1, <2>2, <2>4 DEF IsSoundWrite, q, d, b
<1>5. ASSUME NEW a \in PowerChanges(i, v) PROVE IsSoundWrite(a)
  <2>1. PICK r \in Guests(Manifests[v]), verb \in {"start", "stop"} :
          /\ a = [Plain(v, r, NodeOf(r), verb) EXCEPT !.live = LivePower(i, r)]
          /\ verb = "start" => r.state = "started"
    <3>1. PICK r \in Tracked(i, v) :
            a \in {[Plain(v, r, NodeOf(r), verb) EXCEPT !.live = LivePower(i, r)] :
                      verb \in PowerVerb(r.state, LivePower(i, r))}
      BY <1>5 DEF PowerChanges
    <3>2. PICK verb \in PowerVerb(r.state, LivePower(i, r)) :
            a = [Plain(v, r, NodeOf(r), verb) EXCEPT !.live = LivePower(i, r)]
      BY <3>1
    <3> QED BY <3>1, <3>2 DEF Tracked, PowerVerb
  <2> DEFINE q == Plain(v, r, NodeOf(r), verb)
  <2>2. Sound(q) /\ q.what \in {"start", "stop"}
    BY <1>1, <2>1 DEF Verbs
  <2> HIDE DEF q
  <2>3. Sound([q EXCEPT !.live = LivePower(i, r)])
    BY <2>2, <1>1, AdornedSound, {} \in SUBSET Ref, {} \in SUBSET Fields,
       FALSE \in BOOLEAN
  <2> QED BY <2>1, <2>2, <2>3 DEF IsSoundWrite, q
<1>6. ASSUME NEW a \in Downloads(i, v) PROVE IsSoundWrite(a)
  <2>1. PICK f \in Nodes \X Artifacts(Manifests[v]) :
          a = Plain(v, f[2], f[1], "create") /\ f[1] \in f[2].nodes
    BY <1>6 DEF Downloads
  <2>2. f[2] \in Manifests[v] /\ IsArtifact(f[2])
    BY <2>1 DEF Artifacts
  <2> QED BY <2>1, <2>2, PlainSound DEF IsSoundWrite, Verbs
<1> QED BY <1>2, <1>3, <1>4, <1>5, <1>6

-----------------------------------------------------------------------------
(* Prunes.                                                                 *)

(* There are finitely many slots, so the prune candidates can be counted.  *)
LEMMA SlotFinite == IsFiniteSet(Slot)
<1>1. IsFiniteSet(Nodes) /\ IsFiniteSet(Ids)
  BY SchemaAssumption
<1> QED BY <1>1, FS_Product DEF Slot

(* Whatever the budget leaves for later, what it keeps stays within it.    *)
LEMMA KeptBudget ==
    ASSUME NEW v, NEW i, NEW kept \in SUBSET Prunable(i, v),
           IsKept(kept, Prunable(i, v))
    PROVE  IsFiniteSet(kept) /\ Cardinality(kept) <= Budget
<1>1. kept \subseteq Slot
  BY DEF Prunable, Orphans
<1>2. IsFiniteSet(kept)
  BY <1>1, SlotFinite, FS_Subset
<1>3. Cardinality(kept) <= Budget
  BY BudgetAssumption DEF IsKept
<1> QED BY <1>2, <1>3

(* A candidate is on an allowed node and no longer in git.                 *)
LEMMA PruneSound ==
    ASSUME NEW v, NEW i \in Inventory, NEW s \in Prunable(i, v)
    PROVE  /\ Sound(Prune(i, s)) /\ Prune(i, s).what = "delete"
           /\ s \in Slot /\ SlotAt(Prune(i, s)) = s
           /\ \A r \in Guests(Manifests[v]) :
                 SlotOf(r) = s => PveType(r.ref.kind) # Prune(i, s).kind
<1>1. /\ s \in Slot /\ NodeAllowed(s[1]) /\ i.cfg[s] # NoGuest
      /\ ~Claimed(v, s, i.cfg[s])
  BY DEF Prunable, Orphans
<1>2. i.cfg[s] \in Guest /\ i.power[s] \in {"", "running", "stopped", "read-error"}
  BY <1>1, InventoryAt
<1>3. i.cfg[s].type \in {"VM", "LXC"}
  BY <1>2 DEF Guest
<1>4. s[1] \in Nodes /\ s[2] \in Ids /\ s = <<s[1], s[2]>>
  BY <1>1 DEF Slot
<1>5. 0 \in Level
  BY DEF Level
<1>6. Prune(i, s) \in Action
  BY <1>2, <1>3, <1>4, <1>5 DEF Prune, Action, Verbs, GuestKinds, Fields
<1>7. Sound(Prune(i, s)) /\ Prune(i, s).what = "delete"
  BY <1>1, <1>3, <1>4, <1>6 DEF Prune, Sound
<1>8. \A r \in Guests(Manifests[v]) :
        SlotOf(r) = s => PveType(r.ref.kind) # Prune(i, s).kind
  BY <1>1 DEF Claimed, Prune
<1> QED BY <1>1, <1>4, <1>7, <1>8 DEF Prune, SlotAt

(* A plan holds one delete per slot kept, and nothing but sound actions.   *)
LEMMA PlanSound ==
    ASSUME NEW v \in Parses, OnAllowedNodes(Manifests[v]), NEW i \in Inventory,
           NEW kept \in SUBSET Prunable(i, v), IsKept(kept, Prunable(i, v))
    PROVE  /\ \A a \in PlanOf(i, v, kept) : Sound(a)
           /\ Cardinality({a \in PlanOf(i, v, kept) : a.what = "delete"}) <= Budget
           /\ \A a \in PlanOf(i, v, kept) : a.what = "delete" =>
                 \A r \in Guests(Manifests[v]) :
                    SlotOf(r) = SlotAt(a) => PveType(r.ref.kind) # a.kind
<1> DEFINE D == {a \in PlanOf(i, v, kept) : a.what = "delete"}
<1>1. ASSUME NEW a \in PlanOf(i, v, kept)
      PROVE  \/ IsSoundWrite(a)
             \/ \E s \in kept : a = Prune(i, s)
  BY WritesSound DEF PlanOf
<1>2. \A a \in PlanOf(i, v, kept) : Sound(a)
  BY <1>1, PruneSound DEF IsSoundWrite
<1>3. \A a \in D : \E s \in kept : a = Prune(i, s)
  BY <1>1 DEF IsSoundWrite
<1>4. \A a \in D : SlotAt(a) \in kept /\ a = Prune(i, SlotAt(a))
  BY <1>3, PruneSound
<1>5. Cardinality(D) <= Budget
  <2> DEFINE f == [a \in D |-> SlotAt(a)]
  <2> HIDE DEF D
  <2>1. f \in [D -> kept]
    BY <1>4
  <2>2. \A a, b \in D : f[a] = f[b] => a = b
    BY <1>4
  <2>3. f \in Injection(D, kept)
    BY <2>1, <2>2 DEF Injection, IsInjective
  <2>4. IsFiniteSet(kept) /\ Cardinality(kept) <= Budget
    BY KeptBudget
  <2>5. IsFiniteSet(D) /\ Cardinality(D) <= Cardinality(kept)
    BY <2>3, <2>4, FS_Injection
  <2>6. Cardinality(D) \in Nat /\ Cardinality(kept) \in Nat
    BY <2>4, <2>5, FS_CardinalityType
  <2> QED BY <2>4, <2>5, <2>6, BudgetAssumption
<1>6. \A a \in PlanOf(i, v, kept) : a.what = "delete" =>
         \A r \in Guests(Manifests[v]) :
            SlotOf(r) = SlotAt(a) => PveType(r.ref.kind) # a.kind
  BY <1>4, PruneSound
<1> QED BY <1>2, <1>5, <1>6

-----------------------------------------------------------------------------
(* The inductive invariant, by the variables it is about.                  *)

(* PlanActions is only reached with a tree that parses and stays within    *)
(* the allowlist.                                                          *)
GitInv ==
    /\ head \in Revisions /\ tree \in Revisions
    /\ phase \in {"idle", "list", "read", "exec"}
    /\ lastGood \in BOOLEAN
    /\ phase \in {"list", "read"} => tree \in Parses /\ OnAllowedNodes(Desired)

(* Only listed guests are read.                                            *)
LoadInv ==
    /\ inv \in Inventory
    /\ reads \subseteq {"config", "status"} \X Slot
    /\ \A q \in reads : inv.listed[q[2]] # "none"
    /\ probes \subseteq File

(* What a call asks of the action it belongs to: only an action with a     *)
(* manifest writes one, only artifacts are downloaded, cloning needs a     *)
(* source, starting a manifest that says so, marking a template, and only  *)
(* an action that deletes deletes.                                         *)
Fits(op, a) ==
    /\ op \in {"create", "clone", "config", "download"} => a.what # "delete"
    /\ op = "download" <=> a.kind \in ArtifactKinds
    /\ op = "clone" => a.src # 0
    /\ op = "start" => a.what # "delete" /\ a.res.state = "started"
    /\ op = "mark" => a.kind \in TemplateKinds
    /\ op = "delete" => a.what = "delete"

Calls(a) == {op \in Writes \union {"read", "settle"} : Fits(op, a)}

ExecInv ==
    /\ todo \subseteq Action
    /\ cur \in Action \union {NoAction}
    /\ ops \in Seq(Writes \union {"read", "settle"})
    /\ upid \in Task \union {NoTask}
    /\ verdict \in {"none", "running", "ok", "failed"}
    /\ failed \subseteq Ref \X Nodes
    /\ results \subseteq [act : Action, outcome : {"ok", "failed", "deferred"}]
    /\ cur # NoAction => Sound(cur) /\ ops \in Seq(Calls(cur))
    /\ upid # NoTask => cur # NoAction

(* Plans do not outlive their cycle; every action of one is sound, and     *)
(* whatever becomes of them they stay the same set until the cycle ends.   *)
PlanInv ==
    /\ phase # "exec" => Planned = {}
    /\ \A a \in Planned : Sound(a)
    /\ PruneBudget
    /\ KeepsDesired

(* The guest a task is about to change, or to copy, is there.              *)
Applies(t) ==
    /\ t.op \in {"config", "start", "stop", "mark"} => pve[SlotAt(t.act)] # NoGuest
    /\ t.op = "clone" => pve[SourceAt(t.act)] # NoGuest

(* Tasks never share a guest, so what a task found when it was accepted is *)
(* still there when it ends.                                               *)
TaskInv ==
    /\ pve \in [Slot -> Guest \union {NoGuest}]
    /\ storage \subseteq File
    /\ running \subseteq Task
    /\ \A t \in running : Sound(t.act) /\ Fits(t.op, t.act) /\ Applies(t)
    /\ \A t, u \in running : t = u \/ Holds(t) \intersect Holds(u) = {}

BoundsInv == edits \in Nat /\ faults \in Nat /\ pushes \in Nat

IInv == GitInv /\ LoadInv /\ ExecInv /\ PlanInv /\ TaskInv /\ BoundsInv

-----------------------------------------------------------------------------
(* Short sequences over a set.                                             *)
LEMMA ShortSeq ==
    ASSUME NEW S, NEW x \in S, NEW y \in S, NEW z \in S
    PROVE  <<x>> \in Seq(S) /\ <<x, y>> \in Seq(S) /\ <<x, y, z>> \in Seq(S)
OBVIOUS

(* The calls of a sound action fit it.                                     *)
LEMMA ProgramFits ==
    ASSUME NEW a, Sound(a)
    PROVE  Program(a) \in Seq(Calls(a))
<1>1. /\ a.what \in Verbs
      /\ a.what = "delete" => a.kind \in {"VM", "LXC"}
      /\ a.kind \in ArtifactKinds => a.what = "create"
  BY DEF Sound, Action, ArtifactKinds
<1>2. \A x, y, z \in Calls(a) :
         <<x>> \in Seq(Calls(a)) /\ <<x, y>> \in Seq(Calls(a)) /\ <<x, y, z>> \in Seq(Calls(a))
  BY ShortSeq
<1>3. CASE a.kind \in ArtifactKinds
  <2>1. "download" \in Calls(a)
    BY <1>1, <1>3 DEF Calls, Fits, Writes
  <2>2. Program(a) = <<"download">>
    BY <1>1, <1>3 DEF Program, CreateCalls
  <2> QED BY <2>1, <2>2, <1>2
<1>4. CASE a.kind \notin ArtifactKinds /\ a.what = "create"
  <2>1. "create" \in Calls(a) /\ "read" \in Calls(a) /\ "config" \in Calls(a)
    BY <1>4 DEF Calls, Fits, Writes
  <2>2. /\ a.src # 0 => "clone" \in Calls(a)
        /\ a.kind \in TemplateKinds => "mark" \in Calls(a)
    BY <1>4 DEF Calls, Fits, Writes
  <2>3. \/ a.kind \in TemplateKinds /\ Program(a) = <<"create", "mark">>
        \/ a.src # 0 /\ Program(a) = <<"clone", "read", "config">>
        \/ Program(a) = <<"create">>
    BY <1>4 DEF Program, CreateCalls
  <2> QED BY <2>1, <2>2, <2>3, <1>2
<1>5. CASE a.kind \notin ArtifactKinds /\ a.what = "update"
  <2>1. "stop" \in Calls(a) /\ "config" \in Calls(a)
    BY <1>5 DEF Calls, Fits, Writes
  <2>2. a.res.state = "started" => "start" \in Calls(a)
    BY <1>5 DEF Calls, Fits, Writes
  <2>3. \/ a.res.state = "started" /\ Program(a) = <<"stop", "config", "start">>
        \/ Program(a) = <<"stop", "config">>
        \/ Program(a) = <<"config">>
    BY <1>5 DEF Program, UpdateCalls
  <2> QED BY <2>1, <2>2, <2>3, <1>2
<1>6. CASE a.kind \notin ArtifactKinds /\ a.what \in {"start", "stop", "mark-template"}
  <2>1. /\ a.what = "start" => a.res.state = "started"
        /\ a.what = "mark-template" => a.kind \in TemplateKinds
    BY <1>6 DEF Sound
  <2>2. /\ a.what = "start" => "start" \in Calls(a)
        /\ a.what = "mark-template" => "mark" \in Calls(a)
        /\ "stop" \in Calls(a)
    BY <1>6, <2>1 DEF Calls, Fits, Writes
  <2>3. Program(a) = IF a.what = "mark-template" THEN <<"mark">> ELSE <<a.what>>
    BY <1>6 DEF Program
  <2> QED BY <1>6, <2>2, <2>3, <1>2
<1>7. CASE a.kind \notin ArtifactKinds /\ a.what = "delete"
  <2>1. "stop" \in Calls(a) /\ "settle" \in Calls(a) /\ "delete" \in Calls(a)
    BY <1>7 DEF Calls, Fits, Writes
  <2>2. PICK p \in {<<"stop">>, <<>>}, d \in {<<"settle", "delete">>, <<"delete">>} :
          Program(a) = p \o d
    BY <1>7 DEF Program, DeleteCalls
  <2>3. p \in Seq(Calls(a))
    BY <2>1, <1>2, EmptySeq
  <2>4. d \in Seq(Calls(a))
    BY <2>1, <1>2
  <2> QED BY <2>2, <2>3, <2>4, ConcatProperties
<1> QED BY <1>1, <1>3, <1>4, <1>5, <1>6, <1>7 DEF Verbs

-----------------------------------------------------------------------------
(* PVE and its tasks.                                                      *)

(* Where a task writes, and what it holds while it does.                   *)
LEMMA TaskSlots ==
    ASSUME NEW t \in Task, Sound(t.act), Fits(t.op, t.act)
    PROVE  IF t.op = "download" THEN FileAt(t.act) \in File
           ELSE /\ SlotAt(t.act) \in Slot /\ SlotAt(t.act) \in Holds(t)
                /\ t.op = "clone" =>
                      SourceAt(t.act) \in Slot /\ SourceAt(t.act) \in Holds(t)
<1>1. t.act \in Action /\ t.act.node \in Nodes
  BY DEF Sound, Action
<1>2. CASE t.op = "download"
  <2>1. t.act.res \in Resource /\ t.act.res.ref.kind \in ArtifactKinds
    BY <1>2 DEF Sound, Fits
  <2>2. t.act.res.ref \in Ref
    BY <2>1 DEF Resource
  <2> QED BY <1>1, <1>2, <2>1, <2>2 DEF FileAt, File
<1>3. CASE t.op # "download"
  <2>1. t.act.id \in Ids
    BY <1>3 DEF Sound, Fits
  <2>2. t.op = "clone" => t.act.src \in Ids
    BY <1>1 DEF Fits, Action
  <2> QED BY <1>1, <1>3, <2>1, <2>2 DEF SlotAt, SourceAt, Slot, Holds
<1> QED BY <1>2, <1>3

(* PVE accepts only what applies.                                          *)
LEMMA PossibleApplies ==
    ASSUME NEW t \in Task, Possible(t)
    PROVE  Applies(t)
<1>1. CASE t.op \in {"start", "stop", "mark"}
  BY <1>1 DEF Possible, IsPower, Exists, Applies
<1>2. CASE t.op = "config"
  BY <1>2 DEF Possible, Exists, Applies
<1>3. CASE t.op = "clone"
  BY <1>3 DEF Possible, Applies
<1>4. CASE t.op \in {"create", "delete", "download"}
  BY <1>4 DEF Applies
<1> QED BY <1>1, <1>2, <1>3, <1>4 DEF Task, Writes

(* Every write leaves a guest, or nothing.                                 *)
LEMMA AfterType ==
    ASSUME pve \in [Slot -> Guest \union {NoGuest}],
           NEW t \in Task, t.op # "download",
           Sound(t.act), Fits(t.op, t.act), Applies(t)
    PROVE  After(t) \in Guest \union {NoGuest}
<1>1. /\ SlotAt(t.act) \in Slot
      /\ t.op = "clone" => SourceAt(t.act) \in Slot
  BY TaskSlots
<1>2. t.op \in {"create", "clone", "config"} =>
        /\ t.act.res.ref.name \in Names
        /\ t.act.res.hot \in Values /\ t.act.res.cold \in Values
  BY DEF Sound, Fits, Resource, Ref
<1>3. PveType(t.act.kind) \in {"VM", "LXC"}
  BY DEF PveType
<1>4. CASE t.op = "create"
  <2>1. Created(t.act) \in Guest
    BY <1>2, <1>3, <1>4 DEF Created, Guest
  <2> QED BY <1>4, <2>1 DEF After
<1>5. CASE t.op = "clone"
  <2>1. pve[SourceAt(t.act)] \in Guest
    BY <1>1, <1>5 DEF Applies
  <2>2. Cloned(t.act) \in Guest
    BY <1>2, <1>5, <2>1 DEF Cloned, Guest
  <2> QED BY <1>5, <2>2 DEF After
<1>6. CASE t.op = "config"
  <2>1. pve[SlotAt(t.act)] \in Guest
    BY <1>1, <1>6 DEF Applies
  <2>2. Configured(t.act) \in Guest
    BY <1>2, <1>6, <2>1 DEF Configured, Guest
  <2> QED BY <1>6, <2>2 DEF After
<1>7. CASE t.op \in {"start", "stop", "mark"}
  <2>1. pve[SlotAt(t.act)] \in Guest
    BY <1>1, <1>7 DEF Applies
  <2> DEFINE g == pve[SlotAt(t.act)]
  <2>2. /\ [g EXCEPT !.power = "running"] \in Guest
        /\ [g EXCEPT !.power = "stopped"] \in Guest
        /\ [g EXCEPT !.template = TRUE, !.power = "stopped"] \in Guest
    BY <2>1 DEF Guest
  <2> QED BY <1>7, <2>2 DEF After
<1>8. CASE t.op = "delete"
  BY <1>8 DEF After
<1> QED BY <1>4, <1>5, <1>6, <1>7, <1>8 DEF Task, Writes

(* A task applies as long as nothing happens to what it holds.             *)
LEMMA AppliesStable ==
    ASSUME NEW u \in Task, Sound(u.act), Fits(u.op, u.act), Applies(u),
           \A s \in Holds(u) : pve'[s] = pve[s]
    PROVE  Applies(u)'
<1>1. IF u.op = "download" THEN TRUE
      ELSE /\ SlotAt(u.act) \in Holds(u)
           /\ u.op = "clone" => SourceAt(u.act) \in Holds(u)
  BY TaskSlots
<1> QED BY <1>1 DEF Applies, SlotAt, SourceAt

(* A task that takes effect disturbs none that holds other guests.         *)
LEMMA EffectKeeps ==
    ASSUME TaskInv, NEW t \in Task, Sound(t.act), Fits(t.op, t.act), Applies(t),
           TakesEffect(t)
    PROVE  /\ pve' \in [Slot -> Guest \union {NoGuest}]
           /\ storage' \subseteq File
           /\ \A u \in running : Holds(t) \intersect Holds(u) = {} => Applies(u)'
<1>1. CASE t.op = "download"
  <2>1. FileAt(t.act) \in File
    BY <1>1, TaskSlots
  <2>2. storage' = storage \union {FileAt(t.act)} /\ pve' = pve
    BY <1>1 DEF TakesEffect
  <2>3. \A u \in running : Applies(u)'
    BY <2>2, AppliesStable DEF TaskInv
  <2> QED BY <2>1, <2>2, <2>3 DEF TaskInv
<1>2. CASE t.op # "download"
  <2>1. SlotAt(t.act) \in Slot /\ SlotAt(t.act) \in Holds(t)
    BY <1>2, TaskSlots
  <2>2. pve' = [pve EXCEPT ![SlotAt(t.act)] = After(t)] /\ storage' = storage
    BY <1>2 DEF TakesEffect
  <2>3. After(t) \in Guest \union {NoGuest}
    BY <1>2, AfterType DEF TaskInv
  <2>4. pve' \in [Slot -> Guest \union {NoGuest}]
    BY <2>1, <2>2, <2>3 DEF TaskInv
  <2>5. ASSUME NEW u \in running, Holds(t) \intersect Holds(u) = {}
        PROVE  Applies(u)'
    <3>1. SlotAt(t.act) \notin Holds(u)
      BY <2>1, <2>5
    <3>2. \A s \in Holds(u) : pve'[s] = pve[s]
      BY <2>2, <3>1 DEF TaskInv
    <3> QED BY <3>2, AppliesStable DEF TaskInv
  <2> QED BY <2>2, <2>4, <2>5 DEF TaskInv
<1> QED BY <1>1, <1>2

(* Accepting a task keeps what is known of the tasks: it holds guests      *)
(* nobody else held.                                                       *)
LEMMA AcceptKeeps ==
    ASSUME TaskInv, NEW t \in Task, Sound(t.act), Fits(t.op, t.act),
           Accepts(t), Accept(t)
    PROVE  TaskInv'
<1>1. Applies(t)
  BY PossibleApplies DEF Accepts
<1>2. \A u \in running : Holds(t) \intersect Holds(u) = {}
  BY DEF Accepts, Held
<1>3. CASE IsSynchronous(t)
  <2>1. TakesEffect(t) /\ running' = running
    BY <1>3 DEF Accept
  <2> QED BY <1>1, <1>2, <2>1, EffectKeeps DEF TaskInv
<1>4. CASE ~IsSynchronous(t)
  <2>1. running' = running \union {t} /\ pve' = pve /\ storage' = storage
    BY <1>4 DEF Accept
  <2>2. \A u \in running' : Applies(u)'
    BY <1>1, <2>1, AppliesStable DEF TaskInv
  <2>3. \A u, w \in running' : u = w \/ Holds(u) \intersect Holds(w) = {}
    BY <1>2, <2>1 DEF TaskInv
  <2> QED BY <2>1, <2>2, <2>3 DEF TaskInv
<1> QED BY <1>3, <1>4

(* So does the end of one, whatever its outcome.                           *)
LEMMA TaskEndKeeps ==
    ASSUME TaskInv, NEW t \in running, running' = running \ {t},
           TakesEffect(t) \/ UNCHANGED <<pve, storage>>
    PROVE  TaskInv'
<1>1. t \in Task /\ Sound(t.act) /\ Fits(t.op, t.act) /\ Applies(t)
  BY DEF TaskInv
<1>2. \A u \in running' : u \in running /\ Holds(t) \intersect Holds(u) = {}
  BY DEF TaskInv
<1>3. CASE TakesEffect(t)
  BY <1>1, <1>2, <1>3, EffectKeeps DEF TaskInv
<1>4. CASE UNCHANGED <<pve, storage>>
  <2>1. \A u \in running' : Applies(u)'
    BY <1>2, <1>4, AppliesStable DEF TaskInv
  <2> QED BY <1>2, <1>4, <2>1 DEF TaskInv
<1> QED BY <1>3, <1>4

(* So does whatever other people do: they cannot touch a held guest.       *)
LEMMA DisturbKeeps ==
    ASSUME TaskInv, NEW s \in Slot, Disturb(s)
    PROVE  TaskInv'
<1>1. PICK g \in Disturbed(s) : pve' = [pve EXCEPT ![s] = g]
  BY DEF Disturb
<1>2. g \in Guest \union {NoGuest}
  <2>1. pve[s] \in Guest \union {NoGuest}
    BY DEF TaskInv
  <2>2. CASE pve[s] = NoGuest
    BY <1>1, <2>2, ReconcileAssumption DEF Disturbed
  <2>3. CASE pve[s] # NoGuest
    <3>1. /\ [pve[s] EXCEPT !.tagged = FALSE] \in Guest
          /\ \A p \in {"running", "stopped"} : [pve[s] EXCEPT !.power = p] \in Guest
          /\ \A c \in Values : [pve[s] EXCEPT !.cold = c] \in Guest
      BY <2>1, <2>3 DEF Guest
    <3> QED BY <1>1, <2>3, <3>1 DEF Disturbed
  <2> QED BY <2>2, <2>3
<1>3. running' = running /\ storage' = storage
  BY DEF Disturb
<1>4. ASSUME NEW u \in running PROVE Applies(u)'
  <2>1. s \notin Holds(u)
    BY DEF Disturb, Held
  <2>2. \A x \in Holds(u) : pve'[x] = pve[x]
    BY <1>1, <2>1 DEF TaskInv
  <2> QED BY <2>2, AppliesStable DEF TaskInv
<1> QED BY <1>1, <1>2, <1>3, <1>4 DEF TaskInv

-----------------------------------------------------------------------------
(* The executor.                                                           *)

(* Recording an outcome adds its action to those with one.                 *)
LEMMA RecordedActs ==
    ASSUME NEW R, NEW a, NEW o
    PROVE  {r.act : r \in R \union {[act |-> a, outcome |-> o]}}
             = {r.act : r \in R} \union {a}
<1> DEFINE n == [act |-> a, outcome |-> o]
<1>1. n.act = a
  OBVIOUS
<1> HIDE DEF n
<1>2. ASSUME NEW x \in {r.act : r \in R \union {n}}
      PROVE  x \in {r.act : r \in R} \union {a}
  <2>1. PICK r \in R \union {n} : x = r.act
    BY <1>2
  <2> QED BY <1>1, <2>1
<1>3. ASSUME NEW x \in {r.act : r \in R} \union {a}
      PROVE  x \in {r.act : r \in R \union {n}}
  <2>1. CASE x = a
    BY <1>1, <2>1
  <2>2. CASE x # a
    BY <2>2
  <2> QED BY <2>1, <2>2
<1>4. {r.act : r \in R \union {n}} = {r.act : r \in R} \union {a}
  BY <1>2, <1>3
<1> QED BY <1>4 DEF n

(* Ending the action in progress only moves it to the results.             *)
LEMMA ConcludeKeeps ==
    ASSUME ExecInv, cur # NoAction, NEW outcome \in {"ok", "failed"},
           Conclude(outcome), todo' = todo
    PROVE  ExecInv' /\ Planned' = Planned
<1>1. cur \in Action /\ Sound(cur)
  BY DEF ExecInv
<1>2. /\ results' = results \union {[act |-> cur, outcome |-> outcome]}
      /\ cur' = NoAction /\ ops' = <<>> /\ upid' = NoTask /\ verdict' = "none"
  BY DEF Conclude, Record
<1>3. results' \subseteq [act : Action, outcome : {"ok", "failed", "deferred"}]
  BY <1>1, <1>2 DEF ExecInv
<1>4. failed' \subseteq Ref \X Nodes
  <2>1. cur.res.ref # NoRef => cur.res.ref \in Ref
    <3>1. NoResource.ref = NoRef
      BY DEF NoResource
    <3>2. cur.res = NoResource \/ cur.res \in Resource
      BY <1>1 DEF Sound
    <3>3. cur.res \in Resource => cur.res.ref \in Ref
      BY DEF Resource
    <3> QED BY <3>1, <3>2, <3>3
  <2>2. cur.node \in Nodes
    BY <1>1 DEF Action
  <2> QED BY <2>1, <2>2 DEF Conclude, ExecInv
<1>5. <<>> \in Seq(Writes \union {"read", "settle"})
  OBVIOUS
<1>6. Planned' = Planned
  <2>1. {r.act : r \in results'} = {r.act : r \in results} \union {cur}
    BY <1>2, RecordedActs
  <2> QED BY <1>2, <2>1 DEF Planned
<1> QED BY <1>2, <1>3, <1>4, <1>5, <1>6 DEF ExecInv

(* Going on to the next call leaves a suffix of the calls.                 *)
LEMMA ProceedKeeps ==
    ASSUME ExecInv, cur # NoAction, ops # <<>>,
           NEW task \in Task \union {NoTask}, Proceed(task), todo' = todo
    PROVE  ExecInv' /\ Planned' = Planned
<1>1. /\ ops' = Tail(ops) /\ upid' = task
      /\ verdict' \in {"none", "running"}
      /\ cur' = cur /\ failed' = failed /\ results' = results
  BY DEF Proceed
<1>2. ops' \in Seq(Writes \union {"read", "settle"})
  BY <1>1, HeadTailProperties DEF ExecInv
<1>3. ops' \in Seq(Calls(cur))
  BY <1>1, HeadTailProperties DEF ExecInv
<1> QED BY <1>1, <1>2, <1>3 DEF ExecInv, Planned

(* A call being made fits the action, and so do the tasks it may start.    *)
LEMMA AttemptFits ==
    ASSUME ExecInv, NEW op, Attempt(op)
    PROVE  /\ cur # NoAction /\ cur \in Action /\ Sound(cur) /\ ops # <<>>
           /\ op \in Calls(cur) /\ Fits(op, cur)
           /\ op = "settle" => Fits("stop", cur)
<1>1. cur # NoAction /\ cur \in Action /\ Sound(cur) /\ ops # <<>> /\ Head(ops) = op
  BY DEF Attempt, ExecInv
<1>2. op \in Calls(cur)
  BY <1>1, HeadTailProperties DEF ExecInv
<1>3. Fits(op, cur)
  BY <1>2 DEF Calls
<1> QED BY <1>1, <1>2, <1>3 DEF Fits

(* A write call, in all its outcomes, leaves the plan as it is.            *)
LEMMA IssueKeeps ==
    ASSUME ExecInv, NEW op \in Writes, Issue(op)
    PROVE  ExecInv' /\ Planned' = Planned
<1> DEFINE t == [op |-> op, act |-> cur]
<1>1. cur # NoAction /\ cur \in Action /\ ops # <<>> /\ todo' = todo
  BY AttemptFits DEF Issue
<1>2. t \in Task /\ t \in Task \union {NoTask} /\ NoTask \in Task \union {NoTask}
  BY <1>1 DEF Task
<1>3. \/ Proceed(t) \/ Proceed(NoTask) \/ Conclude("failed")
  BY DEF Issue
<1> QED BY <1>1, <1>2, <1>3, ProceedKeeps, ConcludeKeeps

(* So do reading a clone's config and settling a container.                *)
LEMMA OtherCallKeeps ==
    ASSUME ExecInv, ReadClone \/ Settle
    PROVE  ExecInv' /\ Planned' = Planned
<1>1. cur # NoAction /\ ops # <<>> /\ todo' = todo
  BY AttemptFits DEF ReadClone, Settle
<1>2. Proceed(NoTask) \/ Conclude("failed")
  BY DEF ReadClone, Settle
<1> QED BY <1>1, <1>2, ProceedKeeps, ConcludeKeeps

(* So does waiting for a task.                                             *)
LEMMA AwaitKeeps ==
    ASSUME ExecInv, Await
    PROVE  ExecInv' /\ Planned' = Planned
<1>1. cur # NoAction /\ todo' = todo
  BY DEF Await, ExecInv
<1>2. CASE Conclude("failed")
  BY <1>1, <1>2, ConcludeKeeps
<1>3. CASE ~Conclude("failed")
  <2>1. upid' = NoTask /\ verdict' = "none" /\ UNCHANGED <<cur, ops, failed, results>>
    BY <1>3 DEF Await
  <2> QED BY <1>1, <2>1 DEF ExecInv, Planned
<1> QED BY <1>2, <1>3

(* So does finishing an action.                                            *)
LEMMA CompleteKeeps ==
    ASSUME ExecInv, Complete
    PROVE  ExecInv' /\ Planned' = Planned
BY ConcludeKeeps DEF Complete

(* So does deferring one.                                                  *)
LEMMA DeferKeeps ==
    ASSUME ExecInv, NEW a \in todo, Defer(a)
    PROVE  ExecInv' /\ Planned' = Planned
<1>1. /\ a \in Action /\ todo' = todo \ {a}
      /\ results' = results \union {[act |-> a, outcome |-> "deferred"]}
      /\ UNCHANGED <<cur, ops, upid, verdict, failed>>
  BY DEF Defer, Record, ExecInv
<1>2. results' \subseteq [act : Action, outcome : {"ok", "failed", "deferred"}]
  BY <1>1 DEF ExecInv
<1>3. {r.act : r \in results'} = {r.act : r \in results} \union {a}
  BY <1>1, RecordedActs
<1>4. Planned' = Planned
  BY <1>1, <1>3 DEF Planned
<1> QED BY <1>1, <1>2, <1>4 DEF ExecInv

(* So does beginning one; its calls fit it.                                *)
LEMMA BeginKeeps ==
    ASSUME ExecInv, PlanInv, NEW a \in todo, Begin(a)
    PROVE  ExecInv' /\ Planned' = Planned
<1>1. /\ a \in Action /\ todo' = todo \ {a} /\ cur' = a /\ ops' = Program(a)
      /\ cur = NoAction /\ UNCHANGED <<upid, verdict, failed, results>>
  BY DEF Begin, ExecInv
<1>2. Sound(a)
  BY DEF PlanInv, Planned
<1>3. ops' \in Seq(Calls(a))
  BY <1>1, <1>2, ProgramFits
<1>4. Calls(a) \subseteq Writes \union {"read", "settle"}
  BY DEF Calls
<1>5. ops' \in Seq(Writes \union {"read", "settle"})
  BY <1>3, <1>4
<1>6. a # NoAction
  <2>1. a.what \in Verbs /\ NoAction.what = "none"
    BY <1>1 DEF Action, NoAction
  <2> QED BY <2>1 DEF Verbs
<1>7. Planned' = Planned
  BY <1>1, <1>6 DEF Planned
<1> QED BY <1>1, <1>2, <1>3, <1>5, <1>6, <1>7 DEF ExecInv

-----------------------------------------------------------------------------
(* Reading the inventory.                                                  *)

(* The listing, and the reads it asks for.                                 *)
LEMMA ListKeeps ==
    ASSUME GitInv, LoadInv, TaskInv, List
    PROVE  LoadInv'
<1>1. \A s \in Slot : /\ pve[s].type \in {"none", "VM", "LXC"}
                      /\ pve[s] # NoGuest => pve[s].type # "none"
  BY DEF TaskInv, Guest, NoGuest
<1>2. inv' \in Inventory /\ inv'.listed = [s \in Slot |-> pve[s].type]
  <2>1. NoInventory \in Inventory
    BY DEF NoInventory, Inventory
  <2>2. inv' = [NoInventory EXCEPT !.listed = [s \in Slot |-> pve[s].type]]
    BY DEF List
  <2>3. [s \in Slot |-> pve[s].type] \in [Slot -> {"none", "VM", "LXC"}]
    BY <1>1
  <2> QED BY <2>1, <2>2, <2>3 DEF Inventory
<1>3. \A q \in reads' : \E s \in Slot : q = <<"config", s>> /\ pve[s] # NoGuest
  BY DEF List
<1>4. /\ reads' \subseteq {"config", "status"} \X Slot
      /\ \A q \in reads' : inv'.listed[q[2]] # "none"
  BY <1>1, <1>2, <1>3
<1>5. probes' \subseteq File
  <2>1. Desired \subseteq Resource
    BY SchemaAssumption DEF GitInv, Desired
  <2>2. \A r \in Artifacts(Desired) :
          r.ref \in {x \in Ref : x.kind \in ArtifactKinds}
    BY <2>1 DEF Artifacts, IsArtifact, Resource
  <2> QED BY <2>2 DEF List, File
<1> QED BY <1>2, <1>4, <1>5 DEF LoadInv

(* A read only stores what a listed guest can be.                          *)
LEMMA ReadKeeps ==
    ASSUME LoadInv, TaskInv, NEW s \in Slot,
           ReadConfig(s) \/ ReadConfigFails(s) \/ ReadStatus(s)
    PROVE  LoadInv'
<1>1. /\ inv \in Inventory /\ reads \subseteq {"config", "status"} \X Slot
      /\ \A q \in reads : inv.listed[q[2]] # "none"
      /\ probes \subseteq File /\ pve[s] \in Guest \union {NoGuest}
  BY DEF LoadInv, TaskInv
<1>2. inv.listed[s] # "none"
  <2>1. <<"config", s>> \in reads \/ <<"status", s>> \in reads
    BY DEF ReadConfig, ReadConfigFails, ReadStatus
  <2> QED BY <1>1, <2>1
<1>3. pve[s].type = inv.listed[s] => pve[s] \in Guest
  <2>1. NoGuest.type = "none"
    BY DEF NoGuest
  <2> QED BY <1>1, <1>2, <2>1
<1>4. \/ inv' = inv
      \/ inv' = [inv EXCEPT !.cfg[s] = pve[s]]
      \/ inv' = [inv EXCEPT !.power[s] = "read-error"]
      \/ pve[s].type = inv.listed[s] /\ inv' = [inv EXCEPT !.power[s] = pve[s].power]
  BY DEF ReadConfig, ReadConfigFails, ReadStatus
<1>5. inv' \in Inventory /\ inv'.listed = inv.listed
  <2>1. CASE inv' = inv
    BY <1>1, <2>1
  <2>2. CASE inv' = [inv EXCEPT !.cfg[s] = pve[s]]
    BY <1>1, <2>2 DEF Inventory
  <2>3. CASE inv' = [inv EXCEPT !.power[s] = "read-error"]
    BY <1>1, <2>3 DEF Inventory
  <2>4. CASE pve[s].type = inv.listed[s] /\ inv' = [inv EXCEPT !.power[s] = pve[s].power]
    <3>1. pve[s].power \in {"running", "stopped"}
      BY <1>3, <2>4 DEF Guest
    <3> QED BY <1>1, <2>4, <3>1 DEF Inventory
  <2> QED BY <1>4, <2>1, <2>2, <2>3, <2>4
<1>6. reads' \subseteq reads \union {<<"status", s>>} /\ probes' = probes
  BY DEF ReadConfig, ReadConfigFails, ReadStatus
<1>7. /\ reads' \subseteq {"config", "status"} \X Slot
      /\ \A q \in reads' : inv'.listed[q[2]] # "none"
  BY <1>1, <1>2, <1>5, <1>6
<1> QED BY <1>1, <1>5, <1>6, <1>7 DEF LoadInv

(* Reading a storage adds to what was seen.                                *)
LEMMA ProbeKeeps ==
    ASSUME LoadInv, NEW f \in probes, ProbeStorage(f)
    PROVE  LoadInv'
<1>1. inv \in Inventory /\ f \in File /\ probes' \subseteq File /\ reads' = reads
  BY DEF ProbeStorage, LoadInv
<1>2. inv' \in Inventory /\ inv'.listed = inv.listed
  <2>1. CASE inv' = inv
    BY <1>1, <2>1
  <2>2. CASE inv' = [inv EXCEPT !.seen = @ \union {f},
                                !.have = @ \union ({f} \intersect storage)]
    <3>1. /\ inv.seen \union {f} \subseteq File
          /\ inv.have \union ({f} \intersect storage) \subseteq File
      BY <1>1 DEF Inventory
    <3> QED BY <1>1, <2>2, <3>1 DEF Inventory
  <2> QED BY <2>1, <2>2 DEF ProbeStorage
<1> QED BY <1>1, <1>2 DEF LoadInv

-----------------------------------------------------------------------------
(* Every step keeps every part of the invariant.                           *)

(* The invariant holds at first.                                           *)
LEMMA InitIInv == Init => IInv
<1> SUFFICES ASSUME Init PROVE IInv
  OBVIOUS
<1>1. GitInv
  BY DEF Init, GitInv
<1>2. LoadInv
  BY DEF Init, LoadInv, NoInventory, Inventory
<1>3. ExecInv
  BY DEF Init, ExecInv
<1>4. PlanInv
  <2>1. Planned = {}
    BY DEF Init, Planned
  <2>2. {a \in Planned : a.what = "delete"} = {}
    BY <2>1
  <2>3. PruneBudget
    BY <2>2, FS_EmptySet, BudgetAssumption DEF PruneBudget
  <2> QED BY <2>1, <2>3 DEF PlanInv, KeepsDesired
<1>5. TaskInv
  BY ReconcileAssumption DEF Init, TaskInv
<1>6. BoundsInv
  BY DEF Init, BoundsInv
<1> QED BY <1>1, <1>2, <1>3, <1>4, <1>5, <1>6 DEF IInv

(* The phases after fetch and parse keep the tree they accepted.           *)
LEMMA GitStep ==
    ASSUME IInv, [Next]_vars
    PROVE  GitInv'
<1>1. GitInv
  BY DEF IInv
<1>2. CASE Sync \/ SyncFails
  <2>1. CASE \E v \in Revisions : StartCycle(v) /\ head' = head
    BY <1>1, <2>1 DEF StartCycle, GitInv, Desired
  <2>2. CASE UNCHANGED <<head, tree, lastGood, phase>>
    BY <1>1, <2>2 DEF GitInv, Desired
  <2> QED BY <1>1, <1>2, <2>1, <2>2 DEF Sync, SyncFails, GitInv
<1>3. CASE List \/ ListFails \/ PlanCycle \/ EndCycle
  BY <1>1, <1>3 DEF List, ListFails, PlanCycle, EndCycle, gitVars, GitInv, Desired
<1>4. CASE Crash
  BY <1>1, <1>4 DEF Crash, gitVars, GitInv, Desired
<1>5. CASE \E v \in Revisions : Push(v)
  BY <1>1, <1>5 DEF Push, GitInv, Desired
<1>6. CASE UNCHANGED <<gitVars, phase, lastGood>>
  BY <1>1, <1>6 DEF gitVars, GitInv, Desired
<1>7. CASE \/ \E s \in Slot : ReadConfig(s) \/ ReadConfigFails(s) \/ ReadStatus(s)
           \/ \E f \in probes : ProbeStorage(f)
           \/ \E a \in todo : Defer(a) \/ Begin(a)
           \/ \E op \in Writes : Issue(op)
           \/ ReadClone \/ Settle \/ Await \/ Complete
  BY <1>6, <1>7 DEF ReadConfig, ReadConfigFails, ReadStatus, ProbeStorage, Defer,
     Begin, Issue, ReadClone, Settle, Await, Complete
<1>8. CASE PveStep \/ \E s \in Slot : Disturb(s)
  BY <1>6, <1>8 DEF PveStep, TaskSucceeds, TaskFails, Ends, Disturb
<1>9. CASE UNCHANGED vars
  BY <1>6, <1>9 DEF vars, gitVars
<1> QED BY <1>2, <1>3, <1>4, <1>5, <1>7, <1>8, <1>9
        DEF Next, Agent, Load, Execute, Environment

(* The inventory stays well typed.                                         *)
LEMMA LoadStep ==
    ASSUME IInv, [Next]_vars
    PROVE  LoadInv'
<1>1. GitInv /\ LoadInv /\ TaskInv
  BY DEF IInv
<1>2. CASE List
  BY <1>1, <1>2, ListKeeps
<1>3. CASE \E s \in Slot : ReadConfig(s) \/ ReadConfigFails(s) \/ ReadStatus(s)
  BY <1>1, <1>3, ReadKeeps
<1>4. CASE \E f \in probes : ProbeStorage(f)
  BY <1>1, <1>4, ProbeKeeps
<1>5. CASE PlanCycle \/ Crash
  <2>1. inv' = NoInventory /\ reads' = {} /\ probes' = {}
    BY <1>5 DEF PlanCycle, Crash
  <2>2. NoInventory \in Inventory
    BY DEF NoInventory, Inventory
  <2> QED BY <2>1, <2>2 DEF LoadInv
<1>6. CASE UNCHANGED loadVars
  BY <1>1, <1>6 DEF loadVars, LoadInv
<1>7. CASE Sync \/ SyncFails \/ ListFails \/ Execute
  BY <1>6, <1>7 DEF Sync, SyncFails, ListFails, Execute, Defer, Begin, Issue,
     ReadClone, Settle, Await, Complete, EndCycle
<1>8. CASE PveStep \/ Environment \/ UNCHANGED vars
  BY <1>6, <1>8 DEF PveStep, TaskSucceeds, TaskFails, Ends, Environment, Push,
     Disturb, vars, loadVars
<1> QED BY <1>2, <1>3, <1>4, <1>5, <1>7, <1>8 DEF Next, Agent, Load

(* With nothing planned there is nothing to bound.                         *)
LEMMA EmptyPlanInv ==
    ASSUME Planned' = {}
    PROVE  PlanInv'
<1>1. {a \in Planned' : a.what = "delete"} = {}
  OBVIOUS
<1>2. PruneBudget'
  BY <1>1, FS_EmptySet, BudgetAssumption DEF PruneBudget
<1> QED BY <1>2 DEF PlanInv, KeepsDesired

(* A plan that does not change, under a tree that does not, stays good.    *)
LEMMA SamePlanInv ==
    ASSUME PlanInv, Planned' = Planned, phase' = phase, tree' = tree
    PROVE  PlanInv'
BY DEF PlanInv, PruneBudget, KeepsDesired, Desired

(* A new plan replaces an empty one.                                       *)
LEMMA PlanCycleKeeps ==
    ASSUME IInv, PlanCycle
    PROVE  ExecInv' /\ PlanInv'
<1>1. /\ phase = "read" /\ tree \in Parses /\ OnAllowedNodes(Manifests[tree])
      /\ inv \in Inventory /\ ExecInv /\ PlanInv /\ Planned = {}
  BY DEF PlanCycle, IInv, GitInv, LoadInv, PlanInv, Desired
<1>2. UNCHANGED <<cur, ops, upid, verdict, failed, results, tree>>
  BY DEF PlanCycle, gitVars
<1>3. PICK kept \in SUBSET Prunable(inv, tree) :
        /\ IsKept(kept, Prunable(inv, tree))
        /\ phase' = "exec" /\ todo' = PlanOf(inv, tree, kept)
  BY DEF PlanCycle
<1>4. /\ \A a \in todo' : Sound(a)
      /\ Cardinality({a \in todo' : a.what = "delete"}) <= Budget
      /\ \A a \in todo' : a.what = "delete" =>
            \A r \in Guests(Manifests[tree]) :
               SlotOf(r) = SlotAt(a) => PveType(r.ref.kind) # a.kind
  BY <1>1, <1>3, PlanSound
<1>5. Planned' = todo'
  BY <1>1, <1>2 DEF Planned
<1>6. todo' \subseteq Action
  BY <1>4 DEF Sound
<1>7. ExecInv'
  BY <1>1, <1>2, <1>6 DEF ExecInv
<1>8. PruneBudget'
  BY <1>4, <1>5 DEF PruneBudget
<1>9. KeepsDesired'
  BY <1>2, <1>4, <1>5 DEF KeepsDesired, Desired
<1> QED BY <1>3, <1>4, <1>5, <1>7, <1>8, <1>9 DEF PlanInv

(* The executor never adds to the plan.                                    *)
LEMMA ExecuteKeeps ==
    ASSUME IInv, Execute
    PROVE  ExecInv' /\ PlanInv'
<1>1. ExecInv /\ PlanInv
  BY DEF IInv
<1>2. CASE EndCycle
  <2>1. /\ todo' = {} /\ cur' = NoAction /\ results' = {} /\ failed' = {}
        /\ UNCHANGED <<ops, upid, verdict>>
        /\ cur = NoAction
    BY <1>2 DEF EndCycle
  <2>2. Planned' = {}
    BY <2>1 DEF Planned
  <2>3. ExecInv'
    BY <1>1, <2>1 DEF ExecInv
  <2> QED BY <2>2, <2>3, EmptyPlanInv
<1>3. CASE ~EndCycle
  <2>1. ExecInv' /\ Planned' = Planned
    BY <1>1, <1>3, DeferKeeps, BeginKeeps, IssueKeeps, OtherCallKeeps,
       AwaitKeeps, CompleteKeeps DEF Execute
  <2>2. phase' = phase /\ tree' = tree
    BY <1>3 DEF Execute, Defer, Begin, Issue, ReadClone, Settle, Await, Complete,
       gitVars
  <2> QED BY <1>1, <2>1, <2>2, SamePlanInv
<1> QED BY <1>2, <1>3

(* Nor does anything else, outside PlanActions.                            *)
LEMMA ExecStep ==
    ASSUME IInv, [Next]_vars
    PROVE  ExecInv' /\ PlanInv'
<1>1. ExecInv /\ PlanInv
  BY DEF IInv
<1>2. CASE Sync \/ SyncFails \/ Load
  <2>1. UNCHANGED execVars /\ phase # "exec"
    BY <1>2 DEF Sync, SyncFails, Load, List, ListFails, ReadConfig,
       ReadConfigFails, ReadStatus, ProbeStorage
  <2>2. ExecInv' /\ Planned' = {}
    BY <1>1, <2>1 DEF execVars, ExecInv, Planned, PlanInv
  <2> QED BY <2>2, EmptyPlanInv
<1>3. CASE PlanCycle
  BY <1>3, PlanCycleKeeps
<1>4. CASE Execute
  BY <1>4, ExecuteKeeps
<1>5. CASE Crash
  <2>1. /\ todo' = {} /\ cur' = NoAction /\ ops' = <<>> /\ upid' = NoTask
        /\ verdict' = "none" /\ failed' = {} /\ results' = {}
    BY <1>5 DEF Crash
  <2>2. ExecInv' /\ Planned' = {}
    BY <2>1 DEF ExecInv, Planned
  <2> QED BY <2>2, EmptyPlanInv
<1>6. CASE PveStep
  <2>1. /\ UNCHANGED <<todo, cur, ops, upid, failed, results, phase, tree>>
        /\ verdict' \in {verdict, "ok", "failed"}
    BY <1>6 DEF PveStep, TaskSucceeds, TaskFails, Ends, gitVars
  <2>2. ExecInv' /\ Planned' = Planned
    BY <1>1, <2>1 DEF ExecInv, Planned
  <2> QED BY <1>1, <2>1, <2>2, SamePlanInv
<1>7. CASE Environment \/ UNCHANGED vars
  <2>1. UNCHANGED <<todo, cur, ops, upid, verdict, failed, results, phase, tree>>
    BY <1>7 DEF Environment, Push, Disturb, gitVars, execVars, vars
  <2>2. ExecInv' /\ Planned' = Planned
    BY <1>1, <2>1 DEF ExecInv, Planned
  <2> QED BY <1>1, <2>1, <2>2, SamePlanInv
<1> QED BY <1>2, <1>3, <1>4, <1>5, <1>6, <1>7 DEF Next, Agent

(* The tasks a call starts carry out the call.                             *)
LEMMA CallTaskKeeps ==
    ASSUME IInv, (\E op \in Writes : Issue(op)) \/ Settle
    PROVE  TaskInv'
<1>1. ExecInv /\ TaskInv
  BY DEF IInv
<1>2. CASE UNCHANGED pveVars
  <2>1. UNCHANGED <<pve, storage, running>>
    BY <1>2 DEF pveVars
  <2>2. \A u \in running : Applies(u)'
    BY <1>1, <2>1 DEF TaskInv, Applies
  <2> QED BY <1>1, <2>1, <2>2 DEF TaskInv
<1>3. ASSUME NEW op \in Writes, Fits(op, cur), cur \in Action, Sound(cur),
             Accepts([op |-> op, act |-> cur]), Accept([op |-> op, act |-> cur])
      PROVE  TaskInv'
  <2> DEFINE t == [op |-> op, act |-> cur]
  <2>1. t \in Task /\ t.op = op /\ t.act = cur
    BY <1>3 DEF Task
  <2> HIDE DEF t
  <2>2. Accepts(t) /\ Accept(t)
    BY <1>3 DEF t
  <2> QED BY <1>1, <1>3, <2>1, <2>2, AcceptKeeps
<1>4. ASSUME NEW op \in Writes, Issue(op) PROVE TaskInv'
  <2>1. Fits(op, cur) /\ cur \in Action /\ Sound(cur)
    BY <1>1, <1>4, AttemptFits DEF Issue
  <2> QED BY <1>2, <1>3, <1>4, <2>1 DEF Issue
<1>5. CASE Settle
  <2>1. Fits("stop", cur) /\ cur \in Action /\ Sound(cur) /\ "stop" \in Writes
    BY <1>1, <1>5, AttemptFits DEF Settle, Writes
  <2> QED BY <1>2, <1>3, <1>5, <2>1 DEF Settle
<1> QED BY <1>4, <1>5

(* Guests, storage and tasks under every step.                             *)
LEMMA TaskStep ==
    ASSUME IInv, [Next]_vars
    PROVE  TaskInv'
<1>1. TaskInv
  BY DEF IInv
<1>2. CASE UNCHANGED pveVars
  <2>1. UNCHANGED <<pve, storage, running>>
    BY <1>2 DEF pveVars
  <2>2. \A u \in running : Applies(u)'
    BY <1>1, <2>1 DEF TaskInv, Applies
  <2> QED BY <1>1, <2>1, <2>2 DEF TaskInv
<1>3. CASE (\E op \in Writes : Issue(op)) \/ Settle
  BY <1>3, CallTaskKeeps
<1>4. CASE PveStep
  <2>1. PICK t \in running : TaskSucceeds(t) \/ TaskFails(t)
    BY <1>4 DEF PveStep
  <2> QED BY <1>1, <2>1, TaskEndKeeps DEF TaskSucceeds, TaskFails, Ends
<1>5. CASE \E s \in Slot : Disturb(s)
  BY <1>1, <1>5, DisturbKeeps
<1>6. CASE Sync \/ SyncFails \/ Load \/ PlanCycle \/ Crash
  BY <1>2, <1>6 DEF Sync, SyncFails, Load, List, ListFails, ReadConfig,
     ReadConfigFails, ReadStatus, ProbeStorage, PlanCycle, Crash
<1>7. CASE \/ \E a \in todo : Defer(a) \/ Begin(a)
           \/ ReadClone \/ Await \/ Complete \/ EndCycle
  BY <1>2, <1>7 DEF Defer, Begin, ReadClone, Await, Complete, EndCycle
<1>8. CASE (\E v \in Revisions : Push(v)) \/ UNCHANGED vars
  BY <1>2, <1>8 DEF Push, vars, pveVars
<1> QED BY <1>3, <1>4, <1>5, <1>6, <1>7, <1>8
        DEF Next, Agent, Execute, Environment

(* The counters that bound the model.                                      *)
LEMMA BoundsStep ==
    ASSUME IInv, [Next]_vars
    PROVE  BoundsInv'
<1>1. BoundsInv
  BY DEF IInv
<1>2. edits' \in {edits, edits + 1} /\ faults' \in {faults, faults + 1}
      /\ pushes' \in {pushes, pushes + 1}
  <2>1. CASE Agent
    BY <2>1 DEF Agent, Sync, SyncFails, Load, List, ListFails, ReadConfig,
       ReadConfigFails, ReadStatus, ProbeStorage, PlanCycle, Execute, Defer, Begin,
       Issue, ReadClone, Settle, Await, Complete, EndCycle, Fault, NoFault, gitVars
  <2>2. CASE Crash \/ PveStep \/ Environment \/ UNCHANGED vars
    BY <2>2 DEF Crash, PveStep, TaskSucceeds, TaskFails, Ends, Environment, Push,
       Disturb, Fault, NoFault, gitVars, vars
  <2> QED BY <2>1, <2>2 DEF Next
<1> QED BY <1>1, <1>2 DEF BoundsInv

(* The invariant is inductive.                                             *)
LEMMA Invariant == Spec => []IInv
<1>1. IInv /\ [Next]_vars => IInv'
  BY GitStep, LoadStep, ExecStep, TaskStep, BoundsStep DEF IInv
<1> QED BY InitIInv, <1>1, PTL DEF Spec

-----------------------------------------------------------------------------
(* The results.                                                            *)

(* Every variable of the agent and of PVE keeps its type: no sequence of   *)
(* pushes, faults and disturbances makes RunOneCycle, the executor or a    *)
(* task act on something that is not there.                                *)
THEOREM TypeCorrect == Spec => []TypeOK
<1>1. IInv => TypeOK
  BY DEF IInv, GitInv, LoadInv, ExecInv, TaskInv, BoundsInv, TypeOK, PveTypeOK
<1> QED BY Invariant, <1>1, PTL

(* checkNodeAllowlist and the node filter of the prune pass keep every     *)
(* planned action and every task of this agent on its own nodes.           *)
THEOREM BoundaryHolds == Spec => []ClusterBoundary
<1>1. IInv => ClusterBoundary
  BY DEF IInv, PlanInv, TaskInv, Sound, ClusterBoundary
<1> QED BY Invariant, <1>1, PTL

(* The prune budget of PlanActions bounds the deletes of a whole cycle,    *)
(* executed, deferred and failed ones together.                            *)
THEOREM BudgetHolds == Spec => []PruneBudget
<1>1. IInv => PruneBudget
  BY DEF IInv, PlanInv
<1> QED BY Invariant, <1>1, PTL

(* No guest the revision being applied declares is ever planned for        *)
(* deletion, for as long as the plan lives.                                *)
THEOREM DesiredIsKept == Spec => []KeepsDesired
<1>1. IInv => KeepsDesired
  BY DEF IInv, PlanInv
<1> QED BY Invariant, <1>1, PTL

=============================================================================
