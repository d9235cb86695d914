--------------------------- MODULE PromiseProofs ---------------------------
(***************************************************************************)
(* The loop implements SafeCluster, for any cluster, manifests, faults and *)
(* disturbances.  Three things have to be known of every action and task,  *)
(* however old: what it writes is asked for by a revision that applies     *)
(* (Wanted); the guest a delete is aimed at, if it is still of its type,   *)
(* is the tagged one that was read, unless others have moved (Kept); and   *)
(* what PVE found when it accepted a task stays true while the task holds  *)
(* its guests (HeldInv).                                                   *)
(***************************************************************************)
EXTENDS ReconcileProofs

Applicable == {v \in Parses : OnAllowedNodes(Manifests[v])}

(* Revision v has the manifest of the guest that a writes, and of the      *)
(* template it is copied from; or places the file that a downloads.        *)
AsksGuest(v, a) ==
    /\ a.res \in Guests(Manifests[v]) /\ SlotAt(a) = SlotOf(a.res)
    /\ a.src # 0 => /\ a.res.clone # NoRef
                    /\ \E q \in Guests(Manifests[v]) :
                          q.ref = a.res.clone /\ SourceAt(a) = SlotOf(q)

AsksFile(v, a) == a.res \in Artifacts(Manifests[v]) /\ a.node \in a.res.nodes

Asks(v, a) == IF a.kind \in ArtifactKinds THEN AsksFile(v, a) ELSE AsksGuest(v, a)

Wanted(a) == a.what # "delete" => \E v \in Applicable : Asks(v, a)

(* The template of a clone is on the clone's node.                         *)
LEMMA SourceFound ==
    ASSUME NEW v \in Parses, NEW r \in Guests(Manifests[v]), r.clone # NoRef
    PROVE  \E q \in Guests(Manifests[v]) :
              q.ref = r.clone /\ SlotOf(q) = <<NodeOf(r), CloneSource(v, r)>>
<1> DEFINE D == Manifests[v]
           q == ByRef(D, r.clone)
<1>1. ValidIndex(D) /\ r \in D /\ ~IsArtifact(r)
  BY DEF Parses, Guests
<1>2. r.clone \in Refs(D) /\ r.clone.kind = "TemplateVM" /\ r.nodes \subseteq q.nodes
  BY <1>1 DEF ValidIndex, ReferencesResolve, EdgesFor
<1>3. q \in D /\ q.ref = r.clone
  BY <1>2 DEF Refs, ByRef
<1> HIDE DEF q
<1>4. ~IsArtifact(q)
  BY <1>2, <1>3 DEF IsArtifact, ArtifactKinds
<1>5. Cardinality(q.nodes) = 1 /\ NodeOf(r) \in r.nodes
  BY <1>1, <1>3, <1>4, DesiredResource DEF ValidIndex, Validate
<1>6. q.nodes = {NodeOf(r)}
  <2>1. q \in Resource /\ q.nodes \subseteq Nodes
    BY <1>3, DesiredResource DEF Resource
  <2>2. IsFiniteSet(q.nodes)
    BY <2>1, SchemaAssumption, FS_Subset
  <2>3. PICK n : q.nodes = {n}
    BY <1>5, <2>2, FS_Singleton
  <2> QED BY <1>2, <1>5, <2>3
<1>7. NodeOf(q) = NodeOf(r)
  BY <1>6 DEF NodeOf
<1>8. CloneSource(v, r) = q.id
  BY DEF CloneSource, q
<1> QED BY <1>3, <1>4, <1>7, <1>8 DEF Guests, SlotOf

(* Every write of a plan is asked for by the revision it was made from.    *)
LEMMA PlanAsks ==
    ASSUME NEW v \in Parses, NEW i, NEW kept,
           NEW a \in PlanOf(i, v, kept), a.what # "delete"
    PROVE  Asks(v, a)
<1>1. ASSUME NEW r \in Guests(Manifests[v]), a.res = r, a.kind = r.ref.kind,
             a.node = NodeOf(r), a.id = r.id,
             a.src = 0 \/ a.src = CloneSource(v, r)
      PROVE  Asks(v, a)
  <2>1. a.kind \notin ArtifactKinds
    BY <1>1 DEF Guests, IsArtifact
  <2>2. SlotAt(a) = SlotOf(r)
    BY <1>1 DEF SlotAt, SlotOf
  <2>3. a.src # 0 => r.clone # NoRef /\ SourceAt(a) = <<NodeOf(r), CloneSource(v, r)>>
    BY <1>1 DEF CloneSource, SourceAt
  <2> QED BY <1>1, <2>1, <2>2, <2>3, SourceFound DEF Asks, AsksGuest
<1>2. CASE a \in Marks(i, v)
  BY <1>1, <1>2 DEF Marks, Plain
<1>3. CASE a \in Creates(i, v)
  BY <1>1, <1>3 DEF Creates, Plain
<1>4. CASE a \in Updates(i, v)
  BY <1>1, <1>4 DEF Updates, Tracked, Plain
<1>5. CASE a \in PowerChanges(i, v)
  <2>1. PICK r \in Guests(Manifests[v]), verb \in {"start", "stop"} :
          a = [Plain(v, r, NodeOf(r), verb) EXCEPT !.live = LivePower(i, r)]
    <3>1. PICK r \in Tracked(i, v) : \E verb \in PowerVerb(r.state, LivePower(i, r)) :
            a = [Plain(v, r, NodeOf(r), verb) EXCEPT !.live = LivePower(i, r)]
      BY <1>5 DEF PowerChanges
    <3>2. /\ PowerVerb(r.state, LivePower(i, r)) \subseteq {"start", "stop"}
          /\ r \in Guests(Manifests[v])
      BY <3>1 DEF PowerVerb, Tracked
    <3> QED BY <3>1, <3>2
  <2> QED BY <1>1, <2>1 DEF Plain
<1>6. CASE a \in Downloads(i, v)
  <2>1. PICK f \in Nodes \X Artifacts(Manifests[v]) :
          a = Plain(v, f[2], f[1], "create") /\ f[1] \in f[2].nodes
    BY <1>6 DEF Downloads
  <2>2. a.kind = f[2].ref.kind /\ a.res = f[2] /\ a.node = f[1]
    BY <2>1 DEF Plain
  <2> QED BY <2>1, <2>2 DEF Asks, AsksFile, Artifacts, IsArtifact
<1>7. CASE \E s \in kept : a = Prune(i, s)
  BY <1>7 DEF Prune
<1> QED BY <1>2, <1>3, <1>4, <1>5, <1>6, <1>7 DEF PlanOf

-----------------------------------------------------------------------------
(* What a step does to PVE.                                                *)

Accepted(t) ==
    /\ t \in Task /\ Sound(t.act) /\ Fits(t.op, t.act)
    /\ t.act = cur /\ cur \in Planned
    /\ Accepts(t) /\ Accept(t) /\ edits' = edits

Ended(t) ==
    /\ t \in running /\ running' = running \ {t}
    /\ TakesEffect(t) \/ UNCHANGED <<pve, storage>>
    /\ edits' = edits

(* It accepts a call of the action in hand, ends a task, or others move.   *)
LEMMA PveCases ==
    ASSUME IInv, [Next]_vars
    PROVE  \/ UNCHANGED pveVars /\ edits' = edits
           \/ \E t \in Task : Accepted(t)
           \/ \E t \in running : Ended(t)
           \/ \E s \in Slot : Disturb(s)
<1>1. ExecInv
  BY DEF IInv
<1>2. ASSUME NEW op \in Writes, Fits(op, cur), cur # NoAction,
             cur \in Action, Sound(cur),
             Accepts([op |-> op, act |-> cur]), Accept([op |-> op, act |-> cur]),
             edits' = edits
      PROVE  \E t \in Task : Accepted(t)
  <2> DEFINE t == [op |-> op, act |-> cur]
  <2>1. t \in Task /\ t.op = op /\ t.act = cur
    BY <1>2 DEF Task
  <2>2. cur \in Planned
    BY <1>2 DEF Planned
  <2>3. Accepts(t) /\ Accept(t)
    BY <1>2
  <2> HIDE DEF t
  <2>4. Accepted(t)
    BY <1>2, <2>1, <2>2, <2>3 DEF Accepted
  <2> QED BY <2>1, <2>4
<1>3. ASSUME NEW op \in Writes, Issue(op)
      PROVE  \/ UNCHANGED pveVars /\ edits' = edits
             \/ \E t \in Task : Accepted(t)
  <2>1. Fits(op, cur) /\ cur \in Action /\ Sound(cur) /\ cur # NoAction
    BY <1>1, <1>3, AttemptFits DEF Issue
  <2> QED BY <1>2, <1>3, <2>1 DEF Issue
<1>4. ASSUME Settle
      PROVE  \/ UNCHANGED pveVars /\ edits' = edits
             \/ \E t \in Task : Accepted(t)
  <2>1. /\ Fits("stop", cur) /\ cur \in Action /\ Sound(cur) /\ cur # NoAction
        /\ "stop" \in Writes
    BY <1>1, <1>4, AttemptFits DEF Settle, Writes
  <2> QED BY <1>2, <1>4, <2>1 DEF Settle
<1>5. CASE PveStep
  BY <1>5 DEF PveStep, TaskSucceeds, TaskFails, Ends, Ended
<1>6. CASE Sync \/ SyncFails \/ Load \/ PlanCycle \/ Crash
  BY <1>6 DEF Sync, SyncFails, Load, List, ListFails, ReadConfig,
     ReadConfigFails, ReadStatus, ProbeStorage, PlanCycle, Crash
<1>7. CASE \/ \E a \in todo : Defer(a) \/ Begin(a)
           \/ ReadClone \/ Await \/ Complete \/ EndCycle
  BY <1>7 DEF Defer, Begin, ReadClone, Await, Complete, EndCycle
<1>8. CASE (\E v \in Revisions : Push(v)) \/ UNCHANGED vars
  BY <1>8 DEF Push, vars, pveVars
<1> QED BY <1>3, <1>4, <1>5, <1>6, <1>7, <1>8 DEF Next, Agent, Execute, Environment

(* A task takes effect on one guest.                                       *)
LEMMA Effect ==
    ASSUME TaskInv, NEW t \in Task, Sound(t.act), Fits(t.op, t.act), TakesEffect(t)
    PROVE  /\ t.op = "download" => pve' = pve
           /\ t.op # "download" =>
                 /\ SlotAt(t.act) \in Slot
                 /\ pve' = [pve EXCEPT ![SlotAt(t.act)] = After(t)]
                 /\ pve'[SlotAt(t.act)] = After(t)
BY TaskSlots DEF TakesEffect, TaskInv

(* What a task holds is left alone by everything but the task.             *)
LEMMA HeldIsKept ==
    ASSUME IInv, [Next]_vars, NEW u \in running, u \in running', NEW s \in Holds(u)
    PROVE  pve'[s] = pve[s]
<1>1. TaskInv /\ s \in Slot
  <2>1. TaskInv /\ u \in Task /\ Sound(u.act) /\ Fits(u.op, u.act)
    BY DEF IInv, TaskInv
  <2> QED BY <2>1, TaskSlots DEF Holds
<1>2. ASSUME NEW t \in Task, Sound(t.act), Fits(t.op, t.act), TakesEffect(t),
             Holds(t) \intersect Holds(u) = {}
      PROVE  pve'[s] = pve[s]
  <2>1. CASE t.op = "download"
    BY <1>1, <1>2, <2>1, Effect
  <2>2. CASE t.op # "download"
    <3>1. SlotAt(t.act) # s
      BY <1>2, <2>2, TaskSlots
    <3>2. pve' = [pve EXCEPT ![SlotAt(t.act)] = After(t)]
      BY <1>1, <1>2, <2>2, Effect
    <3> QED BY <1>1, <3>1, <3>2 DEF TaskInv
  <2> QED BY <2>1, <2>2
<1>3. ASSUME NEW t \in Task, Accepted(t) PROVE pve'[s] = pve[s]
  <2>1. Holds(t) \intersect Holds(u) = {}
    BY <1>3 DEF Accepted, Accepts, Held
  <2>2. TakesEffect(t) \/ pve' = pve
    BY <1>3 DEF Accepted, Accept
  <2> QED BY <1>2, <1>3, <2>1, <2>2 DEF Accepted
<1>4. ASSUME NEW t \in running, Ended(t) PROVE pve'[s] = pve[s]
  <2>1. t # u
    BY <1>4 DEF Ended
  <2>2. Holds(t) \intersect Holds(u) = {} /\ t \in Task /\ Sound(t.act) /\ Fits(t.op, t.act)
    BY <1>1, <2>1 DEF TaskInv
  <2> QED BY <1>2, <1>4, <2>2 DEF Ended
<1>5. ASSUME NEW x \in Slot, Disturb(x) PROVE pve'[s] = pve[s]
  <2>1. x # s
    BY <1>5 DEF Disturb, Held
  <2> QED BY <1>1, <1>5, <2>1 DEF Disturb, TaskInv
<1> QED BY <1>3, <1>4, <1>5, PveCases DEF pveVars

(* What a task that may take effect makes of a guest.                      *)
LEMMA AfterFields ==
    ASSUME TaskInv, NEW t \in Task, t.op # "download",
           Sound(t.act), Fits(t.op, t.act), Possible(t)
    PROVE  /\ t.op = "create" => After(t).type = PveType(t.act.kind)
           /\ t.op = "clone" => After(t).type = "VM"
           /\ t.op = "delete" => After(t) = NoGuest
           /\ t.op # "delete" => After(t) \in Guest
           /\ t.op \notin {"create", "clone", "delete"} =>
                 LET g == pve[SlotAt(t.act)]
                 IN  /\ g \in Guest
                     /\ After(t).type = g.type /\ After(t).name = g.name
                     /\ g.tagged => After(t).tagged
<1> DEFINE g == pve[SlotAt(t.act)]
<1>1. After(t) \in Guest \union {NoGuest}
  BY AfterType, PossibleApplies DEF TaskInv
<1>2. /\ SlotAt(t.act) \in Slot /\ g \in Guest \union {NoGuest}
      /\ t.op = "clone" => SourceAt(t.act) \in Slot
  BY TaskSlots DEF TaskInv
<1>3. \A x \in Guest : x.type # NoGuest.type
  BY DEF Guest, NoGuest
<1>4. CASE t.op = "create"
  <2>1. After(t).type = PveType(t.act.kind)
    BY <1>4 DEF After, Created
  <2>2. PveType(t.act.kind) # NoGuest.type
    BY DEF PveType, NoGuest
  <2> QED BY <1>1, <1>4, <2>1, <2>2
<1>5. CASE t.op = "clone"
  <2>1. pve[SourceAt(t.act)] \in Guest /\ pve[SourceAt(t.act)].type = "VM"
    BY <1>2, <1>5 DEF Possible, TaskInv
  <2>2. After(t).type = "VM"
    BY <1>5, <2>1 DEF After, Cloned, Guest
  <2>3. "VM" # NoGuest.type
    BY DEF NoGuest
  <2> QED BY <1>1, <1>5, <2>2, <2>3
<1>6. CASE t.op = "delete"
  BY <1>6 DEF After
<1>7. CASE t.op \in {"config", "start", "stop", "mark"}
  <2>1. g \in Guest
    BY <1>2, <1>7 DEF Possible, IsPower, Exists
  <2>2. /\ After(t).type = g.type /\ After(t).name = g.name
        /\ g.tagged => After(t).tagged
    BY <1>7, <2>1 DEF After, Configured, Guest
  <2> QED BY <1>1, <1>3, <1>7, <2>1, <2>2
<1> QED BY <1>4, <1>5, <1>6, <1>7 DEF Task, Writes

-----------------------------------------------------------------------------
(* Wanted writes.                                                          *)

(* Every planned write is asked for by the tree it was planned from.       *)
AimInv ==
    /\ Planned # {} => tree \in Applicable
    /\ \A a \in Planned : a.what # "delete" => Asks(tree, a)

(* What PVE checked when it accepted a task still holds, and a write is    *)
(* asked for by some revision.                                             *)
HeldInv == \A t \in running : Possible(t) /\ Wanted(t.act)

(* A plan dies or stays as it is, unless it is made.                       *)
LEMMA PlanCases ==
    ASSUME IInv, [Next]_vars
    PROVE  \/ Planned' = {}
           \/ Planned' = Planned /\ tree' = tree
           \/ PlanCycle
<1>1. PlanInv' /\ PlanInv /\ ExecInv
  BY ExecStep DEF IInv
<1>2. CASE Sync \/ SyncFails \/ Load
  <2>1. phase' # "exec"
    BY <1>2 DEF Sync, SyncFails, StartCycle, Load, List, ListFails, ReadConfig,
       ReadConfigFails, ReadStatus, ProbeStorage
  <2> QED BY <1>1, <2>1 DEF PlanInv
<1>3. CASE EndCycle \/ Crash
  <2>1. phase' # "exec"
    BY <1>3 DEF EndCycle, Crash
  <2> QED BY <1>1, <2>1 DEF PlanInv
<1>4. CASE Execute /\ ~EndCycle
  <2>1. Planned' = Planned
    BY <1>1, <1>4, DeferKeeps, BeginKeeps, IssueKeeps, OtherCallKeeps,
       AwaitKeeps, CompleteKeeps DEF Execute
  <2>2. tree' = tree
    BY <1>4 DEF Execute, Defer, Begin, Issue, ReadClone, Settle, Await, Complete,
       gitVars
  <2> QED BY <2>1, <2>2
<1>5. CASE PveStep \/ Environment \/ UNCHANGED vars
  <2>1. UNCHANGED <<todo, cur, results, tree>>
    BY <1>5 DEF PveStep, TaskSucceeds, TaskFails, Ends, Environment, Push, Disturb,
       gitVars, execVars, vars
  <2> QED BY <2>1 DEF Planned
<1> QED BY <1>2, <1>3, <1>4, <1>5 DEF Next, Agent

(* A plan keeps the tree it was made from for as long as it lives.         *)
LEMMA AimStep ==
    ASSUME IInv, AimInv, [Next]_vars
    PROVE  AimInv'
<1>1. CASE Planned' = {}
  BY <1>1 DEF AimInv
<1>2. CASE Planned' = Planned /\ tree' = tree
  BY <1>2 DEF AimInv
<1>3. CASE PlanCycle
  <2>1. PICK kept : todo' = PlanOf(inv, tree, kept)
    BY <1>3 DEF PlanCycle
  <2>2. Planned = {} /\ tree \in Applicable /\ tree \in Parses
    BY <1>3 DEF PlanCycle, IInv, PlanInv, GitInv, Applicable, Desired
  <2>3. Planned' = todo' /\ tree' = tree
    BY <1>3, <2>2 DEF PlanCycle, Planned, gitVars
  <2> QED BY <2>1, <2>2, <2>3, PlanAsks DEF AimInv
<1> QED BY <1>1, <1>2, <1>3, PlanCases

(* What a call that PVE accepts is asked for.                              *)
LEMMA AcceptedWanted ==
    ASSUME AimInv, NEW t \in Task, Accepted(t)
    PROVE  Possible(t) /\ Wanted(t.act)
BY DEF AimInv, Accepted, Accepts, Wanted

(* The preconditions of a task are about the guests it holds.              *)
LEMMA PossibleStable ==
    ASSUME NEW u \in Task, Sound(u.act), Fits(u.op, u.act), Possible(u),
           \A s \in Holds(u) : pve'[s] = pve[s]
    PROVE  Possible(u)'
<1>1. CASE u.op = "download"
  BY <1>1 DEF Possible
<1>2. CASE u.op # "download"
  <2>1. pve'[SlotAt(u.act)] = pve[SlotAt(u.act)]
    BY <1>2, TaskSlots
  <2>2. u.op = "clone" => pve'[SourceAt(u.act)] = pve[SourceAt(u.act)]
    BY <1>2, TaskSlots
  <2> QED BY <1>2, <2>1, <2>2 DEF Possible, IsPower, Exists, SlotAt, SourceAt
<1> QED BY <1>1, <1>2

(* Its guests are left alone until it ends.                                *)
LEMMA HeldStep ==
    ASSUME IInv, AimInv, HeldInv, [Next]_vars
    PROVE  HeldInv'
<1>1. TaskInv
  BY DEF IInv
<1>2. ASSUME NEW u \in running', u \in running PROVE Possible(u)' /\ Wanted(u.act)
  <2>1. u \in Task /\ Sound(u.act) /\ Fits(u.op, u.act) /\ Possible(u) /\ Wanted(u.act)
    BY <1>1, <1>2 DEF TaskInv, HeldInv
  <2>2. \A s \in Holds(u) : pve'[s] = pve[s]
    BY <1>2, HeldIsKept
  <2> QED BY <2>1, <2>2, PossibleStable
<1>3. ASSUME NEW u \in running', u \notin running PROVE Possible(u)' /\ Wanted(u.act)
  <2>1. \/ running' = running
        \/ \E t \in Task : Accepted(t)
        \/ \E t \in running : running' = running \ {t}
    BY PveCases DEF pveVars, Ended, Disturb
  <2>2. PICK t \in Task : Accepted(t)
    BY <1>3, <2>1
  <2>3. u = t /\ pve' = pve
    BY <1>3, <2>2 DEF Accepted, Accept
  <2>4. Possible(t)' <=> Possible(t)
    BY <2>3 DEF Possible, IsPower, Exists
  <2> QED BY <2>2, <2>3, <2>4, AcceptedWanted
<1> QED BY <1>2, <1>3 DEF HeldInv, Wanted

-----------------------------------------------------------------------------
(* Deletes.                                                                *)

(* Other people leave the kinds, names and tags of guests alone.           *)
Tame == Disturbances \subseteq {"delete", "power", "edit"}
Trust == Tame \/ edits = 0

(* A guest of type k at s can only be the tagged one of that name.         *)
Kept(s, k, n) ==
    /\ pve[s].type = k => pve[s].tagged /\ pve[s].name = n
    /\ \A t \in running :
          t.op \in {"create", "clone"} /\ SlotAt(t.act) = s => PveType(t.act.kind) # k

Unclaimed(s, k, n) == \E v \in Applicable : ~Claimed(v, s, [type |-> k, name |-> n])

(* What the loader read of a tagged guest; what is to be deleted; and what *)
(* is being deleted, or stopped first.                                     *)
ReadKept ==
    phase = "read" =>
        \A s \in Slot : inv.cfg[s] # NoGuest /\ inv.cfg[s].tagged =>
                           Kept(s, inv.cfg[s].type, inv.cfg[s].name)

DoomedKept ==
    \A d \in Planned : d.what = "delete" =>
        \E n \in Names : Kept(SlotAt(d), d.kind, n) /\ Unclaimed(SlotAt(d), d.kind, n)

DyingKept ==
    \A t \in running : t.act.what = "delete" =>
        LET g == pve[SlotAt(t.act)]
        IN  g \in Guest /\ g.tagged /\ Unclaimed(SlotAt(t.act), g.type, g.name)

SpareInv == Trust => ReadKept /\ DoomedKept /\ DyingKept

(* Only VMs are cloned.                                                    *)
LEMMA ClonesAreVMs ==
    ASSUME NEW a, Sound(a), a.what # "delete", Wanted(a), a.kind \notin ArtifactKinds,
           a.src # 0
    PROVE  PveType(a.kind) = "VM"
<1>1. PICK v \in Applicable : AsksGuest(v, a)
  BY DEF Wanted, Asks
<1>2. a.res \in Manifests[v] /\ a.res.clone # NoRef /\ v \in Parses
  BY <1>1 DEF AsksGuest, Applicable, Guests
<1>3. Validate(a.res)
  BY <1>2 DEF Parses, ValidIndex
<1> QED BY <1>2, <1>3 DEF Validate, Sound, PveType

(* A wanted write never turns a guest into an untagged one, nor into       *)
(* another of the same type, unless it makes it.                           *)
LEMMA EffectKept ==
    ASSUME TaskInv, NEW t \in Task, Sound(t.act), Fits(t.op, t.act), Possible(t),
           Wanted(t.act), TakesEffect(t),
           NEW s \in Slot, NEW k \in {"VM", "LXC"}, NEW n,
           pve[s].type = k => pve[s].tagged /\ pve[s].name = n,
           t.op \in {"create", "clone"} /\ SlotAt(t.act) = s => PveType(t.act.kind) # k
    PROVE  pve'[s].type = k => pve'[s].tagged /\ pve'[s].name = n
<1>1. CASE t.op = "download"
  BY <1>1, Effect
<1>2. CASE t.op # "download" /\ SlotAt(t.act) # s
  <2>1. pve' = [pve EXCEPT ![SlotAt(t.act)] = After(t)]
    BY <1>2, Effect
  <2> QED BY <1>2, <2>1 DEF TaskInv
<1>3. CASE t.op # "download" /\ SlotAt(t.act) = s
  <2>1. pve'[s] = After(t)
    BY <1>3, Effect
  <2>2. t.op = "clone" => k # "VM"
    BY <1>3, ClonesAreVMs DEF Fits
  <2>3. NoGuest.type # k
    BY DEF NoGuest
  <2> QED BY <1>3, <2>1, <2>2, <2>3, AfterFields
<1> QED BY <1>1, <1>2, <1>3

(* Whoever moves a guest that others may move keeps its name and tags.     *)
LEMMA DisturbKept ==
    ASSUME TaskInv, Tame, NEW x \in Slot, Disturb(x),
           NEW s \in Slot, NEW k \in {"VM", "LXC"}, NEW n,
           pve[s].type = k => pve[s].tagged /\ pve[s].name = n
    PROVE  pve'[s].type = k => pve'[s].tagged /\ pve'[s].name = n
<1>1. PICK g \in Disturbed(x) : pve' = [pve EXCEPT ![x] = g]
  BY DEF Disturb
<1>2. CASE x # s
  BY <1>1, <1>2 DEF TaskInv
<1>3. CASE x = s
  <2>1. pve'[s] = g /\ pve[s] \in Guest \union {NoGuest}
    BY <1>1, <1>3 DEF TaskInv
  <2>2. NoGuest.type # k
    BY DEF NoGuest
  <2>3. pve[s] # NoGuest
    BY <1>1, <1>3 DEF Disturbed, Tame
  <2>4. \/ g = NoGuest
        \/ \E p \in {"running", "stopped"} : g = [pve[s] EXCEPT !.power = p]
        \/ \E c \in Values : g = [pve[s] EXCEPT !.cold = c]
    BY <1>1, <1>3, <2>3 DEF Disturbed, Tame
  <2>5. \/ g = NoGuest
        \/ g.type = pve[s].type /\ g.name = pve[s].name /\ g.tagged = pve[s].tagged
    BY <2>1, <2>3, <2>4 DEF Guest
  <2> QED BY <2>1, <2>2, <2>5
<1> QED BY <1>2, <1>3

(* A guest that can only be the one that was read stays so, as long as the *)
(* action in hand does not make another of its type.                       *)
LEMMA KeptStep ==
    ASSUME IInv, AimInv, HeldInv, [Next]_vars, Trust',
           NEW s \in Slot, NEW k \in {"VM", "LXC"}, NEW n, Kept(s, k, n),
           cur \in Planned /\ cur.what # "delete" /\ cur.kind \notin ArtifactKinds
             /\ SlotAt(cur) = s => PveType(cur.kind) # k
    PROVE  Kept(s, k, n)'
<1>1. TaskInv /\ BoundsInv
  BY DEF IInv
<1>2. CASE UNCHANGED pveVars
  BY <1>2 DEF pveVars, Kept
<1>3. ASSUME NEW t \in Task, Accepted(t) PROVE Kept(s, k, n)'
  <2>1. Possible(t) /\ Wanted(t.act) /\ Sound(t.act) /\ Fits(t.op, t.act)
    BY <1>3, AcceptedWanted DEF Accepted
  <2>2. t.op \in {"create", "clone"} /\ SlotAt(t.act) = s => PveType(t.act.kind) # k
    <3>1. t.act = cur /\ cur \in Planned
      BY <1>3 DEF Accepted
    <3>2. t.op \in {"create", "clone"} => cur.what # "delete" /\ cur.kind \notin ArtifactKinds
      BY <2>1, <3>1 DEF Fits
    <3> QED BY <3>1, <3>2
  <2>3. CASE IsSynchronous(t)
    <3>1. TakesEffect(t) /\ running' = running
      BY <1>3, <2>3 DEF Accepted, Accept
    <3>2. pve[s].type = k => pve[s].tagged /\ pve[s].name = n
      BY DEF Kept
    <3>3. pve'[s].type = k => pve'[s].tagged /\ pve'[s].name = n
      BY <1>1, <2>1, <2>2, <3>1, <3>2, EffectKept
    <3> QED BY <3>1, <3>2, <3>3 DEF Kept
  <2>4. CASE ~IsSynchronous(t)
    <3>1. running' = running \union {t} /\ pve' = pve
      BY <1>3, <2>4 DEF Accepted, Accept
    <3>2. pve'[s] = pve[s]
      BY <3>1
    <3> QED BY <2>2, <3>1, <3>2 DEF Kept
  <2> QED BY <2>3, <2>4
<1>4. ASSUME NEW t \in running, Ended(t) PROVE Kept(s, k, n)'
  <2>1. /\ t \in Task /\ Sound(t.act) /\ Fits(t.op, t.act) /\ Possible(t) /\ Wanted(t.act)
        /\ running' \subseteq running
    BY <1>1, <1>4 DEF TaskInv, HeldInv, Ended
  <2>2. CASE TakesEffect(t)
    <3>1. /\ pve[s].type = k => pve[s].tagged /\ pve[s].name = n
          /\ t.op \in {"create", "clone"} /\ SlotAt(t.act) = s => PveType(t.act.kind) # k
      BY <1>4 DEF Kept
    <3>2. pve'[s].type = k => pve'[s].tagged /\ pve'[s].name = n
      BY <1>1, <2>1, <2>2, <3>1, EffectKept
    <3> QED BY <2>1, <3>2 DEF Kept
  <2>3. CASE UNCHANGED <<pve, storage>>
    BY <2>1, <2>3 DEF Kept
  <2> QED BY <1>4, <2>2, <2>3 DEF Ended
<1>5. ASSUME NEW x \in Slot, Disturb(x) PROVE Kept(s, k, n)'
  <2>1. Tame
    BY <1>1, <1>5 DEF Trust, Disturb, BoundsInv
  <2>2. running' = running
    BY <1>5 DEF Disturb
  <2> QED BY <1>1, <1>5, <2>1, <2>2, DisturbKept DEF Kept
<1> QED BY <1>2, <1>3, <1>4, <1>5, PveCases

(* Of a guest, only its type and name tell whether it is claimed.          *)
LEMMA ClaimedFields ==
    ASSUME NEW v, NEW s, NEW o, NEW q, o.type = q.type, o.name = q.name
    PROVE  Claimed(v, s, o) <=> Claimed(v, s, q)
BY DEF Claimed

(* A config that is read is that of the guest that is there.               *)
LEMMA ReadKeptStep ==
    ASSUME IInv, AimInv, HeldInv, SpareInv, [Next]_vars, Trust'
    PROVE  ReadKept'
<1>1. TaskInv /\ LoadInv /\ BoundsInv /\ Trust
  <2>1. TaskInv /\ LoadInv /\ BoundsInv
    BY DEF IInv
  <2>2. edits' = edits \/ edits' = edits + 1
    BY PveCases DEF Accepted, Ended, Disturb
  <2> QED BY <2>1, <2>2 DEF Trust, BoundsInv
<1>2. CASE phase' # "read"
  BY <1>2 DEF ReadKept
<1>3. CASE List
  <2>1. \A s \in Slot : inv'.cfg[s] = NoGuest
    BY <1>3 DEF List, NoInventory
  <2> QED BY <2>1 DEF ReadKept
<1>4. ASSUME phase = "read", phase' = "read",
             NEW s \in Slot, inv.cfg[s] # NoGuest, inv.cfg[s].tagged,
             inv'.cfg[s] = inv.cfg[s]
      PROVE  Kept(s, inv.cfg[s].type, inv.cfg[s].name)'
  <2>1. PICK k \in {"VM", "LXC"}, n \in Names :
         inv.cfg[s].type = k /\ inv.cfg[s].name = n
    BY <1>1, <1>4 DEF LoadInv, Inventory, Guest
  <2>2. Kept(s, k, n)
    BY <1>1, <1>4, <2>1 DEF SpareInv, ReadKept
  <2>3. cur \notin Planned
    BY <1>4 DEF IInv, PlanInv
  <2>4. Kept(s, k, n)'
    BY <1>1, <2>2, <2>3, KeptStep
  <2> QED BY <1>4, <2>1, <2>4
<1>5. CASE phase = "read" /\ phase' = "read" /\ inv'.cfg = inv.cfg
  BY <1>4, <1>5 DEF ReadKept
<1>6. ASSUME NEW x \in Slot, ReadConfig(x) PROVE ReadKept'
  <2>1. phase = "read" /\ phase' = "read" /\ UNCHANGED <<pve, running>>
    BY <1>6 DEF ReadConfig, pveVars
  <2>2. ASSUME NEW s \in Slot, inv'.cfg[s] # NoGuest, inv'.cfg[s].tagged
        PROVE  Kept(s, inv.cfg[s].type, inv.cfg[s].name)'
    <3>1. CASE inv'.cfg[s] = inv.cfg[s]
      BY <1>4, <2>1, <2>2, <3>1
    <3>2. CASE inv'.cfg[s] # inv.cfg[s]
      <4>1. inv'.cfg[s] = pve[s] /\ pve[s] # NoGuest
        <5>1. inv' = [inv EXCEPT !.cfg[x] = pve[x]] \/ inv' = inv
          BY <1>6 DEF ReadConfig
        <5>2. inv.cfg \in [Slot -> Guest \union {NoGuest}] /\ "cfg" \in DOMAIN inv
          BY <1>1 DEF LoadInv, Inventory
        <5>3. inv'.cfg = [inv.cfg EXCEPT ![x] = pve[x]]
          BY <1>1, <3>2, <5>1 DEF LoadInv, Inventory
        <5> QED BY <2>2, <3>2, <5>2, <5>3
      <4>2. ASSUME NEW t \in running, t.op \in {"create", "clone"}, SlotAt(t.act) = s
            PROVE  FALSE
        BY <4>1, <4>2 DEF HeldInv, Possible
      <4>3. pve'[s] = pve[s] /\ running' = running
        BY <2>1
      <4> QED BY <2>2, <4>1, <4>2, <4>3 DEF Kept
    <3> QED BY <3>1, <3>2
  <2> QED BY <2>2 DEF ReadKept
<1>7. CASE Sync \/ SyncFails \/ ListFails \/ PlanCycle \/ Execute \/ Crash
  BY <1>2, <1>5, <1>7 DEF Sync, SyncFails, StartCycle, ListFails, PlanCycle, Crash,
     Execute, Defer, Begin, Issue, ReadClone, Settle, Await, Complete, EndCycle,
     loadVars, gitVars
<1>8. CASE \/ \E s \in Slot : ReadConfigFails(s) \/ ReadStatus(s)
           \/ \E f \in probes : ProbeStorage(f)
  <2>1. inv'.cfg = inv.cfg /\ phase = "read" /\ phase' = "read"
    BY <1>1, <1>8 DEF ReadConfigFails, ReadStatus, ProbeStorage, LoadInv, Inventory
  <2> QED BY <1>5, <2>1
<1>9. CASE PveStep \/ Environment \/ UNCHANGED vars
  <2>1. inv' = inv /\ phase' = phase
    BY <1>9 DEF PveStep, TaskSucceeds, TaskFails, Ends, Environment, Push, Disturb,
       loadVars, vars
  <2> QED BY <1>2, <1>5, <2>1
<1> QED BY <1>3, <1>6, <1>7, <1>8, <1>9 DEF Next, Agent, Load

(* The deletes of a plan are the guests that were read, and nothing that   *)
(* the same plan writes.                                                   *)
LEMMA DoomedKeptStep ==
    ASSUME IInv, AimInv, HeldInv, SpareInv, [Next]_vars, Trust, Trust'
    PROVE  DoomedKept'
<1>1. CASE Planned' = {}
  BY <1>1 DEF DoomedKept
<1>2. CASE Planned' = Planned
  <2>1. ASSUME NEW d \in Planned, d.what = "delete"
        PROVE  \E n \in Names : Kept(SlotAt(d), d.kind, n)' /\ Unclaimed(SlotAt(d), d.kind, n)
    <3>1. /\ Sound(d) /\ d.kind \in {"VM", "LXC"} /\ SlotAt(d) \in Slot
          /\ \A a \in Planned : Sound(a)
      BY <2>1 DEF IInv, PlanInv, Sound, Action, SlotAt, Slot
    <3>2. PICK n \in Names : Kept(SlotAt(d), d.kind, n) /\ Unclaimed(SlotAt(d), d.kind, n)
      BY <2>1 DEF SpareInv, DoomedKept
    <3>3. ASSUME cur \in Planned, cur.what # "delete", cur.kind \notin ArtifactKinds,
                 SlotAt(cur) = SlotAt(d)
          PROVE  PveType(cur.kind) # d.kind
      <4>1. cur.res \in Guests(Desired) /\ SlotOf(cur.res) = SlotAt(d)
        BY <3>3 DEF AimInv, Asks, AsksGuest, Desired
      <4>2. cur.kind = cur.res.ref.kind
        BY <3>1, <3>3 DEF Sound
      <4> QED BY <2>1, <4>1, <4>2 DEF IInv, PlanInv, KeepsDesired
    <3>4. PICK s, k : s = SlotAt(d) /\ k = d.kind
      OBVIOUS
    <3>5. Kept(s, k, n)'
      BY <3>1, <3>2, <3>3, <3>4, KeptStep
    <3> QED BY <3>2, <3>4, <3>5
  <2> QED BY <1>2, <2>1 DEF DoomedKept, Unclaimed
<1>3. CASE PlanCycle
  <2>1. /\ phase = "read" /\ tree \in Applicable /\ tree \in Parses
        /\ OnAllowedNodes(Manifests[tree]) /\ Planned = {} /\ inv \in Inventory
    BY <1>3 DEF PlanCycle, IInv, PlanInv, GitInv, LoadInv, Applicable, Desired
  <2>2. PICK kept \in SUBSET Prunable(inv, tree) : todo' = PlanOf(inv, tree, kept)
    BY <1>3 DEF PlanCycle
  <2>3. Planned' = todo' /\ UNCHANGED <<pve, running>>
    BY <1>3, <2>1 DEF PlanCycle, Planned, pveVars
  <2>4. ASSUME NEW d \in todo', d.what = "delete"
        PROVE  \E n \in Names : Kept(SlotAt(d), d.kind, n)' /\ Unclaimed(SlotAt(d), d.kind, n)
    <3>1. PICK s \in kept : d = Prune(inv, s)
      BY <2>1, <2>2, <2>4, WritesSound DEF PlanOf, IsSoundWrite
    <3>2. /\ s \in Slot /\ inv.cfg[s] # NoGuest /\ inv.cfg[s].tagged
          /\ ~Claimed(tree, s, inv.cfg[s])
      BY <3>1 DEF Prunable, Orphans
    <3>3. SlotAt(d) = s /\ d.kind = inv.cfg[s].type
      BY <2>1, <3>1, PruneSound DEF Prune
    <3>4. inv.cfg[s].name \in Names
      BY <2>1, <3>2 DEF Inventory, Guest
    <3>5. Kept(s, inv.cfg[s].type, inv.cfg[s].name)
      BY <2>1, <3>2 DEF SpareInv, ReadKept
    <3>6. PICK k, n : k = inv.cfg[s].type /\ n = inv.cfg[s].name
      OBVIOUS
    <3>7. Kept(s, k, n)'
      BY <2>3, <3>5, <3>6 DEF Kept
    <3>8. Unclaimed(s, k, n)
      BY <2>1, <3>2, <3>6, ClaimedFields DEF Unclaimed
    <3> QED BY <3>3, <3>4, <3>6, <3>7, <3>8
  <2> QED BY <2>3, <2>4 DEF DoomedKept, Unclaimed
<1> QED BY <1>1, <1>2, <1>3, PlanCases

(* A call for a delete finds the guest that is doomed.                     *)
LEMMA DyingKeptStep ==
    ASSUME IInv, AimInv, HeldInv, SpareInv, [Next]_vars, Trust
    PROVE  DyingKept'
<1>1. ASSUME NEW t \in running', t.act.what = "delete"
      PROVE  LET g == pve'[SlotAt(t.act)]
             IN  g \in Guest /\ g.tagged /\ Unclaimed(SlotAt(t.act), g.type, g.name)
  <2>1. CASE t \in running
    <3>1. t \in Task /\ Sound(t.act) /\ Fits(t.op, t.act)
      BY <2>1 DEF IInv, TaskInv
    <3>2. t.op # "download"
      BY <1>1, <3>1 DEF Fits
    <3>3. SlotAt(t.act) \in Holds(t)
      BY <3>2 DEF Holds
    <3>4. pve'[SlotAt(t.act)] = pve[SlotAt(t.act)]
      BY <1>1, <2>1, <3>3, HeldIsKept
    <3> QED BY <1>1, <2>1, <3>4 DEF SpareInv, DyingKept
  <2>2. CASE t \notin running
    <3>1. \/ running' = running
          \/ \E u \in Task : Accepted(u)
          \/ \E u \in running : running' = running \ {u}
      BY PveCases DEF pveVars, Ended, Disturb
    <3>2. PICK u \in Task : Accepted(u)
      BY <1>1, <2>2, <3>1
    <3>3. u = t /\ pve' = pve
      BY <1>1, <2>2, <3>2 DEF Accepted, Accept
    <3>4. /\ t \in Task /\ t.act \in Planned /\ Sound(t.act) /\ Fits(t.op, t.act)
          /\ Possible(t)
      BY <3>2, <3>3 DEF Accepted, Accepts
    <3>5. t.act.kind \in {"VM", "LXC"} /\ PveType(t.act.kind) = t.act.kind
      BY <1>1, <3>4 DEF Sound, PveType
    <3>6. t.op \in {"stop", "delete"}
      BY <1>1, <3>4, <3>5 DEF Fits, TemplateKinds, Task, Writes
    <3>7. /\ pve[SlotAt(t.act)] # NoGuest /\ pve[SlotAt(t.act)].type = t.act.kind
          /\ pve[SlotAt(t.act)] \in Guest \union {NoGuest}
      <4>1. IsPower(t.act, IF t.op = "stop" THEN "running" ELSE "stopped")
        BY <3>4, <3>6 DEF Possible
      <4>2. SlotAt(t.act) \in Slot
        BY <1>1, <3>4 DEF Sound, Action, SlotAt, Slot
      <4> QED BY <3>5, <4>1, <4>2 DEF IsPower, Exists, IInv, TaskInv
    <3>8. PICK n \in Names : Kept(SlotAt(t.act), t.act.kind, n)
                             /\ Unclaimed(SlotAt(t.act), t.act.kind, n)
      BY <1>1, <3>4 DEF SpareInv, DoomedKept
    <3> QED BY <3>3, <3>7, <3>8 DEF Kept
  <2> QED BY <2>1, <2>2
<1> QED BY <1>1 DEF DyingKept, Unclaimed

(* Once others may have retagged a guest, nothing is known of deletes; it  *)
(* is never known again.                                                   *)
LEMMA TrustStep ==
    ASSUME IInv, [Next]_vars, Trust'
    PROVE  Trust
<1>1. edits \in Nat /\ (edits' = edits \/ edits' = edits + 1)
  BY PveCases DEF Accepted, Ended, Disturb, IInv, BoundsInv
<1> QED BY <1>1 DEF Trust

PromiseInv == IInv /\ AimInv /\ HeldInv /\ SpareInv

(* The invariant is inductive.                                             *)
LEMMA PromiseInvariant == Spec => []PromiseInv
<1>1. Init => PromiseInv
  BY InitIInv DEF Init, PromiseInv, AimInv, HeldInv, SpareInv, ReadKept, DoomedKept,
     DyingKept, Planned
<1>2. PromiseInv /\ [Next]_vars => PromiseInv'
  <2> SUFFICES ASSUME PromiseInv, [Next]_vars PROVE PromiseInv'
    OBVIOUS
  <2>1. IInv'
    BY GitStep, LoadStep, ExecStep, TaskStep, BoundsStep DEF IInv, PromiseInv
  <2>2. AimInv' /\ HeldInv'
    BY AimStep, HeldStep DEF PromiseInv
  <2>3. SpareInv'
    BY TrustStep, ReadKeptStep, DoomedKeptStep, DyingKeptStep DEF PromiseInv, SpareInv
  <2> QED BY <2>1, <2>2, <2>3 DEF PromiseInv
<1> QED BY <1>1, <1>2, PTL DEF Spec

-----------------------------------------------------------------------------
(* Every change to PVE is the effect of a task, which was wanted or which  *)
(* deletes a guest that is still the one that was read; or others made it. *)

Effective(t) ==
    /\ Sound(t.act) /\ Fits(t.op, t.act) /\ Possible(t) /\ Wanted(t.act)
    /\ t.act.what = "delete" /\ Trust =>
          LET g == pve[SlotAt(t.act)]
          IN  g \in Guest /\ g.tagged /\ Unclaimed(SlotAt(t.act), g.type, g.name)
    /\ TakesEffect(t) /\ edits' = edits

(* What a step does to guests and files.                                   *)
LEMMA EffectCases ==
    ASSUME PromiseInv, [Next]_vars
    PROVE  \/ UNCHANGED <<pve, storage, edits>>
           \/ \E t \in Task : Effective(t)
           \/ \E s \in Slot : Disturb(s)
<1>1. TaskInv /\ HeldInv /\ AimInv /\ (Trust => DyingKept)
  BY DEF PromiseInv, IInv, SpareInv
<1>2. ASSUME NEW t \in Task, Accepted(t)
      PROVE  UNCHANGED <<pve, storage, edits>> \/ Effective(t)
  <2>1. Sound(t.act) /\ Fits(t.op, t.act) /\ Possible(t) /\ Wanted(t.act) /\ edits' = edits
    BY <1>1, <1>2, AcceptedWanted DEF Accepted
  <2>2. CASE IsSynchronous(t)
    <3>1. t.act.what # "delete"
      BY <2>1, <2>2 DEF IsSynchronous, Fits, Sound, TemplateKinds
    <3>2. TakesEffect(t)
      BY <1>2, <2>2 DEF Accepted, Accept
    <3> QED BY <2>1, <3>1, <3>2 DEF Effective
  <2>3. CASE ~IsSynchronous(t)
    BY <1>2, <2>1, <2>3 DEF Accepted, Accept
  <2> QED BY <2>2, <2>3
<1>3. ASSUME NEW t \in running, Ended(t)
      PROVE  UNCHANGED <<pve, storage, edits>> \/ Effective(t)
  <2>1. /\ Sound(t.act) /\ Fits(t.op, t.act) /\ Possible(t) /\ Wanted(t.act)
        /\ edits' = edits
    BY <1>1, <1>3 DEF TaskInv, HeldInv, Ended
  <2>2. TakesEffect(t) \/ UNCHANGED <<pve, storage>>
    BY <1>3 DEF Ended
  <2> QED BY <1>1, <1>3, <2>1, <2>2 DEF Effective, DyingKept
<1>4. running \subseteq Task
  BY <1>1 DEF TaskInv
<1>5. \/ UNCHANGED pveVars /\ edits' = edits
      \/ \E t \in Task : Accepted(t)
      \/ \E t \in running : Ended(t)
      \/ \E s \in Slot : Disturb(s)
  BY PveCases DEF PromiseInv
<1> QED BY <1>2, <1>3, <1>4, <1>5 DEF pveVars

(* An empty slot is no guest.                                              *)
LEMMA NotAGuest == NoGuest \notin Guest
<1>1. NoGuest.type # "VM" /\ NoGuest.type # "LXC"
  BY DEF NoGuest
<1> QED BY <1>1 DEF Guest

(* Where nobody else strips tags or replaces guests, the configs that the  *)
(* prune pass judged are still those of the guests that its deletes hit,   *)
(* across stale snapshots, lost answers, crashes and tasks left behind.    *)
THEOREM OnlyTaggedDestroyed ==
    ASSUME Disturbances \subseteq {"delete", "power", "edit"}
    PROVE  Spec => DestroysOnlyTagged
<1>1. PromiseInv /\ [Next]_vars =>
        [\A s \in Slot :
            pve[s] # NoGuest /\ pve'[s] = NoGuest /\ edits' = edits => pve[s].tagged]_vars
  <2> SUFFICES ASSUME PromiseInv, [Next]_vars, NEW s \in Slot,
                      pve[s] # NoGuest, pve'[s] = NoGuest, edits' = edits
               PROVE  pve[s].tagged
    OBVIOUS
  <2>1. TaskInv /\ edits \in Nat
    BY DEF PromiseInv, IInv, BoundsInv
  <2>2. ~\E x \in Slot : Disturb(x)
    BY <2>1 DEF Disturb
  <2>3. PICK t \in Task : Effective(t)
    BY <2>2, EffectCases
  <2>4. t.op # "download"
    BY <2>1, <2>3, Effect DEF Effective
  <2>5. SlotAt(t.act) = s /\ After(t) = NoGuest
    BY <2>1, <2>3, <2>4, Effect DEF Effective, TaskInv
  <2>6. t.op = "delete"
    BY <2>1, <2>3, <2>4, <2>5, AfterFields, NotAGuest DEF Effective
  <2>7. t.act.what = "delete" /\ Trust
    BY <2>3, <2>6 DEF Effective, Fits, Trust, Tame
  <2> QED BY <2>3, <2>5, <2>7 DEF Effective
<1> QED BY PromiseInvariant, <1>1, PTL DEF Spec, DestroysOnlyTagged

(* Nor is an untagged guest written to or stopped in a slot that no        *)
(* revision asked for: the writes of an action go to the slot of its       *)
(* manifest, and only the clean-up of a delete goes elsewhere.             *)
THEOREM UntaggedLeftAlone ==
    ASSUME Disturbances \subseteq {"delete", "power", "edit"}
    PROVE  Spec => HandsOff
<1>1. PromiseInv /\ [Next]_vars =>
        [\A s \in Slot \ EverDesired :
            pve[s] # NoGuest /\ ~pve[s].tagged /\ edits' = edits => pve'[s] = pve[s]]_vars
  <2> SUFFICES ASSUME PromiseInv, [Next]_vars, NEW s \in Slot \ EverDesired,
                      ~pve[s].tagged, edits' = edits, pve'[s] # pve[s]
               PROVE  FALSE
    BY DEF vars, pveVars
  <2>1. TaskInv /\ edits \in Nat
    BY DEF PromiseInv, IInv, BoundsInv
  <2>2. ~\E x \in Slot : Disturb(x)
    BY <2>1 DEF Disturb
  <2>3. PICK t \in Task : Effective(t)
    BY <2>2, EffectCases
  <2>4. t.op # "download"
    BY <2>1, <2>3, Effect DEF Effective
  <2>5. SlotAt(t.act) = s
    BY <2>1, <2>3, <2>4, Effect DEF Effective, TaskInv
  <2>6. t.act.what # "delete"
    BY <2>3, <2>5 DEF Effective, Trust, Tame
  <2>7. t.act.kind \notin ArtifactKinds
    BY <2>3, <2>4 DEF Effective, Fits
  <2>8. PICK v \in Applicable : AsksGuest(v, t.act)
    BY <2>3, <2>6, <2>7 DEF Effective, Wanted, Asks
  <2>9. v \in Parses /\ t.act.res \in Guests(Manifests[v]) /\ s = SlotOf(t.act.res)
    BY <2>5, <2>8 DEF AsksGuest, Applicable
  <2> QED BY <2>9 DEF EverDesired
<1> QED BY PromiseInvariant, <1>1, PTL DEF Spec, HandsOff

-----------------------------------------------------------------------------
LEMMA SafeCardinality == \A S : Safe!Cardinality(S) = Cardinality(S)
BY DEF Cardinality, Safe!Cardinality

(* What SafeCluster takes from Planner and Schema is what Reconcile takes  *)
(* from them.                                                              *)
LEMMA SafeKinds ==
    /\ Safe!Ref = Ref /\ Safe!NoRef = NoRef
    /\ Safe!ArtifactKinds = ArtifactKinds /\ Safe!TemplateKinds = TemplateKinds
    /\ Safe!NoGuest = NoGuest /\ Safe!Slot = Slot
    /\ Safe!Guest = Guest
    /\ Safe!File = File
    /\ \A k : Safe!PveType(k) = PveType(k)
    /\ \A n : Safe!NodeAllowed(n) <=> NodeAllowed(n)
BY DEF Ref, NoRef, GuestKinds, ArtifactKinds, TemplateKinds, NoGuest, Slot, Guest, File,
   PveType, NodeAllowed, Safe!PveType, Safe!NodeAllowed, Safe!Ref, Safe!NoRef,
   Safe!GuestKinds, Safe!ArtifactKinds, Safe!TemplateKinds,
   Safe!NoGuest, Safe!Slot, Safe!Guest, Safe!File

(* The same of resources,                                                  *)
LEMMA SafeResource ==
    ASSUME NEW r
    PROVE  /\ Safe!IsArtifact(r) <=> IsArtifact(r)
           /\ Safe!NodeOf(r) = NodeOf(r)
           /\ Safe!SlotOf(r) = SlotOf(r)
           /\ Safe!EdgesFor(r) = EdgesFor(r)
           /\ Safe!Validate(r) <=> Validate(r)
<1>1. Safe!IsArtifact(r) <=> IsArtifact(r)
  BY SafeKinds DEF IsArtifact, Safe!IsArtifact
<1>2. Safe!NodeOf(r) = NodeOf(r)
  BY DEF NodeOf, Safe!NodeOf
<1>3. Safe!SlotOf(r) = SlotOf(r)
  BY <1>2 DEF SlotOf, Safe!SlotOf
<1>4. Safe!EdgesFor(r) = EdgesFor(r)
  BY SafeKinds DEF EdgesFor, Safe!EdgesFor
<1>5. Safe!Validate(r) <=> Validate(r)
  BY SafeKinds, SafeCardinality, <1>1 DEF Validate, Safe!Validate
<1> QED BY <1>1, <1>2, <1>3, <1>4, <1>5

(* of indexes,                                                             *)
LEMMA SafeIndex ==
    ASSUME NEW D
    PROVE  /\ Safe!Guests(D) = Guests(D) /\ Safe!Artifacts(D) = Artifacts(D)
           /\ Safe!ValidIndex(D) <=> ValidIndex(D)
           /\ Safe!OnAllowedNodes(D) <=> OnAllowedNodes(D)
<1>1. Safe!Guests(D) = Guests(D) /\ Safe!Artifacts(D) = Artifacts(D)
  BY SafeResource DEF Guests, Safe!Guests, Artifacts, Safe!Artifacts
<1>2. Safe!Refs(D) = Refs(D)
  BY DEF Refs, Safe!Refs
<1>3. \A x : Safe!ByRef(D, x) = ByRef(D, x)
  BY DEF ByRef, Safe!ByRef
<1>4. Safe!ReferencesResolve(D) <=> ReferencesResolve(D)
  BY SafeKinds, SafeResource, <1>2, <1>3 DEF ReferencesResolve, Safe!ReferencesResolve
<1>5. Safe!Acyclic(D) <=> Acyclic(D)
  <2>1. \A S : Safe!Refs(S) = Refs(S)
    BY DEF Refs, Safe!Refs
  <2> QED BY SafeResource, <2>1 DEF Acyclic, Safe!Acyclic
<1>6. Safe!ValidIndex(D) <=> ValidIndex(D)
  BY SafeResource, <1>1, <1>4, <1>5 DEF ValidIndex, Safe!ValidIndex
<1>7. Safe!OnAllowedNodes(D) <=> OnAllowedNodes(D)
  BY SafeKinds DEF OnAllowedNodes, Safe!OnAllowedNodes
<1> QED BY <1>1, <1>6, <1>7

(* and of revisions and what they claim.                                   *)
LEMMA SafeApplicable == Safe!Applicable = Applicable
<1>1. Safe!Parses = Parses
  BY SafeIndex DEF Parses, Safe!Parses
<1> QED BY <1>1, SafeIndex DEF Applicable, Safe!Applicable

LEMMA SafeClaimed ==
    ASSUME NEW v, NEW s, NEW o
    PROVE  Safe!Claimed(v, s, o) <=> Claimed(v, s, o)
BY SafeKinds, SafeIndex, SafeResource DEF Claimed, Safe!Claimed

-----------------------------------------------------------------------------
(* Every effect is a step that SafeCluster allows.                         *)

Suited(r, s) == pve[s] # NoGuest /\ pve[s].type = PveType(r.ref.kind)

(* The manifest of a wanted write is declared at its slot.                 *)
LEMMA SafeWrites ==
    ASSUME NEW s \in Slot, NEW r, NEW v \in Applicable, r \in Guests(Manifests[v]),
           SlotOf(r) = s
    PROVE  /\ r \in Safe!DeclaredAt(s)
           /\ Safe!Suits(r, pve[s]) <=> Suited(r, s)
<1>1. Safe!Suits(r, pve[s]) <=> Suited(r, s)
  BY SafeKinds DEF Safe!Suits, Suited
<1>2. r \in UNION {Safe!Guests(Manifests[u]) : u \in Safe!Applicable}
  BY SafeApplicable, SafeIndex
<1> QED BY <1>1, <1>2, SafeResource DEF Safe!DeclaredAt

(* A task of an action that has a manifest does to its slot what           *)
(* SafeCluster lets that manifest do.                                      *)
LEMMA WriteAllowed ==
    ASSUME PromiseInv, NEW t \in Task, Effective(t),
           t.op # "download", t.act.what # "delete"
    PROVE  LET s == SlotAt(t.act)
               r == t.act.res
           IN  /\ s \in Slot /\ r \in Safe!DeclaredAt(s)
               /\ Safe!Written(s) \/ Safe!Stop(s)
<1> DEFINE a == t.act
           s == SlotAt(a)
           r == a.res
           g == pve[s]
<1>1. /\ Sound(a) /\ Fits(t.op, a) /\ Possible(t) /\ Wanted(a)
      /\ TaskInv /\ edits' = edits
  BY DEF Effective, PromiseInv, IInv
<1>2. s \in Slot /\ pve' = [pve EXCEPT ![s] = After(t)] /\ storage' = storage
  BY <1>1, TaskSlots DEF Effective, TakesEffect
<1>3. Safe!Becomes(s, After(t))
  BY <1>1, <1>2 DEF Safe!Becomes
<1>4. PICK v \in Applicable : AsksGuest(v, a)
  BY <1>1 DEF Fits, Wanted, Asks
<1>5. r \in Guests(Manifests[v]) /\ s = SlotOf(r) /\ a.kind = r.ref.kind
  BY <1>1, <1>4 DEF AsksGuest, Sound
<1>6. r \in Safe!DeclaredAt(s) /\ (Safe!Suits(r, g) <=> Suited(r, s))
  BY <1>2, <1>5, SafeWrites
<1>7. g \in Guest \union {NoGuest}
  BY <1>1, <1>2 DEF TaskInv
<1> HIDE DEF s, r
<1>8. CASE t.op = "create"
  <2> DEFINE p == IF a.kind \notin TemplateKinds /\ r.state = "started"
                  THEN "running" ELSE "stopped"
  <2>1. After(t) = [type |-> Safe!PveType(r.ref.kind), name |-> r.ref.name,
                    hot |-> r.hot, cold |-> r.cold, tagged |-> TRUE,
                    template |-> FALSE, power |-> p]
    BY <1>5, <1>8, SafeKinds DEF After, Created, r
  <2>2. g = Safe!NoGuest
    BY <1>1, <1>8, SafeKinds DEF Possible, s
  <2>3. p \in {"running", "stopped"} /\ (p = "running" => r.state = "started")
    OBVIOUS
  <2> HIDE DEF p
  <2>4. Safe!Make(s, r)
    BY <1>3, <2>1, <2>2, <2>3 DEF Safe!Make
  <2> QED BY <1>2, <1>6, <2>4 DEF Safe!Written, s, r
<1>9. CASE t.op = "clone"
  <2>1. PICK q \in Guests(Manifests[v]) :
          r.clone # NoRef /\ q.ref = r.clone /\ SourceAt(a) = SlotOf(q)
    BY <1>1, <1>4, <1>9 DEF AsksGuest, Fits, r
  <2>2. After(t) = [pve[Safe!SlotOf(q)] EXCEPT
                      !.name = r.ref.name, !.template = FALSE, !.power = "stopped"]
    BY <1>9, <2>1, SafeResource DEF After, Cloned, r
  <2>3. g = Safe!NoGuest /\ pve[Safe!SlotOf(q)] # Safe!NoGuest
    BY <1>1, <1>9, <2>1, SafeKinds, SafeResource DEF Possible, s
  <2>4. r \in Manifests[v]
    BY <1>5 DEF Guests
  <2>5. q \in Safe!Guests(Manifests[v]) /\ v \in Safe!Applicable /\ r.clone # Safe!NoRef
    BY <2>1, SafeIndex, SafeApplicable, SafeKinds
  <2>6. Safe!Copy(s, r)
    BY <1>3, <2>1, <2>2, <2>3, <2>4, <2>5 DEF Safe!Copy
  <2> QED BY <1>2, <1>6, <2>6 DEF Safe!Written, s, r
<1>10. ASSUME t.op \in {"config", "start", "stop", "mark"}
       PROVE  Suited(r, s) /\ Safe!Suits(r, g) /\ g \in Guest
  <2>1. Exists(a)
    BY <1>1, <1>10 DEF Possible, IsPower
  <2> QED BY <1>5, <1>6, <1>7, <2>1 DEF Exists, Suited, s
<1>11. CASE t.op = "config"
  <2> DEFINE h == IF "hot" \in a.set THEN r.hot ELSE g.hot
             c == IF "cold" \in a.set THEN r.cold ELSE g.cold
             b == g.tagged \/ "tags" \in a.set
  <2>1. After(t) = [g EXCEPT !.hot = h, !.cold = c, !.tagged = b]
    BY <1>11 DEF After, Configured, s, r
  <2>2. h \in {g.hot, r.hot} /\ c \in {g.cold, r.cold} /\ b \in {g.tagged, TRUE}
    BY <1>10, <1>11 DEF Guest
  <2> HIDE DEF h, c, b
  <2>3. Safe!Correct(s, r)
    BY <1>3, <1>10, <1>11, <2>1, <2>2 DEF Safe!Correct
  <2> QED BY <1>2, <1>6, <2>3 DEF Safe!Written, s, r
<1>12. CASE t.op = "start"
  <2>1. After(t) = [g EXCEPT !.power = "running"]
    BY <1>12 DEF After, s
  <2>2. ~g.template /\ r.state = "started"
    BY <1>1, <1>12 DEF Possible, Fits, s, r
  <2>3. Safe!Start(s, r)
    BY <1>3, <1>10, <1>12, <2>1, <2>2 DEF Safe!Start
  <2> QED BY <1>2, <1>6, <2>3 DEF Safe!Written, s, r
<1>13. CASE t.op = "stop"
  <2>1. After(t) = [g EXCEPT !.power = "stopped"]
    BY <1>13 DEF After, s
  <2>2. Safe!Stop(s)
    BY <1>3, <1>6, <1>10, <1>13, <2>1 DEF Safe!Stop
  <2> QED BY <1>2, <1>6, <2>2 DEF s, r
<1>14. CASE t.op = "mark"
  <2>1. g.power = "stopped" /\ r.ref.kind \in Safe!TemplateKinds
    BY <1>1, <1>5, <1>14, SafeKinds DEF Possible, IsPower, Fits, s
  <2>2. After(t) = [g EXCEPT !.template = TRUE]
    BY <1>10, <1>14, <2>1 DEF After, Guest, s
  <2>3. Safe!Seal(s, r)
    BY <1>3, <1>10, <1>14, <2>1, <2>2 DEF Safe!Seal
  <2> QED BY <1>2, <1>6, <2>3 DEF Safe!Written, s, r
<1>15. t.op \in {"create", "clone", "config", "start", "stop", "mark"}
  BY <1>1 DEF Fits, Task, Writes
<1> QED BY <1>8, <1>9, <1>11, <1>12, <1>13, <1>14, <1>15

(* A task of a delete stops or removes a leftover.                         *)
LEMMA DeleteAllowed ==
    ASSUME PromiseInv, NEW t \in Task, Effective(t), t.act.what = "delete"
    PROVE  LET s == SlotAt(t.act)
           IN  s \in Slot /\ (Safe!Stop(s) \/ Safe!Remove(s))
<1> DEFINE a == t.act
           s == SlotAt(a)
           g == pve[s]
<1>1. /\ Sound(a) /\ Fits(t.op, a) /\ Possible(t) /\ TaskInv
      /\ edits' = edits /\ edits \in Nat
  BY DEF Effective, PromiseInv, IInv, BoundsInv
<1>2. t.op \in {"stop", "delete"}
  BY <1>1 DEF Fits, Sound, TemplateKinds, ArtifactKinds, Task, Writes
<1>3. s \in Slot /\ pve' = [pve EXCEPT ![s] = After(t)] /\ storage' = storage
  BY <1>1, <1>2, TaskSlots DEF Effective, TakesEffect
<1>4. Safe!Becomes(s, After(t))
  BY <1>1, <1>3 DEF Safe!Becomes
<1>5. g # NoGuest
  BY <1>1, <1>2 DEF Possible, IsPower, Exists
<1>6. edits > 0 \/ (g.tagged /\ \E v \in Applicable : ~Claimed(v, s, g))
  <2>1. CASE ~Trust
    BY <1>1, <2>1 DEF Trust
  <2>2. CASE Trust
    <3>1. g.tagged /\ Unclaimed(s, g.type, g.name)
      BY <2>2 DEF Effective
    <3>2. PICK v \in Applicable : ~Claimed(v, s, [type |-> g.type, name |-> g.name])
      BY <3>1 DEF Unclaimed
    <3>3. ~Claimed(v, s, g)
      BY <3>2, ClaimedFields
    <3> QED BY <3>1, <3>3
  <2> QED BY <2>1, <2>2
<1>7. NodeAllowed(s[1])
  BY <1>1 DEF Sound, SlotAt
<1> HIDE DEF s
<1>8. Safe!Leftover(s)
  BY <1>5, <1>6, <1>7, SafeKinds, SafeClaimed, SafeApplicable DEF Safe!Leftover
<1>9. CASE t.op = "stop"
  <2>1. After(t) = [g EXCEPT !.power = "stopped"]
    BY <1>9 DEF After, s
  <2> QED BY <1>3, <1>4, <1>8, <2>1 DEF Safe!Stop, s
<1>10. CASE t.op = "delete"
  <2>1. After(t) = Safe!NoGuest /\ g.power = "stopped"
    BY <1>1, <1>10, SafeKinds DEF After, Possible, IsPower, s
  <2> QED BY <1>3, <1>4, <1>8, <2>1 DEF Safe!Remove, s
<1> QED BY <1>2, <1>9, <1>10

(* A download places a file where its revision wants it.                   *)
LEMMA DownloadAllowed ==
    ASSUME PromiseInv, NEW t \in Task, Effective(t), t.op = "download"
    PROVE  Safe!Next
<1> DEFINE a == t.act
           f == FileAt(a)
<1>1. Sound(a) /\ Fits(t.op, a) /\ Wanted(a) /\ edits' = edits
  BY DEF Effective
<1>2. PICK v \in Applicable : a.res \in Artifacts(Manifests[v]) /\ a.node \in a.res.nodes
  BY <1>1 DEF Fits, Wanted, Asks, AsksFile
<1>3. f = <<a.node, a.res.ref>>
  BY DEF FileAt
<1>4. f \in Safe!File
  <2>1. a.node \in Nodes /\ a.res \in Resource /\ a.res.ref.kind \in ArtifactKinds
    BY <1>1, <1>2 DEF Sound, Fits, Action, Artifacts, IsArtifact
  <2>2. a.res.ref \in {x \in Ref : x.kind \in ArtifactKinds}
    BY <2>1 DEF Resource
  <2> HIDE DEF f
  <2>3. f \in File
    BY <1>3, <2>1, <2>2 DEF File
  <2> QED BY <2>3, SafeKinds
<1>5. /\ v \in Safe!Applicable /\ a.res \in Safe!Artifacts(Manifests[v])
      /\ a.res.ref = f[2] /\ f[1] \in a.res.nodes
  BY <1>2, <1>3, SafeApplicable, SafeIndex
<1>6. storage' = storage \union {f} /\ UNCHANGED <<pve, edits>>
  BY <1>1 DEF Effective, TakesEffect
<1> HIDE DEF f
<1>7. Safe!Fetch(f)
  BY <1>5, <1>6 DEF Safe!Fetch
<1> QED BY <1>4, <1>7 DEF Safe!Next

(* The step simulation.                                                    *)
LEMMA PromiseStep ==
    ASSUME PromiseInv, PromiseInv', [Next]_vars
    PROVE  [Safe!Next]_(Safe!vars)
<1>1. CASE UNCHANGED <<pve, storage, edits>>
  BY <1>1 DEF Safe!vars
<1>2. ASSUME NEW t \in Task, Effective(t) PROVE Safe!Next
  <2>1. CASE t.act.what = "delete"
    <3>1. PICK s \in Slot : Safe!Stop(s) \/ Safe!Remove(s)
      BY <1>2, <2>1, DeleteAllowed
    <3> QED BY <3>1, SafeKinds DEF Safe!Next
  <2>2. CASE t.act.what # "delete" /\ t.op # "download"
    <3>1. PICK s \in Slot : Safe!Written(s) \/ Safe!Stop(s)
      BY <1>2, <2>2, WriteAllowed
    <3> QED BY <3>1, SafeKinds DEF Safe!Next
  <2>3. CASE t.op = "download"
    BY <1>2, <2>3, DownloadAllowed
  <2> QED BY <2>1, <2>2, <2>3
<1>3. ASSUME NEW x \in Slot, Disturb(x) PROVE Safe!Next
  <2>1. PICK g : pve' = [pve EXCEPT ![x] = g] /\ edits' = edits + 1 /\ storage' = storage
    BY <1>3 DEF Disturb
  <2>2. TaskInv /\ TaskInv'
    BY DEF PromiseInv, IInv
  <2>3. g \in Guest \union {NoGuest}
    <3>1. pve'[x] = g
      BY <2>1, <2>2 DEF TaskInv
    <3> QED BY <2>2, <3>1 DEF TaskInv
  <2>4. Safe!Others
    BY <1>3, <2>1, <2>3, SafeKinds DEF Safe!Others
  <2> QED BY <2>4 DEF Safe!Next
<1> QED BY <1>1, <1>2, <1>3, EffectCases

(* The first states are first states of SafeCluster.                       *)
LEMMA PromiseInit == Init => Safe!Init
<1> SUFFICES ASSUME Init PROVE Safe!Init
  OBVIOUS
<1>1. TaskInv /\ edits = 0
  BY InitIInv DEF Init, IInv
<1> QED BY <1>1, SafeKinds DEF TaskInv, Safe!Init

(* The loop of RunOneCycle, its executor and the tasks it leaves behind    *)
(* implement SafeCluster: seen from PVE, each of their steps is one that   *)
(* some revision calls for, whatever faults, pushes and disturbances come  *)
(* in between.                                                             *)
THEOREM PromiseKept == Spec => KeepsThePromise
<1>1. PromiseInv /\ PromiseInv' /\ [Next]_vars => [Safe!Next]_(Safe!vars)
  BY PromiseStep
<1> QED BY PromiseInvariant, PromiseInit, <1>1, PTL DEF Spec, KeepsThePromise, Safe!Spec

=============================================================================
