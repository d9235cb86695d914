----------------------------- MODULE Reconcile -----------------------------
(***************************************************************************)
(* One cluster's reconciler: RunOneCycle from the git fetch to the last    *)
(* action of the plan, with PVE, its operators and the git remote moving   *)
(* underneath.  The agent is one sequential process.  It keeps no state    *)
(* between cycles but the work tree and whether a good index was ever      *)
(* parsed, so everything here is about what it read becoming stale, and    *)
(* about calls and tasks that fail, get lost or outlive their deadline.    *)
(***************************************************************************)
EXTENDS Pve, Sequences

CONSTANTS
    Deployments,     \* the states PVE may be in at first: <<guests, files>>
    Strangers,       \* guests other people may create
    Disturbances,    \* what other people do to guests
    Faults,          \* what may go wrong
    MaxEdits, MaxFaults, MaxPushes    \* bounds of the model

ASSUME ReconcileAssumption ==
    /\ Deployments \subseteq [Slot -> Guest \union {NoGuest}] \X SUBSET File
    /\ Strangers \subseteq Guest
    /\ Disturbances \subseteq {"create", "delete", "untag", "power", "edit"}
    /\ Faults \subseteq {"fetch", "list", "config", "status", "content",
                         "request", "lost", "task", "timeout", "crash"}
    /\ MaxEdits \in Nat /\ MaxFaults \in Nat /\ MaxPushes \in Nat

VARIABLES
    head,        \* the remote's revision
    tree,        \* the revision in the work tree
    phase,       \* where the cycle is
    lastGood,    \* an index has been parsed since the agent started
    inv,         \* the live inventory being read
    reads,       \* guest reads LoadLive has still to make
    probes,      \* storage reads it has still to make
    todo,        \* planned actions not yet begun
    cur,         \* the action being executed
    ops,         \* the calls it has still to make
    upid,        \* the task being waited for
    verdict,     \* what PVE reports of that task
    failed,      \* prerequisites that failed this cycle
    results,     \* outcomes so far
    edits, faults, pushes     \* how much of the bounds is used

gitVars == <<head, tree, pushes>>
loadVars == <<inv, reads, probes>>
execVars == <<todo, cur, ops, upid, verdict, failed, results>>
vars == <<pve, storage, running, head, tree, phase, lastGood, inv, reads,
          probes, todo, cur, ops, upid, verdict, failed, results,
          edits, faults, pushes>>

NoAction == [what |-> "none"]
NoTask == [op |-> "none"]

Desired == Manifests[tree]

(* Something goes wrong, if the bound leaves room for it.                  *)
Fault(kind) == /\ kind \in Faults /\ faults < MaxFaults
               /\ faults' = faults + 1
NoFault == UNCHANGED faults

-----------------------------------------------------------------------------
Init ==
    /\ \E d \in Deployments : pve = d[1] /\ storage = d[2]
    /\ running = {}
    /\ head \in Revisions /\ tree = head
    /\ phase = "idle" /\ lastGood = FALSE
    /\ inv = NoInventory /\ reads = {} /\ probes = {}
    /\ todo = {} /\ cur = NoAction /\ ops = <<>>
    /\ upid = NoTask /\ verdict = "none" /\ failed = {} /\ results = {}
    /\ edits = 0 /\ faults = 0 /\ pushes = 0

-----------------------------------------------------------------------------
(* Fetch and parse.                                                        *)

(* A revision that does not parse, or names a node outside the allowlist,  *)
(* aborts the cycle before any call to PVE.                                *)
StartCycle(v) ==
    /\ tree' = v
    /\ lastGood' = (lastGood \/ v \in Parses)
    /\ phase' = IF v \in Parses /\ OnAllowedNodes(Manifests[v])
                THEN "list" ELSE "idle"

Sync ==
    /\ phase = "idle"
    /\ StartCycle(head) /\ NoFault
    /\ UNCHANGED <<pveVars, head, pushes, loadVars, execVars, edits>>

(* Fetch failed: go on with the tree there is, once one was good.          *)
SyncFails ==
    /\ phase = "idle"
    /\ Fault("fetch")
    /\ IF lastGood THEN StartCycle(tree) ELSE UNCHANGED <<tree, lastGood, phase>>
    /\ UNCHANGED <<pveVars, head, pushes, loadVars, execVars, edits>>

-----------------------------------------------------------------------------
(* LoadLive.                                                               *)

List ==
    /\ phase = "list"
    /\ phase' = "read"
    /\ inv' = [NoInventory EXCEPT !.listed = [s \in Slot |-> pve[s].type]]
    /\ reads' = {<<"config", s>> :
                   s \in {x \in Slot : pve[x] # NoGuest /\ NodeAllowed(x[1])}}
    /\ probes' = {<<f[1], f[2].ref>> :
                   f \in {g \in Nodes \X Artifacts(Desired) : g[1] \in g[2].nodes}}
    /\ NoFault
    /\ UNCHANGED <<pveVars, gitVars, lastGood, execVars, edits>>

ListFails ==
    /\ phase = "list"
    /\ Fault("list")
    /\ phase' = "idle"
    /\ UNCHANGED <<pveVars, gitVars, lastGood, loadVars, execVars, edits>>

ReadingStatus == \E s \in Slot : <<"status", s>> \in reads

(* A guest that left its slot since the listing is skipped.                *)
ReadConfig(s) ==
    /\ phase = "read" /\ <<"config", s>> \in reads /\ ~ReadingStatus
    /\ NoFault
    /\ IF pve[s].type = inv.listed[s]
       THEN /\ inv' = [inv EXCEPT !.cfg[s] = pve[s]]
            /\ reads' = (reads \ {<<"config", s>>}) \union {<<"status", s>>}
       ELSE reads' = reads \ {<<"config", s>>} /\ UNCHANGED inv
    /\ UNCHANGED <<pveVars, gitVars, phase, lastGood, probes, execVars, edits>>

ReadConfigFails(s) ==
    /\ phase = "read" /\ <<"config", s>> \in reads /\ ~ReadingStatus
    /\ Fault("config")
    /\ inv' = [inv EXCEPT !.power[s] = "read-error"]
    /\ reads' = reads \ {<<"config", s>>}
    /\ UNCHANGED <<pveVars, gitVars, phase, lastGood, probes, execVars, edits>>

(* A status that cannot be read leaves the power unknown.                  *)
ReadStatus(s) ==
    /\ phase = "read" /\ <<"status", s>> \in reads
    /\ reads' = reads \ {<<"status", s>>}
    /\ \/ /\ NoFault
          /\ IF pve[s].type = inv.listed[s]
             THEN inv' = [inv EXCEPT !.power[s] = pve[s].power]
             ELSE UNCHANGED inv
       \/ Fault("status") /\ UNCHANGED inv
    /\ UNCHANGED <<pveVars, gitVars, phase, lastGood, probes, execVars, edits>>

ProbeStorage(f) ==
    /\ phase = "read" /\ reads = {} /\ f \in probes
    /\ probes' = probes \ {f}
    /\ \/ /\ NoFault
          /\ inv' = [inv EXCEPT !.seen = @ \union {f},
                                !.have = @ \union ({f} \intersect storage)]
       \/ Fault("content") /\ UNCHANGED inv
    /\ UNCHANGED <<pveVars, gitVars, phase, lastGood, reads, execVars, edits>>

(* PlanActions.  A dry run, which has no executor, is a cycle that ends    *)
(* here: it is not modelled apart.                                         *)
PlanCycle ==
    /\ phase = "read" /\ reads = {} /\ probes = {}
    /\ \E kept \in SUBSET Prunable(inv, tree) :
          /\ IsKept(kept, Prunable(inv, tree))
          /\ phase' = "exec" /\ todo' = PlanOf(inv, tree, kept)
    /\ inv' = NoInventory
    /\ NoFault
    /\ UNCHANGED <<pveVars, gitVars, lastGood, reads, probes, cur, ops, upid,
                   verdict, failed, results, edits>>

-----------------------------------------------------------------------------
(* The executor: actions in plan order, one at a time.                     *)

IsFirst(a) == a \in todo /\ \A b \in todo : ~Precedes(b, a)
(* Mutant of Blocked: no deferral.                                         *)
NeverBlocked(a) == FALSE

Blocked(a) == \E d \in a.deps : <<d, a.node>> \in failed

(* Mutant of CreateCalls: whatever was built is sealed.                    *)
SealsClones(a) ==
    IF a.kind \in ArtifactKinds THEN <<"download">>
    ELSE IF a.src # 0 THEN <<"clone", "read", "mark">> ELSE <<"create", "mark">>

(* The calls of one action.  "settle" is the status check, and the stop    *)
(* nobody waits for, with which the client begins deleting a container;    *)
(* "read" is the read of a fresh clone's config.                           *)
CreateCalls(a) ==
    IF a.kind \in ArtifactKinds THEN <<"download">>
    ELSE IF a.kind \in TemplateKinds THEN <<"create", "mark">>
    ELSE IF a.src # 0 THEN <<"clone", "read", "config">> ELSE <<"create">>

(* Mutant of UpdateCalls: no stop before a stop-required update.           *)
UpdateInPlace(a) == <<"config">>

UpdateCalls(a) ==
    IF ~(a.stopFirst /\ a.live = "running") THEN <<"config">>
    ELSE IF a.res.state = "started" THEN <<"stop", "config", "start">>
    ELSE <<"stop", "config">>

DeleteCalls(a) ==
    (IF a.live = "running" THEN <<"stop">> ELSE <<>>)
      \o (IF a.kind = "LXC" THEN <<"settle", "delete">> ELSE <<"delete">>)

(* Mutant of Program: apply() has no case for mark-template.               *)
ProgramByName(a) ==
    IF a.what = "create" THEN CreateCalls(a)
    ELSE IF a.what = "update" THEN UpdateCalls(a)
    ELSE IF a.what = "delete" THEN DeleteCalls(a) ELSE <<a.what>>

Program(a) ==
    IF a.what = "create" THEN CreateCalls(a)
    ELSE IF a.what = "update" THEN UpdateCalls(a)
    ELSE IF a.what = "delete" THEN DeleteCalls(a)
    ELSE IF a.what = "mark-template" THEN <<"mark">> ELSE <<a.what>>

Record(a, outcome) == results' = results \union {[act |-> a, outcome |-> outcome]}

(* A dependant of something that failed on the node is not attempted.      *)
Defer(a) ==
    /\ phase = "exec" /\ cur = NoAction
    /\ IsFirst(a) /\ Blocked(a)
    /\ todo' = todo \ {a}
    /\ Record(a, "deferred")
    /\ NoFault
    /\ UNCHANGED <<pveVars, gitVars, phase, lastGood, loadVars, cur, ops, upid,
                   verdict, failed, edits>>

Begin(a) ==
    /\ phase = "exec" /\ cur = NoAction
    /\ IsFirst(a) /\ ~Blocked(a)
    /\ todo' = todo \ {a}
    /\ cur' = a /\ ops' = Program(a)
    /\ NoFault
    /\ UNCHANGED <<pveVars, gitVars, phase, lastGood, loadVars, upid, verdict,
                   failed, results, edits>>

Attempt(op) == cur # NoAction /\ upid = NoTask /\ ops # <<>> /\ Head(ops) = op

(* The action ends.  Prunes carry no ref, so they never block anything.    *)
Conclude(outcome) ==
    /\ Record(cur, outcome)
    /\ failed' = IF outcome = "ok" \/ cur.res.ref = NoRef THEN failed
                 ELSE failed \union {<<cur.res.ref, cur.node>>}
    /\ cur' = NoAction /\ ops' = <<>> /\ upid' = NoTask /\ verdict' = "none"

(* Mutant of Proceed: an accepted request counts as done.                  *)
ProceedAtOnce(task) ==
    /\ ops' = Tail(ops) /\ upid' = NoTask /\ verdict' = "none"
    /\ UNCHANGED <<cur, failed, results>>

Proceed(task) ==
    /\ ops' = Tail(ops) /\ upid' = task
    /\ verdict' = IF task = NoTask THEN "none" ELSE "running"
    /\ UNCHANGED <<cur, failed, results>>

(* One write call: accepted, refused by PVE, never delivered, or delivered *)
(* with the answer lost.                                                   *)
Issue(op) ==
    LET t == [op |-> op, act |-> cur]
    IN  /\ Attempt(op)
        /\ \/ /\ Accepts(t) /\ Accept(t) /\ NoFault
              /\ Proceed(IF IsSynchronous(t) THEN NoTask ELSE t)
           \/ /\ ~Accepts(t) /\ NoFault
              /\ Conclude("failed") /\ UNCHANGED pveVars
           \/ /\ Fault("request")
              /\ Conclude("failed") /\ UNCHANGED pveVars
           \/ /\ Accepts(t) /\ Accept(t) /\ Fault("lost")
              /\ Conclude("failed")
        /\ UNCHANGED <<gitVars, phase, lastGood, loadVars, todo, edits>>

ReadClone ==
    /\ Attempt("read")
    /\ \/ Exists(cur) /\ NoFault /\ Proceed(NoTask)
       \/ ~Exists(cur) /\ NoFault /\ Conclude("failed")
       \/ Fault("config") /\ Conclude("failed")
    /\ UNCHANGED <<pveVars, gitVars, phase, lastGood, loadVars, todo, edits>>

Settle ==
    LET t == [op |-> "stop", act |-> cur]
    IN  /\ Attempt("settle")
        /\ \/ /\ ~IsPower(cur, "running") /\ NoFault
              /\ Proceed(NoTask) /\ UNCHANGED pveVars
           \/ /\ Fault("status")
              /\ Proceed(NoTask) /\ UNCHANGED pveVars
           \/ /\ Accepts(t) /\ Accept(t) /\ NoFault
              /\ Proceed(NoTask)
           \/ /\ IsPower(cur, "running") /\ ~Accepts(t) /\ NoFault
              /\ Conclude("failed") /\ UNCHANGED pveVars
           \/ /\ IsPower(cur, "running") /\ Fault("request")
              /\ Conclude("failed") /\ UNCHANGED pveVars
        /\ UNCHANGED <<gitVars, phase, lastGood, loadVars, todo, edits>>

(* Mutant of Await: the deadline ends the wait without an error.           *)
AwaitOrAssume ==
    /\ upid # NoTask
    /\ \/ /\ \/ verdict = "ok" /\ NoFault
             \/ verdict = "running" /\ Fault("timeout")
          /\ upid' = NoTask /\ verdict' = "none"
          /\ UNCHANGED <<cur, ops, failed, results>>
       \/ verdict = "failed" /\ NoFault /\ Conclude("failed")
    /\ UNCHANGED <<pveVars, gitVars, phase, lastGood, loadVars, todo, edits>>

(* waitTask, until the task ends or its deadline passes.                   *)
Await ==
    /\ upid # NoTask
    /\ \/ verdict = "ok" /\ NoFault
          /\ upid' = NoTask /\ verdict' = "none"
          /\ UNCHANGED <<cur, ops, failed, results>>
       \/ verdict = "failed" /\ NoFault /\ Conclude("failed")
       \/ verdict = "running" /\ Fault("timeout") /\ Conclude("failed")
    /\ UNCHANGED <<pveVars, gitVars, phase, lastGood, loadVars, todo, edits>>

Complete ==
    /\ cur # NoAction /\ ops = <<>> /\ upid = NoTask
    /\ Conclude("ok") /\ NoFault
    /\ UNCHANGED <<pveVars, gitVars, phase, lastGood, loadVars, todo, edits>>

EndCycle ==
    /\ phase = "exec" /\ todo = {} /\ cur = NoAction
    /\ phase' = "idle" /\ failed' = {} /\ results' = {}
    /\ NoFault
    /\ UNCHANGED <<pveVars, gitVars, lastGood, loadVars, todo, cur, ops, upid,
                   verdict, edits>>

(* The process dies; the work tree and PVE's tasks stay.                   *)
Crash ==
    /\ phase # "idle" /\ Fault("crash")
    /\ phase' = "idle" /\ lastGood' = FALSE
    /\ inv' = NoInventory /\ reads' = {} /\ probes' = {}
    /\ todo' = {} /\ cur' = NoAction /\ ops' = <<>>
    /\ upid' = NoTask /\ verdict' = "none" /\ failed' = {} /\ results' = {}
    /\ UNCHANGED <<pveVars, gitVars, edits>>

-----------------------------------------------------------------------------
(* PVE carries tasks out; other people push commits and change guests.     *)

Ends(t, outcome) ==
    /\ t \in running
    /\ running' = running \ {t}
    /\ verdict' = IF t = upid THEN outcome ELSE verdict
    /\ UNCHANGED <<gitVars, phase, lastGood, loadVars, todo, cur, ops, upid,
                   failed, results, edits>>

TaskSucceeds(t) == Ends(t, "ok") /\ TakesEffect(t) /\ NoFault
TaskFails(t) == Ends(t, "failed") /\ Fault("task") /\ UNCHANGED <<pve, storage>>

Push(v) ==
    /\ v # head /\ pushes < MaxPushes
    /\ head' = v /\ pushes' = pushes + 1
    /\ UNCHANGED <<pveVars, tree, phase, lastGood, loadVars, execVars, edits, faults>>

(* What somebody may make of the guest at s.                               *)
Disturbed(s) ==
    LET g == pve[s]
    IN  IF g = NoGuest
        THEN IF "create" \in Disturbances THEN Strangers ELSE {}
        ELSE (IF "delete" \in Disturbances THEN {NoGuest} ELSE {})
               \union (IF "untag" \in Disturbances
                       THEN {[g EXCEPT !.tagged = FALSE]} ELSE {})
               \union (IF "power" \in Disturbances /\ ~g.template
                       THEN {[g EXCEPT !.power = p] : p \in {"running", "stopped"}}
                       ELSE {})
               \union (IF "edit" \in Disturbances
                       THEN {[g EXCEPT !.cold = c] : c \in Values} ELSE {})

Disturb(s) ==
    /\ edits < MaxEdits /\ ~Held(s)
    /\ \E g \in Disturbed(s) \ {pve[s]} : pve' = [pve EXCEPT ![s] = g]
    /\ edits' = edits + 1
    /\ UNCHANGED <<storage, running, gitVars, phase, lastGood, loadVars, execVars,
                   faults>>

-----------------------------------------------------------------------------
Load ==
    \/ List \/ ListFails
    \/ \E s \in Slot : ReadConfig(s) \/ ReadConfigFails(s) \/ ReadStatus(s)
    \/ \E f \in probes : ProbeStorage(f)

Execute ==
    \/ \E a \in todo : Defer(a) \/ Begin(a)
    \/ \E op \in Writes : Issue(op)
    \/ ReadClone \/ Settle \/ Await \/ Complete \/ EndCycle

Agent == Sync \/ SyncFails \/ Load \/ PlanCycle \/ Execute

PveStep == \E t \in running : TaskSucceeds(t) \/ TaskFails(t)

Environment == (\E v \in Revisions : Push(v)) \/ (\E s \in Slot : Disturb(s))

Next == Agent \/ Crash \/ PveStep \/ Environment

Spec == Init /\ [][Next]_vars

(* The agent's loop keeps running, and PVE ends every task it accepted.    *)
TaskAt(s) == \E t \in running : s \in Holds(t) /\ TaskSucceeds(t)
DownloadOf(f) == \E t \in running :
                    t.op = "download" /\ FileAt(t.act) = f /\ TaskSucceeds(t)

Fairness ==
    /\ WF_vars(Agent)
    /\ \A s \in Slot : WF_vars(TaskAt(s))
    /\ \A f \in File : WF_vars(DownloadOf(f))

FairSpec == Spec /\ Fairness
-----------------------------------------------------------------------------
(* Properties.                                                             *)

Planned == todo \union ({cur} \ {NoAction}) \union {r.act : r \in results}

(* Tagged guests of a kind, on the cluster's nodes, that a revision does   *)
(* not ask for: neither the slot nor, for a VM, the name.                  *)
Leftover(v, k) ==
    {s \in Slot :
        /\ pve[s].type = k /\ pve[s].tagged /\ NodeAllowed(s[1])
        /\ \A r \in Guests(Manifests[v]) :
              /\ ~(SlotOf(r) = s /\ PveType(r.ref.kind) = k)
              /\ ~(k = "VM" /\ r.ref.kind = "VM" /\ r.ref.name = pve[s].name)}

(* No manifest of a kind, and more guests of it left than the budget.      *)
MassDeletion(v, k) ==
    /\ \A r \in Manifests[v] : r.ref.kind # k
    /\ Cardinality(Leftover(v, k)) > Budget

(* Every variable keeps its type; the calls left belong to an action being *)
(* executed, and the task waited for was issued by it.                     *)
TypeOK ==
    /\ PveTypeOK
    /\ head \in Revisions /\ tree \in Revisions
    /\ phase \in {"idle", "list", "read", "exec"}
    /\ lastGood \in BOOLEAN
    /\ inv \in Inventory
    /\ reads \subseteq {"config", "status"} \X Slot
    /\ probes \subseteq File
    /\ todo \subseteq Action
    /\ cur \in Action \union {NoAction}
    /\ ops \in Seq(Writes \union {"read", "settle"})
    /\ upid \in Task \union {NoTask}
    /\ verdict \in {"none", "running", "ok", "failed"}
    /\ failed \subseteq Ref \X Nodes
    /\ results \subseteq [act : Action, outcome : {"ok", "failed", "deferred"}]
    /\ edits \in Nat /\ faults \in Nat /\ pushes \in Nat

(* The cluster boundary: whatever git says and whatever carries the tag,   *)
(* the agent plans and writes only on the nodes of its own allowlist.      *)
ClusterBoundary ==
    /\ \A a \in Planned : NodeAllowed(a.node)
    /\ \A t \in running : NodeAllowed(t.act.node)

(* One cycle never attempts more deletes than the prune budget.            *)
PruneBudget == Cardinality({a \in Planned : a.what = "delete"}) <= Budget

(* A guest that the revision being applied asks for, be it as a template,  *)
(* is never among the deletes.                                             *)
KeepsDesired ==
    \A a \in Planned : a.what = "delete" =>
        \A r \in Guests(Desired) :
            SlotOf(r) = SlotAt(a) => PveType(r.ref.kind) # a.kind

(* Where nobody else strips tags or replaces guests, what the agent        *)
(* destroys carries the ownership tag when it is destroyed, however long   *)
(* after the snapshot that is.                                             *)
DestroysOnlyTagged ==
    [][\A s \in Slot :
          pve[s] # NoGuest /\ pve'[s] = NoGuest /\ edits' = edits
            => pve[s].tagged]_vars

EverDesired == {SlotOf(r) : r \in UNION {Guests(Manifests[v]) : v \in Parses}}

(* An untagged guest in a slot no revision ever asked for is left exactly  *)
(* as it is, whatever its name, by the agent and by every task it started. *)
HandsOff ==
    [][\A s \in Slot \ EverDesired :
          pve[s] # NoGuest /\ ~pve[s].tagged /\ edits' = edits
            => pve'[s] = pve[s]]_vars

(* An action runs only when every action planned for one of its            *)
(* prerequisites on its node is over, and none of them failed.             *)
DependencyOrder ==
    cur # NoAction =>
        \A a \in Planned :
            a.node = cur.node /\ a.res.ref \in cur.deps =>
                \E r \in results : r.act = a /\ r.outcome \in {"ok", "deferred"}

(* What an action is for.                                                  *)
Achieved(a) ==
    LET g == pve[SlotAt(a)]
    IN  CASE a.what = "delete" -> g = NoGuest
          [] a.kind \in ArtifactKinds -> FileAt(a) \in storage
          [] a.what = "start" -> IsPower(a, "running")
          [] a.what = "stop" -> IsPower(a, "stopped")
          [] a.what = "mark-template" -> Exists(a) /\ g.template
          [] OTHER ->              \* create, update
                /\ Exists(a)
                /\ "hot" \in a.set => g.hot = a.res.hot
                /\ "cold" \in a.set => g.cold = a.res.cold
                /\ "tags" \in a.set => g.tagged
                /\ a.what = "create" => g.template = (a.kind \in TemplateKinds)
                /\ a.stopFirst /\ a.live = "running" /\ a.res.state = "started" =>
                      g.power = "running"

(* Where nobody else changes guests, an action about to be recorded as     *)
(* done has been carried out in PVE: nothing is reported on the strength   *)
(* of an accepted request alone.                                           *)
ReportSound ==
    edits = 0 /\ cur # NoAction /\ ops = <<>> /\ upid = NoTask => Achieved(cur)

(* A guest seen running is down while a stop-required update is applied.   *)
ColdWritesWhenStopped ==
    \A t \in running :
        t.op = "config" /\ t.act.stopFirst /\ t.act.live = "running"
            => pve[SlotAt(t.act)].power = "stopped"

(* The empty-desired guard: when the manifests of a kind are gone and more *)
(* tagged guests of it than the budget are live, none of them is deleted.  *)
EmptyDesiredGuard ==
    [][phase = "read" /\ phase' = "exec" =>
          \A a \in todo' : a.what = "delete" => ~MassDeletion(tree, a.kind)]_vars

Matches(r, g) ==
    /\ g # NoGuest /\ g.type = PveType(r.ref.kind)
    /\ g.hot = r.hot /\ g.cold = r.cold /\ g.tagged
    /\ g.template = (r.ref.kind \in TemplateKinds)
    /\ g.power = IF r.state = "started" THEN "running" ELSE "stopped"

Converged(v) ==
    /\ \A r \in Guests(Manifests[v]) : Matches(r, pve[SlotOf(r)])
    /\ \A r \in Artifacts(Manifests[v]) : \A n \in r.nodes : <<n, r.ref>> \in storage
    /\ \A k \in {"VM", "LXC"} : Leftover(v, k) = {} \/ MassDeletion(v, k)

(* Once pushes, disturbances and faults are over, PVE comes to match the   *)
(* head of git, if it parses, and the agent finds nothing more to do.      *)
Convergence == <>[](head \in Parses => Converged(head) /\ Planned = {})

(* Seen from outside, the loop only ever takes steps that the promise of   *)
(* SafeCluster allows, one guest or file at a time, however stale what it  *)
(* acts on and whatever tasks earlier cycles left behind.                  *)
Safe == INSTANCE SafeCluster WITH guests <- pve, files <- storage, moves <- edits
KeepsThePromise == Safe!Spec

=============================================================================
