# ProxOps, modelled and proved

ProxOps is a GitOps agent for Proxmox VE (PVE). It reads manifests from a git
repository, reads what PVE has, plans the difference and applies it, cluster by
cluster, cycle after cycle. It keeps no state of its own: every cycle derives
the plan afresh, so what matters is what becomes of a plan while PVE, its
operators and the git remote move underneath it, and what the next cycle makes
of a plan that was half carried out.

This directory holds TLA+ modules translated from the Go code under `src/`, TLC
configurations that check them on small clusters, and proofs for TLAPS.
`PROJECT.json` gives, for each definition, the lines of code it stands for.
Paths below are relative to `src/internal/` unless they say otherwise.

## 1. The system

### Components

| Component | State it keeps | Operations | Here |
| --- | --- | --- | --- |
| Manifest schema (`schema/`) | none | validate, resolve references and secrets, compare with a live configuration, render wire values | `Schema`; `DeviceForms`, `VmConfig`, `LxcConfig` |
| Parser, dependency index (`parse/`) | none | load files, build one cluster's index, find cycles, compute levels | `Schema`, `Composition` |
| Composition (`composition/`) | none | which files belong to which cluster | `Composition` |
| Planner (`plan/`) | none | `LoadLive` reads the inventory, `PlanActions` computes the plan | `Planner`, loading in `Reconcile` |
| Executor (`exec/`) | what failed in this cycle | run the plan's actions, wait for tasks, defer dependants, record results | `Reconcile`; its records in `Agent` |
| Reconciler (`reconcile/`) | the last good index and its commit | `RunOneCycle` | `Reconcile`; over several clusters `Agent` |
| PVE client: requests, breaker (`pveclient/client.go`, `breaker.go`) | failure count, open flag, opening time | `Do`: gate, retry, backoff | `WriteBreaker`, `PveClient` |
| PVE client: tickets (`auth.go`) | ticket, its age | log in, renew, invalidate | `PveClient` |
| PVE client: tasks (`task.go`) | none | poll a task until it ends or a deadline comes | `PveClient`; as one step `Reconcile` |
| PVE client: guests, storage (`vm.go`, `lxc.go`, `storage.go`) | none | one method per call | the calls of `Reconcile` |
| PVE itself | guests, files, tasks, configurations | accept a write, carry it out by a task, store and report a configuration | external: `Pve` after `pveclient/mock/mock.go`; `PveClient`, `Guest` |
| Git source (`gitx/`) | work tree, last good fetch | fetch, reset, revision | `GitSource` |
| Status store (`statusx/`) | one record per cluster and object, one cycle record | record, read out | `StatusStore` |
| Agent (`app/`) | readiness, clocks | watch loop, apply, diff, status | `Agent` |
| HTTP server (`server/`) | none | health, metrics, status pages | `/healthz` in `Agent` |
| Adoption (`adopt/`, `schema/adopt.go`) | none | write manifests for guests that are there | `Adopt` |
| Configuration, secrets, command line, metrics, logs | none that a cycle depends on | | no (section 7) |

### How they interact

The agent is serial: a ticker starts a pass, and in it each cluster's
reconciler runs one cycle to the end. A cycle calls the git source, the parser,
the planner's loader, the planner and the executor in turn. The executor calls
the client; each write becomes a PVE task that the executor polls. The
components inside the process share the work tree, the status store and the
readiness flag (one for all clusters) and, per cluster, the client with its
breaker and ticket. Concurrency comes from outside: PVE carries tasks out while the
agent goes on, other people change guests, commits arrive during a cycle, and
in local mode the operator edits the very tree the agent reads.

### What is hard in it

- The inventory is read guest by guest. The plan may describe a state that
  never existed, and it is out of date when it is executed.
- A write's answer may be lost, its task may fail, and its deadline may pass
  while it goes on. The task then meets the next cycle. Underneath, the client sends
  a lost POST again, and PVE may have carried out the first.
- Actions consist of several calls (clone, read, config; create, mark; stop,
  config, start). A failure or a crash between two of them leaves a guest that
  only its state in PVE can explain.
- Fetch, parse, listing, config, status and storage reads fail one by one, and
  each failure has its own treatment: keep the old tree, abort, skip the guest,
  leave its power unknown, skip the artifact.
- Deleting is decided by agreement of several sources: the slot, the name, the
  template flag, the tag, the budget, and the guard against an empty desired set.
- PVE does not report options that have their defaults, adds what it chose
  itself, masks passwords, and allocates a new volume when a disk is written in
  the wrong form. Drift has to tell a difference from a spelling.
- Manifests change kind, node and id between commits.

### What makes each component correct

- Reconciler and planner: nothing outside the cluster's nodes is touched, only
  tagged guests are deleted and at most the budget per cycle, nothing that git
  asks for is deleted, a probable bad push deletes nothing of its kind; once
  the disturbances end, PVE comes to equal git and the agent stops writing.
- Executor: prerequisites first, dependants of failures deferred, what is
  reported as done has been done, stop-required changes reach only stopped
  guests.
- Schema: when no drift is left, all that is declared is in place; a write
  keeps every volume and every option it has no business with; a clone keeps
  nothing of its template's identity; the same write is not made for ever.
- Adoption: an adopted manifest wants no change.
- Client: the breaker's flag follows its count; a refused ticket is not sent
  again; success is never reported of something that did not happen; every
  operation ends.
- Agent and status store: readiness and exit status speak for every cluster, a
  finished cycle leaves a record of all it desired, one cluster's abort does
  not keep the others from being reconciled.

`PROJECT.json` lists the hazards one by one, at their lines.

## 2. The modules

```
Schema  <-  Planner  <-  Pve  <-  Reconcile  <-  Claims  <-  MCReconcile
   ^           ^                   |    ^
   |           +-- SafeCluster <---+    ReconcileProofs <- PromiseProofs
   |               (Reconcile implements it)                ^
   |                                        ReportProofs, OrderProofs
   +-- Composition <- GitSource, StatusStore <- Agent <- MCAgent
                                                  ^----- AgentProofs

WriteBreaker  <-  PveClient  <-  PveClientProofs

DeviceForms <- VmConfig, LxcConfig <- Adopt <- Guest <- MCGuest
                                                 ^----- GuestProofs <- ConfigProofs
```

There are three state machines at three distances. `Reconcile` has the guests
of a cluster and what is done to them, a configuration reduced to two fields.
`Guest` has one guest and its configuration option by option. `Agent` has
several clusters and what the process shares between them, a cluster's PVE reduced
to what a cycle may find. `PveClient` is below all three: one operation and its
requests.

### The cluster

**`Schema`** — manifests and revisions. `Manifests[v]` is the set of resources
at commit `v`. A guest's configuration is reduced to the two fields the planner
tells apart: `hot`, which PVE applies to a running guest, and `cold`, which
needs it stopped. `ValidIndex` is what `BuildClusterIndex` accepts: the rules
of `Validate` the planner relies on, unique refs and slots, references that
resolve on the guest's node, and no cycle. `Levels` is the level of each
resource in the dependency graph.

**`Planner`** — `PlanActions` as sets. `Marks`, `Creates`, `Updates`,
`PowerChanges`, `Downloads` are the branches of pass A; `Orphans`,
`Suppressed`, `IsKept` and `Prune` are pass B. The result is a set of actions
with the relation `Precedes` in place of the sorted list. The code's comparator
is not a weak order on creates and marks of one level, since `mark-template`
has no rank: the model leaves their order open, and the runs cover both.
`Inventory` is what the loader found, with the distinctions the planner makes:
listed but unread, read, power unknown, power read failed.

**`Pve`** — the external system: `pve` (the guest in each slot), `storage`
(files present), `running` (tasks accepted and not finished). `Possible` are the
preconditions that PVE enforces, `Holds` is the guest lock (a task holds its
guest, a clone its source too), `After` is what a task leaves. Tasks take
effect when they end. Sources are the mock server of the tests and the client's
comments for what the mock leaves out (locks; a running VM cannot be marked).

**`Reconcile`** — the cycle. The work tree `tree` follows the remote's `head`
at `Sync`; `phase` is `idle`, `list`, `read` or `exec`. One action per step of
the code at which something else can happen:

| Code | Action |
| --- | --- |
| fetch and parse (`reconcile.go:160-250`) | `Sync`, `SyncFails` |
| listing (`plan.go`, `LoadLive`) | `List`, `ListFails` |
| a guest's config, then its status | `ReadConfig`, `ReadConfigFails`, `ReadStatus` |
| storage content per artifact | `ProbeStorage` |
| `PlanActions` and the checks before it | `PlanCycle` |
| the executor's loop (`exec.go`) | `Begin`, `Defer`, `Complete`, `EndCycle` |
| one client call of an action | `Issue`, `ReadClone`, `Settle` |
| `waitTask` | `Await` |
| the process dies | `Crash` |
| PVE | `TaskSucceeds`, `TaskFails` |
| other people | `Push`, `Disturb` |

`Program(a)` is the sequence of calls of an action: it translates the methods
`create`, `cloneCreate`, `update`, `delete`, `markTemplate`, `startAndWait`,
`stopAndWait`. Deleting a container starts with `settle`: the client looks at
the status and, if the container runs, sends a stop that nobody waits for. Each
write call has four outcomes in `Issue`: accepted, refused by PVE, never
delivered, and accepted with the answer lost.

**`SafeCluster`** — the abstract specification: what may ever happen to a
cluster's guests and files, with no loop, inventory, plan, task or fault in it.
A guest is made, copied, corrected, started, sealed, stopped or removed, each
under a condition on revisions that parse and stay on the allowlist; a
file is fetched; or somebody else moves. `Reconcile` states
`KeepsThePromise == Safe!Spec` with `guests <- pve`, `files <- storage`,
`moves <- edits`: every step of the loop, of its tasks and of whatever a
crashed cycle left behind is one of these or invisible.

**`Claims`** — a comment about the executor that the code does not keep;
refuted by a run. **`MCReconcile`** — revisions and first states.

### One guest

**`DeviceForms`** — a configuration as a function on keys; a key holds a word, a
set of words or a device, and a device is a function on options. The
*live form* of a volume names it (option `vol`), the *create form* does not and
makes PVE allocate. **`VmConfig`** and **`LxcConfig`** translate `Validate`,
`ToCreateParams`, `Drift`, `DriftAnomalies` and the clone's `CloneConfigSet`,
`CloneConfigWrite`, `CloneDeleteKeys`, `cloneClearKeys` of `schema/vm.go` and
`schema/lxc.go`, one operator per kind of device. **`Adopt`** is the manifest
that adoption writes for a live configuration. All pure.

**`Guest`** — one guest through the cycles: `Create`, `CloneGuest` and
`CloneRead`, `Plan` (the only read; what it read is `seen`), `StopFirst`,
`Write`, `Restart`, `Power`, `WriteFails` (nothing done, or only what comes
before the devices), `CutOff` (any other failure, or a crash); outside, `Push`
and `Edit`. `Stored` is what PVE makes of a written configuration: defaults
disappear (`PveDefault`; of a mount's `backup` it is a constant, see section 4),
volumes get names and sizes, NICs hardware addresses, and a volume
written in the create form is replaced by another. **`MCGuest`** gives manifests
that differ in almost everything, and the edits.

### The process

**`Composition`** — compositions, the kind roots and what `BuildClusterIndex`
makes of a work tree for one cluster, with every way of failing.
**`GitSource`** — the clone or the operator's own tree; a fetch, a reset, a
reset that stops half-way (`Mixtures`). **`StatusStore`** — records by cluster
(0: the ones written without a cluster name) and the shared cycle record.
**`Agent`** — the process: `Sync`, `Parse`, `LoadLive`, `Plan`, `Begin`,
`Succeed`, `Fail`, `Executed`, `Done` are a cluster's cycle as the store sees
it, with what the cycle finds in PVE and how its actions end left open;
`StartPass`, `EndCycle`, `EndPass` the passes; `FetchOnce` what diff does
first; `Healthy` the answer of `/healthz`. **`MCAgent`** gives the repository, eight
revisions of it with each kind of damage, and `DamageIsFound`, which
tabulates the clusters each of them stops.

### The client

**`WriteBreaker`** — the breaker and the attempts of one request.
**`PveClient`** — operations around it: a request is authorised (`Authorize`),
in flight, answered (`Answered`, `TryAgain`, `Reauthenticate`, `FailFast`) or
given up (`Abandon`); an operation answered with a task goes on to `Poll` and
`Wake` until the task's status is known or the deadline has passed. PVE and the network
are `Deliver`, `TurnDown`, `Lose`, `Garble`, `TaskEnds`, `Forget`,
`TicketAges`, `Revoke`. A wait's polls are requests through the same breaker.

**`ReconcileProofs`**, **`PromiseProofs`**, **`ReportProofs`**, **`OrderProofs`**,
**`PveClientProofs`**, **`GuestProofs`**, **`ConfigProofs`**, **`AgentProofs`** —
section 5.

Definitions introduced by a comment "Mutant of" are the plausible bugs used to
show that each property depends on the code; nothing else uses them.

## 3. Runs

Every bound is a constant of the configuration. In `Reconcile` and `Guest`,
`MaxFaults` bounds the failures of a behaviour, `MaxEdits` what other people do
to guests, `MaxPushes` the commits; in `Agent`, `MaxTroubles` and `MaxCommits`.
Cycles are not bounded, the state spaces are finite without it. In `PveClient`
nothing is bounded but the code's own threshold and number of retries, which
are smaller than the code's 20 and 3.

| Run | Instance and bounds | What it shows |
| --- | --- | --- |
| `Fleet` | a disk image, a template built on it, a VM cloned from the template; 4 revisions, one of which does not parse; every fault, 2 of them; 2 pushes; somebody edits, deletes or untags a guest once | `TypeOK`, `DependencyOrder`, `ReportSound`, `ColdWritesWhenStopped`, `Convergence`, and that the loop implements `SafeCluster` |
| `Containers` | a container template, a container, a template container after it, a slot that turns from container to VM; every fault, 2; 2 pushes | `ReportSound`, and `Convergence` through a change of kind |
| `Crowd` | five guests: a template, two VMs, a container, a stranger's container; budget 2; revisions that claim one, another or none of them; 5 kinds of fault, 1 of them; 1 push | `PruneBudget`, `KeepsDesired`, `EmptyDesiredGuard`, and `Convergence` when there is more to delete than the budget allows |
| `Boundary` | two nodes, one of another cluster, tagged and untagged guests on both; manifests that name the foreign node, entirely or among others | `ClusterBoundary`, `DestroysOnlyTagged`, `HandsOff`, and `SafeCluster` where others own guests |
| `Client` | threshold 3, 2 retries; every fault at every step, any number | `ClientTypeOK`, `OpenAtThreshold`, `CountBounded`, `RejectedTicketNotResent`, `SuccessIsReal`, `OperationsEnd` |
| `Agent` | two clusters, four commands, local mode or not; a good revision, one whose secret does not resolve, one with a manifest missing; 1 trouble, 1 commit or edit | `AgentTypeOK`, `ReadyMeansAll`, `ExitMeansAll`, `CycleIsRecorded`, `Isolation` |
| `Guest` | two VMs, a clone, two containers; 20 edits, 2 of them; 2 pushes; 1 fault | `GuestTypeOK`, `QuietMeansOwned`, `NoIdentityLeak`, `AdoptionIsQuiet`, `VolumesKept`, `UnownedKept`, `EventuallyQuiet` |
| `DeferredIsReady`, `LocalTree`, `HealthzStale`, `EfiTypeLoops`, `CloneKeepsIp` | the smallest instance of each claim | a claim of the repository refuted, section 4 |

Why the bounds are enough to be interesting. In `Fleet` two slots hold a
template and its clone, which is every relation between guests that the planner
knows (source of a clone, prerequisite, neighbour). Two faults allow the second
to strike the recovery from the first, or the same cycle twice; a lost answer and a
crash are among them. Two pushes let a commit arrive during a cycle and be
taken back. Two values of a field are enough for equal and different. In
`Crowd` four deletable guests against a budget of two, with two kinds, put the
count below, at and above the budget. In `Agent` two clusters are enough for
"the other", and one trouble strikes at any step of either; the damage of the
remaining revisions is evaluated once for each. In `Guest` two edits let one
strike between the read and the write and another before or after; a VM's
manifests differ in each field between present, absent and different, and
`BackupDefault` is 0, the default that the drift and its test go by (section 4). In
`Client` a threshold of 3 with 2 retries lets the count pass the threshold by
the attempts of one request, and the breaker open, expire and open again.
Beyond these bounds stand the theorems of section 5, for the properties they
cover.

The properties, in words:

- `DependencyOrder`: an action runs when every planned action of its
  prerequisites on the node is over and none has failed. (A deferred one counts
  as over; `DeferredIsReady` shows what follows from it.)
- `ReportSound`: when an action is about to be recorded as done, PVE shows it
  done, whatever was lost, late or crashed before, even when an earlier cycle's task
  ran on. That a guest runs again is asked only of updates that stopped it first: a
  stop left over from an earlier cycle may take any other guest down after its power
  was read.
- `ColdWritesWhenStopped`: a guest seen running is down while a stop-required
  update is applied.
- `PruneBudget`, `KeepsDesired`: at most `Budget` deletes per cycle, and none
  of them of a slot that the applied revision declares.
- `EmptyDesiredGuard`: when the manifests of a kind are gone and more tagged
  guests of it than the budget are live, none is deleted. It is stated over
  PVE's state when the plan is made, not over the inventory.
- `ClusterBoundary`: plans, executions and tasks stay on the allowlist.
- `DestroysOnlyTagged`, `HandsOff`: steps of the agent and its tasks delete
  only tagged guests, and leave an untagged guest in a slot no revision ever
  declared exactly as it is.
- `KeepsThePromise`: the refinement of `SafeCluster`.
- `Convergence`: `<>[]` PVE equals the head of git and nothing is planned.
- `OpenAtThreshold`, `CountBounded`: the breaker is open exactly from the
  threshold on, and the count passes it by the retries of one request at most.
- `RejectedTicketNotResent`: a ticket answered with 401 is not in a request again.
- `SuccessIsReal`: an operation that ends "ok" has happened in PVE.
- `OperationsEnd`: again and again the client is idle.
- `ReadyMeansAll`, `ExitMeansAll`: readiness and the exit status are those of
  every cluster of the pass, not of the last.
- `CycleIsRecorded`: a finished cycle leaves a record for each resource it
  desired, and without errors none that says failed or left out.
- `Isolation`: in the watch loop, a cluster that stays reconcilable is
  reconciled over and over, whatever aborts the other.
- `QuietMeansOwned`: with no drift and no anomaly, every declared value is in
  PVE; told over the configuration without the drift functions, an option that PVE
  does not report having PVE's default (`PveDefault`), not the drift's.
- `NoIdentityLeak`: a clone at rest has no cloud-init identity key but those
  of its manifest.
- `AdoptionIsQuiet`: whatever became of a guest, the manifest adopted from it
  wants the ownership tag and nothing else.
- `VolumesKept`, `UnownedKept`: a write that succeeds or fails half-way
  keeps each volume the cycle has read, and on it the options nobody declared.
- `EventuallyQuiet`: when edits, pushes and faults end, so do the updates.

## 4. Where code and documentation disagree

| Run | Claim | What the code does |
| --- | --- | --- |
| `DeferredIsReady` | plan.go:70: a dependant is not attempted before its prerequisite is ready | exec.go:107: a deferred action is not remembered as failed, so the dependants of a deferred template are attempted |
| `LocalTree` | ARCHITECTURE.md:191: in local mode the agent never writes the work tree | gitx.go:184: when HEAD has moved, the tree is hard-reset to it, uncommitted edits included |
| `HealthzStale` | OPERATIONS.md:119: `/healthz` is 200 when a cycle has finished within two minutes | app.go:541: only diff renews the git age that `/healthz` asks for; the watch loop is stale two minutes after its start |
| `EfiTypeLoops` | vm.go:1525: the efitype toggle converges in place | vm.go:1558: the rewrite keeps the live efitype, so the guest is stopped, rewritten and restarted in every cycle |
| `CloneKeepsIp` | ref-vm.md:262: an undeclared `ipconfig<N>` of the template never leaks into the guest | vm.go:1079: the slots to clear are counted from the manifest; one without NICs and addresses clears none |

Seen while modelling, without a run of their own:

In the planner and executor:

- plan.go:464: prunes have level 0 and go by node and id, not in reverse
  dependency order (plan.go:65, ARCHITECTURE.md:263).
- plan.go:203: a VM that turns into a TemplateVM while it runs is marked
  without a stop, and refused in every cycle (pveclient/vm.go:122). So `power`
  is no disturbance of the runs that check `Convergence` with templates under
  construction.
- exec.go:499: `stopAndWait` returns the refusal of a guest already stopped
  (its comment says it does not): a stop planned beside a stop-required update
  is recorded as failed, once.
- plan.go:480: guests whose config was not read are not counted, so one failed
  read can bring the count down to the budget and past the guard of
  ARCHITECTURE.md:398.
- `src/README.md:31`: only objects ProxOps created are deleted. A guest
  somebody else made in a declared slot gets the tag from drift correction
  (plan.go:303) and is deleted when its manifest goes. Also, the tag is looked at
  in the inventory and not again at the delete (exec.go:490).
- exec.go:405: a clone is only planned when the VM is absent. A VM that was
  listed but could not be read is taken for absent (plan.go:236, 601); PVE
  refuses the clone.
- exec.go:5: stop, apply, restore. When the power state could not be read, the
  stop is left out and the update goes to a running guest (exec.go:262), which is
  why `ColdWritesWhenStopped` speaks of guests seen running.
- exec.go:157: the in-progress record has no cluster name, so it stays beside
  the final one (`objects[0]` in `Agent`).
- plan.go:739: an artifact whose storage could not be read is skipped, and
  recorded as converged.

In the client and the agent:

- client.go:339: a successful read resets the breaker's count of write
  failures (breaker.go:9, 48). breaker.go:10: a single half-open probe;
  `allows()` closes the breaker for good when its time is up.
- errors.go:44: a request that PVE refuses because an earlier one is in
  progress is not tied to that one's task; it fails.
- gitx.go:78: the revision reported is that of the last good reset; a reset
  that stopped half-way leaves a tree that is of no revision.
- parse.go:314: each cycle loads the composition of all clusters, so a broken
  one stops them all (reconcile.go:154 calls their cycles independent).

In the schema:

- vm.go:1040: of a clone's create parameters only the data disks are left out,
  so a clone that declares an EFI disk writes it in the create form over the
  one it copied, which makes PVE replace it (vm.go:1515 calls that the case to
  avoid). `VolumesKept` is about clones that declare none, in `MCGuest` as in
  the theorem (`ClonesInheritEfi`).
- vm.go:1660: any live password satisfies the manifest; a clone that was cut
  off keeps its template's.
- lxc.go:985: tokens of a mount point that nobody declared are dropped by the
  rewrite, against the comment above it; `UnownedKept` is about VMs. So is a
  bind's `ro=1` that the manifest leaves out.
- vm.go:1502: on a clone only an empty ide2 gets the cloud-init drive, and
  vm.go:1254 reports what is there by its pool alone. An ISO in ide2 on the storage
  the manifest names for the drive is neither replaced nor reported (`NoBlindSpots`
  excludes it).
- lxc.go:1020: mount options are compared only when the live mount has some:
  asked for on one that has none they never come, against lxc.go:938 (`NoBlindSpots`
  excludes it too).
- lxc.go:998: the drift takes a mount that tells no `backup=` for one left out of
  the backups, as its test has it (lxc_wire_regressions_test.go:315-318), while
  lxc.go:111, ref-lxc.md:74 and adopt.go:834 give PVE's default as 1, and
  lxc.go:103 has PVE report only what differs from the default. The repository does
  not settle which is true, so it is a constant of `Guest`, `BackupDefault`. The
  runs take the test's 0. With `BackupDefault = "1"` in `Guest.cfg`, TLC finds
  `EventuallyQuiet` violated: a declared backup of 1 is never seen, and the
  container is stopped, if it runs, and rewritten in every cycle
  (`OtherContainer`). A declared 0 counts as there once hands have dropped the
  token, so `QuietMeansOwned` fails too; `NoBlindSpots` excludes that case.
- lxc.go:828: a NIC's `type` is written (lxc.go:740) and parsed, and not compared:
  a declared type that PVE has otherwise is never put right nor reported.
  `NoBlindSpots` excludes it, and no manifest of `MCGuest` declares one.
- schema/adopt.go:167: adoption takes the ISO from ide3 even where no cloud-init
  drive is; the adopted manifest has it on ide2 (vm.go:971), so that the next diff
  moves it (adopt.md:147 lists the drift to expect, and this is not in it). No
  edit of `Guest` takes the drive away from under an ISO.
- A VM's description is sent once and never compared.
- vm.go: a declared NIC is rewritten without the hardware address it has, and
  PVE draws a new one.

## 5. Proofs

### The cluster

`ReconcileProofs`, for every cluster, revision set, budget, first state, set of
strangers, disturbances and faults that satisfies the assumptions of `Schema`, `Planner` and
`Reconcile`:

- `TypeCorrect`: `Spec => []TypeOK`
- `BoundaryHolds`: `Spec => []ClusterBoundary`
- `BudgetHolds`: `Spec => []PruneBudget`
- `DesiredIsKept`: `Spec => []KeepsDesired`
- `PlanSound`, a lemma worth reading by itself: every plan that can be made
  from a well-typed inventory, read on allowed nodes, is well-typed, on allowed
  nodes, within the budget, and deletes nothing the revision declares.

None of these is inductive as it stands. Typing needs more than types: a task's effect on a guest is
only well-typed if the guest is still there when the task ends, and that
follows from PVE's lock. The inductive invariant `IInv` is a conjunction by
groups of variables:

- `GitInv`: a plan is made only from a tree that parses and stays on the
  allowlist;
- `LoadInv`: only listed guests are read;
- `ExecInv`: the calls left fit the action being executed (`Fits`: only an
  action with a manifest writes one, a clone has a source, ...);
- `PlanInv`: outside the execution phase nothing is planned; every planned
  action is sound; the budget and the protection of declared guests hold of the
  set `Planned` (waiting, running and done), which no step of the execution changes;
- `TaskInv`: every task is of a sound action, finds the guest it needs, and
  shares no guest with another task;
- `BoundsInv`: the model's counters are numbers.

Each group has its lemma `...Step` with one step per action. The budget
argument is the only one about cardinality: `PlanSound` maps the deletes of a
plan injectively to the slots kept by `IsKept`.

`PromiseProofs`, under the same assumptions:

- `PromiseKept`: `Spec => KeepsThePromise`, that `Reconcile` implements
  `SafeCluster`;
- `OnlyTaggedDestroyed`: `Spec => DestroysOnlyTagged`, and `UntaggedLeftAlone`:
  `Spec => HandsOff`, both where others only delete, edit, start and stop guests
  (`Disturbances \subseteq {"delete", "power", "edit"}`). The hypothesis is
  needed: whoever strips a tag after it was read has the guest deleted all the
  same, and so does whoever puts another guest in its place. `PromiseKept`
  needs none, since `SafeCluster` promises nothing of leftovers once others
  have moved.

A step that changes PVE is the effect of a task that may be many cycles old, so
the simulation needs to know of every task why it exists. `PromiseInv` adds to `IInv`:

- `AimInv` and `Wanted`: each action but a delete is asked for by the revision it
  was planned from (its guest's manifest, and that of the template it is
  copied from), and each running task by *some* revision that applies;
- `HeldInv`: what PVE checked when it accepted a task is still true, because the
  task holds its guests (`HeldIsKept`);
- `SpareInv`: a guest at a slot with a tagged config that was read is gone, of
  the other type, or still tagged and of the same name (`Kept`), and no task is
  making one of its type there. It is carried from the read (`ReadKept`)
  through the plan (`DoomedKept`: the same for what is to be deleted, which
  moreover is unclaimed) to the task (`DyingKept`). That a plan makes no
  guest where it deletes one of the same type is `KeepsDesired`, so that property is
  what keeps `SpareInv` inductive.

`EffectCases` then says what a step can do to PVE, and `WriteAllowed`,
`DeleteAllowed` and `DownloadAllowed` find the step of `SafeCluster` it is. The
lemmas `Safe...` say that the operators `SafeCluster` takes from `Planner` and
`Schema` are the ones `Reconcile` takes from them.

`ReportProofs` follows the calls of the action in hand:

- `ReportsAreSound`: `Spec => []ReportSound`;
- `ColdWritesAreCold`: `Spec => []ColdWritesWhenStopped`, where others only delete,
  untag and edit guests (`Disturbances \subseteq {"delete", "untag", "edit"}`).
  The hypothesis is needed: who starts the guest between the stop and the write has it
  written to while it runs.

`CallInv` says which calls of the action's program have been made (`Made`) and that
what is left is the rest of it; `WellOrdered`, a fact about `Program` alone, says what
must have been called before each call and what all of them amount to. `PostInv`
says that what the finished calls have achieved (`Post`) still stands while nobody
else has changed anything, and that between two calls no task is at work on the guest. That is
what could fail with a task of a crashed cycle still running: PVE's lock makes the
call wait for it or be refused, so when a call of this action has succeeded, no old one is
left (`Elsewhere`). `LullInv` is the same for the time between the stop of an update
and its write.

`OrderProofs`:

- `DependenciesFirst`: `Spec => []DependencyOrder`;
- `LevelsRise`: the levels the index computes rise along every dependency of an index that
  parses.

The planner orders by level, so what it computes round by round (`Levels`) has to be right for
any acyclic set of manifests. Induction over data is out of the prover's reach
(the library's theorems take an operator), so `UpTo` does it over a set, from the
well-foundedness of the numbers: the recursive function exists and is
unfolded (`RoundsExist`, `LevelsAreRounds`), after *k* rounds each level is at most
*k* (`RoundsCount`), and the resources that still have a way down of
*k* steps are fewer in every round, since there is no cycle (`DeepShrinks`). As many
rounds as there are resources therefore reach a fixed point (`LastRound`), and
there levels rise. `RankedInv` carries this into the plan (`Precedes`), and `TurnInv` says
that nothing left to do precedes the action in hand and that no prerequisite of it is known to
have failed.

### The client

`PveClientProofs`, for every threshold and number of retries. Of `WriteBreaker`
by itself: `TypeCorrect`, `FlagFollowsCount` (`OpenAtThreshold`), `CountStaysBounded`
(`CountBounded`). The bound needs `CountFollowsAttempt`: a write begins below the
threshold, so in its attempt *k* the count is below the threshold plus *k*.

Then of the client: `ClientUsesBreaker` shows that every step of it is a step of
`WriteBreaker` or leaves it alone, so these theorems carry over
(`ClientOpenAtThreshold`, `ClientCountBounded`). Its own are

- `ClientIsTyped` (`ClientTypeOK`);
- `RefusedTicketDropped` (`RejectedTicketNotResent`), which needs that from a
  refusal on no ticket is held and none is on its way until a new one is issued;
- `ReportedIsReal` (`SuccessIsReal`), whose invariant ties the stage of
  an operation, its request and the task PVE accepted together: while a
  create or delete is polled, the last task is the operation's own and its
  outcome, while PVE remembers it, is that of the object.

### One guest

`GuestProofs`: `NoVolumeIsLost`, `Spec => VolumesKept`, for every set of valid
manifests in which clones declare no EFI disk, every template, every edit by
hand and every number of pushes, edits and faults. The slots are assumed to be
distinct from all other keys (`SlotsAssumption`).

The argument has two halves. About the drift functions: an update computed from
a configuration names, for each volume of that configuration it touches, that
very volume, and deletes none (`Harmless`, with `Keeps` for what is set). One
lemma per kind of device (`DiskKeeps`, `EfiKeeps`, `RootKeeps`, `MountKeeps`,
`BindKeeps`) says that the live form names the volume it rewrites and that the
create form is used on empty slots alone; `OverKeeps` puts their results
together, up to `VmDriftKeeps`, `LxcDriftKeeps` and `CloneWriteKeeps`. About the
cycle: `VolumesKept` speaks of a write, which happens several steps after the
read it rests on, with hands at work in between. So the inductive invariant
`IInv` says that the update in hand is harmless to the configuration that was
read (`seen`), not to the one that is there, and that a clone is only configured
for a manifest that asks for one. `WriteKeeps` then carries this through what
PVE makes of the write, whole or half.

`ConfigProofs` is about the values themselves, for the same constants:

- `GuestIsTyped`: `Spec => []GuestTypeOK`;
- `UnownedIsKept`: `Spec => UnownedKept`, where clones declare no EFI disk
  (`ClonesInheritEfi`, as above);
- `NoIdentityLeaks`: `Spec => []NoIdentityLeak`, where the address slots that the
  template and hands use are among those each clone's manifest counts
  (`AddressesAreCleared`). `CloneKeepsIp` shows that it needs the hypothesis;
- `QuietIsOwned`: `Spec => []QuietMeansOwned`, outside four blind spots of the
  drift (`NoBlindSpots`, each in section 4): a container's mount that declares mount
  options, one that declares `backup` where `BackupDefault` is not the 0 of the
  drift, a container's NIC that declares its type, a clone's cloud-init drive on the
  storage of the ISO images. TLC finds a counterexample in each of them;
- `AdoptionStaysQuiet`: `AdoptionIsQuiet` holds of every state of every behaviour
  in which no VM has something in ide3 without a cloud-init drive in ide2
  (`MediaInPlace`: section 4, the ISO that adoption moves), where hands do not delete
  the architecture of a container (`ArchIsLeft`: adoption would declare amd64 for it).

What carries them is `GInv`: the configuration of the guest is one PVE could
report (`WellFormed`: a volume has a pool, a name and, but for a cloud-init
volume, a size; a mount point a path; ide2 and ide3 a drive or an ISO; a switch,
that of a volume's I/O thread too, is on or off), the cycle's variables fit its
place, and the plan in hand `Fits` what it was computed from. `Fits` says of each
value of a write what has to be true whatever is live when it arrives: PVE makes
a complete device of it (`Storable`), a switch is a switch, a VM's address is
one its manifest declares, and of a volume that was read the value carries every
option that is neither declared nor `iothread` (`Spared`). The lemmas `...Fits`
find this of every drift function; `StoredWellFormed` and `SparedStays` carry it
through what PVE stores, whole or half.

The last two theorems do not follow the steps at all. `QuietIsOwned` reads each
drift function backwards, from an empty update and no anomaly to the declared
value in place, and needs `GInv` because only for what PVE can report do the
comparisons see everything: a mount without a path, for one, would not be
compared. `AdoptionStaysQuiet` composes the two directions of the schema, reading
a configuration into a manifest and comparing the manifest with it: the lemmas
`Adopted...` say of each kind of device and word that what adoption takes over is
equal where it is compared and that what it leaves out is not compared.
`AdoptedMediaStay` is where ide2 and ide3 must be told apart. `ArchInv` adds that
PVE has the architecture of every container, from its creation on.

### The process

`AgentProofs`, for every set of clusters, every repository, whatever its
revisions hold or lack, and every number of troubles and commits:

- `ProcessIsTyped`: `AgentSpec => []AgentTypeOK`
- `ReadinessIsTrue`: `AgentSpec => []ReadyMeansAll`
- `ExitIsTrue`: `AgentSpec => []ExitMeansAll`
- `RecordIsComplete`: `AgentSpec => []CycleIsRecorded`

The first and the last are about a tree nobody committed: after a reset that
stopped half-way or an edit, the tree is of no revision, and a cycle may well
parse it. `GitInv` says what is left: each path holds what *some* revision
has there (`PatchworkTree`), so an index made from it is of resources the store
knows (`IndexIsRecorded`). `PassInv` says that the clusters before the one in hand have their
outcome in this pass; `FirstIsFirst` and `NextIsNext` (from the
well-foundedness of the numbers) say that none is passed over, so after the
last all have one. `CycleInv` keeps what is in hand in step with the phase, and
`RecordInv` carries the record through a cycle: what is desired and not recorded as
done is to be done or being acted on, unless an error was counted, so when
nothing is left to do all of it is recorded.

### Assumptions, and what is not proved

Assumptions are those on the constants (`SchemaAssumption`, `BudgetAssumption`,
`ReconcileAssumption`, `BreakerAssumption`, `ManifestsAssumption`,
`SlotsAssumption`, `TemplateAssumption`, `EditsAssumption`, `BoundsAssumption`,
`BackupAssumption` (either default of a mount's `backup`, so every theorem holds
of both),
`CompositionAssumption`), evaluated by TLC in each run, and the hypotheses that a
theorem states: `ClonesInheritEfi`, `AddressesAreCleared`, `NoBlindSpots`,
`ArchIsLeft` and, of each state, `MediaInPlace`, each of them true of the
instance of `Guest`, and the bound on disturbances of
`OnlyTaggedDestroyed`, `UntaggedLeftAlone` and `ColdWritesAreCold`.

Only model-checked: of `Reconcile`, `EmptyDesiredGuard`. It speaks of what is live
in PVE when the plan is made, and the code counts what it has read; a
configuration that could not be read, or a guest that an older task makes after
the listing, sets the two apart, so it is no theorem of every instance. Liveness (`Convergence`, `EventuallyQuiet`, `Isolation`,
`OperationsEnd`) under fairness is out of the prover's reach.

## 6. Fairness

`Reconcile`'s `FairSpec` (`Fleet`, `Containers`, `Crowd`) assumes

- weak fairness of `Agent`: the process goes on with the step it can take and,
  after a cycle, begins another. The code's justification is the ticker loop of
  `app.go`, which runs a pass at every tick until it is stopped, and the
  deadlines on every request and wait. After a `Crash` the supervisor restarts the agent, so the
  next cycle is again a step of `Agent`.
- weak fairness of each slot's and each file's tasks: PVE ends the tasks it accepted. The code relies on
  it: it polls until a deadline and in the next cycle plans again.

`Guest`'s `FairSpec` assumes weak fairness of the agent's steps for the same reason, and of a
write that PVE refuses, which ends with an error. `Agent`'s `AgentSpec` assumes it
of the process (`Run`); of the alternatives in `Run` none is favoured, so an action may
always fail while troubles last. `PveClient`'s `ClientFairSpec` assumes it of the
client's steps, of `Lose` (an HTTP request that gets no answer is over at its
timeout) and of `Deadline` (the context of a wait has one).

Nothing is assumed of faults, pushes and disturbances, except that the bounds
make them end. That is what the convergence properties are about: *once they
are over*. `OperationsEnd` does without: faults go on for ever in `Client`.

## 7. Not modelled, and why

- Configuration (`config/`): read once before anything else runs; precedence
  of sources and validation, no state that a cycle changes.
- Secrets (`secrets/`): runs `sops`, parses its output, checks permissions.
  Whether a manifest's secrets resolve is in `Agent` (`NoSecret`).
- Command line, metrics and logs only parse, read or print. `/status` and
  `/metrics` print what the store holds.
- Adoption's listing of guests and artifacts, generated names and file
  writing: one pass that reads PVE and writes new files.
- Spellings: sizes, pci addresses, property strings, wire booleans. The models
  have the values; that two spellings of one value compare equal is not shown.
- Of `Validate`, the rules nothing else relies on. `spec.extra` is sent once, at
  creation (vm.go:914), and never compared; validation keeps it off the keys and the scsi
  and net slots that the other fields own.
- Guests that migrate, and a guest PVE refuses to delete for ever: no
  disturbance of `Reconcile` does that.
- Templates in `Guest`: a TemplateVM or TemplateCT has its guest's fields,
  drift and adoption; `Reconcile` has their making and marking.
- Shutdown: a cycle that is cancelled ends like a crash.

## 8. Where to go on

The distances between the state machines are bridged by words, not by
refinement: that `Reconcile`'s one-step request is what `PveClient` does, that
its `hot` and `cold` are what `Guest`'s drift decides, that `Agent`'s cycle is
`Reconcile`'s seen from the store. A proof that would follow next: `EmptyDesiredGuard`
where no read fails and no task outlives its cycle.
