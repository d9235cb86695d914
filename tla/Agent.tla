------------------------------- MODULE Agent -------------------------------
(***************************************************************************)
(* The agent process: one git source and one status store shared by the    *)
(* clusters, one reconciler per cluster, run in the order of their names   *)
(* by the watch loop (run) or once (apply, diff, status), and the          *)
(* readiness that /healthz answers with.  What a cycle finds in PVE and    *)
(* how its actions end is left open here: Reconcile has that.              *)
(***************************************************************************)
EXTENDS GitSource, StatusStore

CONSTANTS
    Reachable,     \* the node allowlist of each cluster
    NoSecret,      \* <<cluster, resource>>: a cloud-init secret it cannot resolve
    Troubles,      \* what may go wrong
    MaxTroubles, MaxCommits     \* bounds of the model

ASSUME AgentAssumption ==
    /\ Reachable \in [Clusters -> SUBSET Nodes]
    /\ NoSecret \subseteq Clusters \X Resource
    /\ Troubles \subseteq {"fetch", "reset", "down", "action", "delay"}
    /\ MaxTroubles \in Nat /\ MaxCommits \in Nat

VARIABLES
    command,    \* what the process was started for
    phase,      \* where it is
    turn,       \* the cluster in hand
    good,       \* clusters that have a last good index
    commit,     \* Reconciler.lastCommit
    desired,    \* the index of the cycle in hand
    read,       \* resources whose live state the cycle has read
    todo,       \* resources with an action to come
    deferred,   \* prunes over the budget
    acting,     \* the resource being acted on
    failed,     \* resources whose action failed in this cycle
    outcome,    \* how the clusters' cycles of this pass ended
    exit,       \* exit status of a one-shot command
    ready, lastGit, lastPVE,    \* inputs of /healthz
    down,       \* clusters whose PVE does not answer
    troubles, commits           \* how much of the bounds is used

cycleVars == <<desired, read, todo, deferred, acting, failed>>
healthVars == <<ready, lastGit, lastPVE>>
boundVars == <<down, troubles, commits>>
agentVars == <<gitVars, storeVars, command, phase, turn, good, commit, cycleVars,
               outcome, exit, healthVars, boundVars>>

Trouble(kind) == /\ kind \in Troubles /\ troubles < MaxTroubles
                 /\ troubles' = troubles + 1 /\ UNCHANGED <<down, commits>>
NoTrouble == UNCHANGED boundVars

DryRun == command \in {"diff", "status"}
First == Min(Clusters)
IsLast(c) == \A d \in Clusters : d <= c
NextAfter(c) == Min({d \in Clusters : d > c})

AgentInit ==
    /\ GitInit /\ StoreInit
    /\ command \in {"run", "apply", "diff", "status"}
    /\ phase = CASE command = "run" -> "waiting"
                 [] command = "diff" -> "fetch" [] OTHER -> "sync"
    /\ turn = First
    /\ good = {} /\ commit = [c \in Clusters |-> "none"]
    /\ desired = {} /\ read = {} /\ todo = {} /\ deferred = {}
    /\ acting = NoRef /\ failed = {}
    /\ outcome = [c \in Clusters |-> "none"] /\ exit = "none"
    /\ ready = FALSE /\ lastGit = "recent" /\ lastPVE = "never"
    /\ down = {} /\ troubles = 0 /\ commits = 0

Fetch ==
    \/ (FetchNothing \/ FetchMoves) /\ NoTrouble
    \/ FetchFails /\ Trouble("fetch")
    \/ ResetFails /\ Trouble("reset")

-----------------------------------------------------------------------------
(* One cluster's cycle.                                                    *)

Aborted == \E c \in Clusters : outcome[c] = "aborted"

(* Mutant of EndPass: the last cluster decides.                            *)
LastDecides ==
    CASE command = "run" ->
            /\ phase' = "waiting"
            /\ ready' = (outcome'[turn] # "aborted") /\ UNCHANGED exit
      [] command = "status" -> phase' = "over" /\ exit' = "ok" /\ UNCHANGED ready
      [] OTHER -> /\ phase' = "over"
                  /\ exit' = IF outcome'[turn] = "aborted" THEN "abort" ELSE "ok"
                  /\ ready' = IF command = "diff" THEN outcome'[turn] # "aborted" ELSE ready

(* Every cluster has had its turn.                                         *)
EndPass ==
    CASE command = "run" ->
            phase' = "waiting" /\ ready' = ~Aborted' /\ UNCHANGED exit
      [] command = "status" -> phase' = "over" /\ exit' = "ok" /\ UNCHANGED ready
      [] OTHER -> /\ phase' = "over"
                  /\ exit' = IF Aborted' THEN "abort" ELSE "ok"
                  /\ ready' = IF command = "diff" THEN ~Aborted' ELSE ready

(* Mutant of EndCycle: an abort ends the pass.                             *)
EndCycleAbortsPass(result) ==
    /\ outcome' = [outcome EXCEPT ![turn] = result]
    /\ desired' = {} /\ read' = {} /\ todo' = {} /\ deferred' = {} /\ failed' = {}
    /\ lastPVE' = IF command = "status" THEN lastPVE ELSE "recent"
    /\ UNCHANGED <<acting, lastGit>>
    /\ IF IsLast(turn) \/ result = "aborted"
       THEN EndPass /\ turn' = First
       ELSE turn' = NextAfter(turn) /\ phase' = "sync" /\ UNCHANGED <<exit, ready>>

(* markPVERead does not ask how the cycle ended.                           *)
EndCycle(result) ==
    /\ outcome' = [outcome EXCEPT ![turn] = result]
    /\ desired' = {} /\ read' = {} /\ todo' = {} /\ deferred' = {} /\ failed' = {}
    /\ lastPVE' = IF command = "status" THEN lastPVE ELSE "recent"
    /\ UNCHANGED <<acting, lastGit>>
    /\ IF IsLast(turn) THEN EndPass /\ turn' = First
       ELSE turn' = NextAfter(turn) /\ phase' = "sync" /\ UNCHANGED <<exit, ready>>

Abort(cycle) ==
    /\ last' = FinishCycle(cycle, TRUE) /\ UNCHANGED objects
    /\ EndCycle("aborted")

(* The fetch is advisory once an index of this cluster was good.           *)
Sync ==
    /\ phase = "sync"
    /\ Fetch
    /\ IF ~fetched' /\ turn \notin good
       THEN Abort(BeginCycle(commit[turn], FALSE, DryRun))
       ELSE /\ last' = BeginCycle(rev', ~fetched', DryRun)
            /\ phase' = "parse"
            /\ UNCHANGED <<objects, turn, cycleVars, outcome, exit, healthVars>>
    /\ UNCHANGED <<command, good, commit>>

SecretsResolve(D) == \A r \in D : <<turn, r>> \notin NoSecret
OnOwnNodes(D) == \A r \in D : \A n \in r.nodes :
                    Reachable[turn] = {} \/ n \in Reachable[turn]

Parse ==
    /\ phase = "parse"
    /\ IF BuildClusterIndex(tree, turn) /\ SecretsResolve(IndexOf(tree, turn))
       THEN /\ good' = good \union {turn}
            /\ commit' = [commit EXCEPT ![turn] = last.commit]
            /\ IF OnOwnNodes(IndexOf(tree, turn))
               THEN /\ desired' = IndexOf(tree, turn) /\ phase' = "load"
                    /\ UNCHANGED <<storeVars, turn, read, todo, deferred, acting,
                                   failed, outcome, exit, healthVars>>
               ELSE Abort(last)
       ELSE Abort(last) /\ UNCHANGED <<good, commit>>
    /\ NoTrouble
    /\ UNCHANGED <<gitVars, command>>

LoadLive ==
    /\ phase = "load"
    /\ IF turn \in down THEN Abort(last)
       ELSE /\ phase' = "plan"
            /\ UNCHANGED <<storeVars, turn, cycleVars, outcome, exit, healthVars>>
    /\ NoTrouble
    /\ UNCHANGED <<gitVars, command, good, commit>>

(* What the planner may find of a declared resource.  "device" is a        *)
(* live-only device, which does not keep other drift from being planned;   *)
(* only the listing of a storage, for artifacts, may be unreadable without *)
(* an action being planned.                                                *)
Findings(r) == {"match", "drift", "device", "device and drift"}
                 \union IF IsArtifact(r) THEN {"unread"} ELSE {}

(* Mutant of PlanStates: only what the plan touches is recorded.           *)
PlannedStates(found) ==
    [x \in {r \in DOMAIN found : found[r] # "match"} |->
        IF found[x] \in {"device", "device and drift"} THEN "anomalous"
        ELSE IF found[x] = "drift" THEN "drift" ELSE "converged"]

(* A resource with an action planned is drift, any other converged, and a  *)
(* live-only device makes either anomalous.                                *)
PlanStates(found) ==
    [x \in DOMAIN found |->
        IF found[x] \in {"device", "device and drift"} THEN "anomalous"
        ELSE IF found[x] = "drift" THEN "drift" ELSE "converged"]

Plan ==
    /\ phase = "plan"
    /\ \E found \in [Refs(desired) -> UNION {Findings(r) : r \in desired}] :
       \E prunes \in SUBSET (Recorded \ Refs(desired)) :
       \E spared \in SUBSET (Recorded \ Refs(desired)) :
          /\ \A r \in desired : found[r.ref] \in Findings(r)
          /\ prunes \intersect spared = {}
          /\ \A x \in prunes \union spared : x.kind \in GuestKinds
          /\ read' = {x \in DOMAIN found : found[x] # "unread"}
          /\ objects' = SetObjects(turn, PlanStates(found))
          /\ LET cycle == [last EXCEPT !.anomalies =
                     @ \/ \E x \in DOMAIN found : found[x] \in {"device", "device and drift"}]
             IN  IF DryRun
                 THEN /\ last' = FinishCycle(cycle, FALSE)
                      /\ phase' = "done" /\ UNCHANGED <<todo, deferred>>
                 ELSE /\ last' = cycle /\ phase' = "exec"
                      /\ todo' = prunes \union
                            {x \in DOMAIN found : found[x] \in {"drift", "device and drift"}}
                      /\ deferred' = spared
    /\ NoTrouble
    /\ UNCHANGED <<gitVars, command, turn, good, commit, desired, acting, failed,
                   outcome, exit, healthVars>>

-----------------------------------------------------------------------------
(* The executor, as far as the store sees it.                              *)

DepsOf(x) == IF x \in Refs(desired) THEN EdgesFor(ByRef(desired, x)) ELSE {}

Begin(x) ==
    /\ phase = "exec" /\ acting = NoRef
    /\ x \in todo /\ DepsOf(x) \intersect todo = {}
    /\ todo' = todo \ {x}
    /\ IF DepsOf(x) \intersect failed # {}
       THEN objects' = SetObject(turn, x, "skipped") /\ UNCHANGED acting
       ELSE objects' = SetObject(0, x, "in_progress") /\ acting' = x
    /\ NoTrouble
    /\ UNCHANGED <<gitVars, last, command, phase, turn, good, commit, desired, read,
                   deferred, failed, outcome, exit, healthVars>>

Succeed ==
    /\ acting # NoRef
    /\ objects' = SetObject(turn, acting,
                     IF acting \in Refs(desired) THEN "converged" ELSE "pruned")
    /\ acting' = NoRef
    /\ NoTrouble
    /\ UNCHANGED <<gitVars, last, command, phase, turn, good, commit, desired, read,
                   todo, deferred, failed, outcome, exit, healthVars>>

(* Mutant of Fail: the error is recorded with the object only.             *)
FailUncounted ==
    /\ acting # NoRef
    /\ objects' = SetObject(turn, acting, "failed")
    /\ failed' = failed \union {acting} /\ acting' = NoRef
    /\ Trouble("action")
    /\ UNCHANGED <<gitVars, last, command, phase, turn, good, commit, desired, read,
                   todo, deferred, outcome, exit, healthVars>>

Fail ==
    /\ acting # NoRef
    /\ objects' = SetObject(turn, acting, "failed")
    /\ last' = [last EXCEPT !.errors = TRUE]
    /\ failed' = failed \union {acting} /\ acting' = NoRef
    /\ Trouble("action")
    /\ UNCHANGED <<gitVars, command, phase, turn, good, commit, desired, read, todo,
                   deferred, outcome, exit, healthVars>>

(* Mutant of Executed: the last action is not waited for.                  *)
ExecutedEarly ==
    /\ phase = "exec" /\ todo = {}
    /\ objects' = SetObjects(0, [x \in deferred |-> "skipped"])
    /\ last' = FinishCycle(last, FALSE)
    /\ phase' = "done"
    /\ NoTrouble
    /\ UNCHANGED <<gitVars, command, turn, good, commit, cycleVars, outcome, exit,
                   healthVars>>

(* recordDeferred, and FinishCycle.                                        *)
Executed ==
    /\ phase = "exec" /\ todo = {} /\ acting = NoRef
    /\ objects' = SetObjects(0, [x \in deferred |-> "skipped"])
    /\ last' = FinishCycle(last, FALSE)
    /\ phase' = "done"
    /\ NoTrouble
    /\ UNCHANGED <<gitVars, command, turn, good, commit, cycleVars, outcome, exit,
                   healthVars>>

Done ==
    /\ phase = "done"
    /\ EndCycle(IF failed = {} THEN "done" ELSE "incomplete")
    /\ NoTrouble
    /\ UNCHANGED <<gitVars, storeVars, command, good, commit>>

-----------------------------------------------------------------------------
(* The ticker of the watch loop fires.                                     *)
StartPass ==
    /\ phase = "waiting"
    /\ phase' = "sync" /\ outcome' = [c \in Clusters |-> "none"]
    /\ NoTrouble
    /\ UNCHANGED <<gitVars, storeVars, command, turn, good, commit, cycleVars, exit,
                   healthVars>>

(* fetchOnce, before a diff; the only place that renews lastGit.           *)
FetchOnce ==
    /\ phase = "fetch"
    /\ Fetch
    /\ lastGit' = IF fetched' THEN lastOK' ELSE lastGit
    /\ phase' = "sync"
    /\ UNCHANGED <<storeVars, command, turn, good, commit, cycleVars, outcome, exit,
                   ready, lastPVE>>

Healthy == ready /\ lastGit # "old" /\ lastPVE # "old"

-----------------------------------------------------------------------------
(* Two minutes pass.                                                       *)
Age(t) == IF t = "recent" THEN "old" ELSE t

TimePasses ==
    /\ lastOK' = Age(lastOK) /\ lastGit' = Age(lastGit) /\ lastPVE' = Age(lastPVE)
    /\ <<lastOK, lastGit, lastPVE>> # <<lastOK', lastGit', lastPVE'>>
    /\ Trouble("delay")
    /\ UNCHANGED <<local, head, tree, rev, fetched, storeVars, command, phase, turn,
                   good, commit, cycleVars, outcome, exit, ready>>

Committed ==
    /\ commits < MaxCommits /\ commits' = commits + 1
    /\ \/ \E v \in Revisions : Commit(v)
       \/ \E v \in Revisions, p \in Paths : Edit(p, v)
    /\ UNCHANGED <<storeVars, command, phase, turn, good, commit, cycleVars, outcome,
                   exit, healthVars, down, troubles>>

(* The PVE of a cluster stops answering, or comes back.                    *)
Outage(c) ==
    /\ "down" \in Troubles /\ UNCHANGED commits
    /\ \/ c \in down /\ down' = down \ {c} /\ UNCHANGED troubles
       \/ /\ c \notin down /\ troubles < MaxTroubles
          /\ down' = down \union {c} /\ troubles' = troubles + 1
    /\ UNCHANGED <<gitVars, storeVars, command, phase, turn, good, commit, cycleVars,
                   outcome, exit, healthVars>>

-----------------------------------------------------------------------------
Run == \/ StartPass \/ FetchOnce \/ Sync \/ Parse \/ LoadLive \/ Plan
       \/ (\E x \in todo : Begin(x)) \/ Succeed \/ Fail \/ Executed \/ Done

AgentNext == Run \/ TimePasses \/ Committed \/ \E c \in Clusters : Outage(c)

AgentSpec == AgentInit /\ [][AgentNext]_agentVars /\ WF_agentVars(Run)

-----------------------------------------------------------------------------
(* Every variable keeps its type, and the cycle its shape.                 *)
AgentTypeOK ==
    /\ GitTypeOK /\ StoreTypeOK
    /\ phase \in {"waiting", "fetch", "sync", "parse", "load", "plan", "exec", "done", "over"}
    /\ turn \in Clusters /\ good \subseteq Clusters
    /\ read \union todo \union deferred \union failed \subseteq Recorded
    /\ acting \in Recorded \union {NoRef}
    /\ acting # NoRef => phase = "exec"
    /\ phase \in {"waiting", "fetch", "sync", "over"} => desired \union todo = {}
    /\ desired \subseteq Resource
    /\ outcome \in [Clusters -> {"none", "done", "incomplete", "aborted"}]
    /\ lastGit \in {"recent", "old"} /\ lastPVE \in {"never", "recent", "old"}

(* Between the passes of the watch loop readiness speaks for every         *)
(* cluster: none of them aborted in the last pass, whichever came last.    *)
ReadyMeansAll ==
    phase = "waiting" /\ ready => \A c \in Clusters : outcome[c] \in {"done", "incomplete"}

(* apply and diff exit well only when every cluster got to the end of its  *)
(* cycle, and fail only when one of them did not.                          *)
ExitMeansAll ==
    phase = "over" /\ command \in {"apply", "diff"} =>
        (exit = "ok" <=> \A c \in Clusters : outcome[c] \in {"done", "incomplete"})

(* A finished cycle leaves a record of its cluster for every resource it   *)
(* desired, and one that counts no error no record of a failure or of a    *)
(* dependant left out.                                                     *)
CycleIsRecorded ==
    phase = "done" =>
        \A r \in desired :
            /\ objects[turn][r.ref] # "unknown"
            /\ ~last.errors /\ ~DryRun => objects[turn][r.ref] \in {"converged", "anomalous"}

(* The cluster can be reconciled: the work tree parses for it and its PVE  *)
(* answers.                                                                *)
CanRun(c) ==
    /\ c \notin down
    /\ head = rev /\ tree = Repository[head]
    /\ BuildClusterIndex(tree, c)
    /\ \A r \in IndexOf(tree, c) : <<c, r>> \notin NoSecret
    /\ \A r \in IndexOf(tree, c) : \A n \in r.nodes :
          Reachable[c] = {} \/ n \in Reachable[c]

(* A cluster's abort does not keep the others from being reconciled: in    *)
(* the watch loop a cluster that can be reconciled is, over and over.      *)
Isolation ==
    \A c \in Clusters :
        (command = "run" /\ <>[]CanRun(c)) => []<>(outcome[c] \in {"done", "incomplete"})

-----------------------------------------------------------------------------
(* What the documents say of it.                                           *)

(* ARCHITECTURE.md:191: "Local mode: the work tree is authoritative; the   *)
(* agent never writes it": an edit not yet committed stays.                *)
LocalTreeIsKept == [][Run /\ local => UNCHANGED tree]_agentVars

(* OPERATIONS.md:119: "/healthz -- 200 when a reconcile cycle has finished *)
(* within the last 2 minutes".                                             *)
HealthyAfterPass ==
    command = "run" /\ phase = "waiting" /\ ready /\ lastPVE = "recent" => Healthy

=============================================================================
