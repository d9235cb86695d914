---------------------------- MODULE AgentProofs ----------------------------
(***************************************************************************)
(* What the process says of its clusters is true, for any number of        *)
(* clusters, any repository and any damage to it: readiness and exit       *)
(* status speak for all of them, and a finished cycle has recorded all it  *)
(* desired.  The first is about passes (PassInv: behind the cluster in     *)
(* hand every cluster has its outcome), the second about one cycle         *)
(* (RecordInv: what is not yet recorded as done is still to be done).      *)
(***************************************************************************)
EXTENDS Agent, WellFoundedInduction, TLAPS

LEMMA ClustersAreNumbers == Clusters \subseteq Nat /\ Clusters # {} /\ 0 \notin Clusters
BY CompositionAssumption

LEMMA MinIsLeast ==
    ASSUME NEW S, S \subseteq Nat, S # {}
    PROVE  Min(S) \in S /\ \A d \in S : Min(S) <= d
<1> DEFINE less == OpToRel(<, Nat)
<1>1. \A x, y \in Nat : <<x, y>> \in less <=> x < y
  BY DEF OpToRel
<1>2. IsWellFoundedOn(less, Nat)
  BY NatLessThanWellFounded
<1> HIDE DEF less
<1>3. PICK x \in S : \A y \in S : ~(<<y, x>> \in less)
  BY <1>2, WFMin
<1>4. \A y \in S : x \in Nat /\ y \in Nat /\ ~(y < x)
  BY <1>1, <1>3
<1>5. \A y \in S : x <= y
  BY <1>4
<1> QED BY <1>5 DEF Min

LEMMA FirstIsFirst == First \in Clusters /\ \A c \in Clusters : First <= c
BY MinIsLeast, ClustersAreNumbers DEF First

LEMMA NextIsNext ==
    ASSUME NEW c \in Clusters, ~IsLast(c)
    PROVE  NextAfter(c) \in Clusters /\ \A d \in Clusters : d < NextAfter(c) => d <= c
<1> DEFINE behind == {d \in Clusters : d > c}
<1>1. c \in Nat /\ \A d \in Clusters : d \in Nat
  BY ClustersAreNumbers
<1>2. behind \subseteq Nat /\ behind # {}
  <2>1. PICK d \in Clusters : ~(d <= c)
    BY DEF IsLast
  <2>2. d \in behind
    BY <1>1, <2>1
  <2> QED BY <1>1, <2>2
<1>3. NextAfter(c) = Min(behind)
  BY DEF NextAfter
<1>4. Min(behind) \in behind /\ \A e \in behind : Min(behind) <= e
  <2> HIDE DEF behind
  <2> QED BY <1>2, MinIsLeast
<1>5. NextAfter(c) \in Clusters
  BY <1>3, <1>4
<1>6. ASSUME NEW d \in Clusters, d < NextAfter(c) PROVE d <= c
  <2>1. d \notin behind \/ NextAfter(c) <= d
    BY <1>3, <1>4
  <2>2. NextAfter(c) \in Nat
    BY <1>1, <1>5
  <2> QED BY <1>1, <1>6, <2>1, <2>2
<1> QED BY <1>5, <1>6

-----------------------------------------------------------------------------
(* The work tree.                                                          *)

(* Whatever was fetched, reset half-way or edited, each path holds what    *)
(* some revision has there.                                                *)
GitInv ==
    /\ GitTypeOK
    /\ \A p \in Paths : \E v \in Revisions : tree[p] = Repository[v][p]

LEMMA RevisionTree == \A v \in Revisions : Repository[v] \in WorkTree
BY CompositionAssumption

(* A tree put together from revisions is a work tree.                      *)
LEMMA PatchworkTree ==
    ASSUME NEW t, t = [p \in Paths |-> t[p]],
           \A p \in Paths : \E v \in Revisions : t[p] = Repository[v][p]
    PROVE  t \in WorkTree
<1> DEFINE X == {Absent, Garbled} \union SUBSET Paths \union SUBSET Resource
           In(p, x) == x \in {Absent, Garbled} \union (IF p.root = "clusters" THEN SUBSET Paths
                                              ELSE SUBSET Resource)
<1>1. \A u : u \in WorkTree <=> u \in [Paths -> X] /\ \A p \in Paths : In(p, u[p])
  BY DEF WorkTree
<1> HIDE DEF X, In
<1>2. \A p \in Paths : t[p] \in X /\ In(p, t[p])
  BY <1>1, RevisionTree
<1> QED BY <1>1, <1>2

LEMMA IndexIsRecorded ==
    ASSUME GitInv, NEW c \in Clusters, BuildClusterIndex(tree, c)
    PROVE  IndexOf(tree, c) \subseteq Resource /\ Refs(IndexOf(tree, c)) \subseteq Recorded
<1>1. \A p \in Paths :
         /\ p.root = "clusters" => tree[p] \in {Absent, Garbled} \union SUBSET Paths
         /\ p.root # "clusters" => tree[p] \in {Absent, Garbled} \union SUBSET Resource
  BY DEF GitInv, GitTypeOK, WorkTree
<1>2. \A p \in CompositionPaths : p \in Paths /\ p.root = "clusters"
  BY DEF CompositionPaths, ManifestPaths
<1>3. \A p \in CompositionPaths : tree[p] # Absent =>
          tree[p] \subseteq Paths /\ \A f \in tree[p] : tree[f] # Absent
  BY <1>1, <1>2 DEF BuildClusterIndex, AllCompositions, CompositionLoads
<1>4. \A f \in FilesOf(tree, c) : f \in Paths /\ tree[f] # Absent
  BY <1>3 DEF FilesOf
<1>5. \A f \in FilesOf(tree, c) : f.root \in KindRoots /\ tree[f] # Garbled
  BY DEF BuildClusterIndex, FilesIndex
<1>6. \A f \in FilesOf(tree, c) : f \in ManifestPaths /\ f.root # "clusters"
  BY <1>4, <1>5 DEF ManifestPaths, KindRoots
<1>7. \A f \in FilesOf(tree, c) : tree[f] \subseteq Resource
  BY <1>1, <1>4, <1>5, <1>6
<1>8. IndexOf(tree, c) \subseteq Resource
  BY <1>7 DEF IndexOf
<1>9. ASSUME NEW r \in IndexOf(tree, c) PROVE r.ref \in Recorded
  <2>1. PICK f \in FilesOf(tree, c) : r \in tree[f]
    BY DEF IndexOf
  <2>2. PICK v \in Revisions : tree[f] = Repository[v][f]
    BY <1>4 DEF GitInv
  <2>3. r.ref \in Refs(Repository[v][f])
    BY <2>1, <2>2 DEF Refs
  <2>4. f \in {q \in ManifestPaths : Repository[v][q] \notin {Absent, Garbled}}
    BY <1>4, <1>5, <1>6, <2>2
  <2> QED BY <2>3, <2>4 DEF Recorded
<1> QED BY <1>8, <1>9 DEF Refs

LEMMA NoRefIsNoRecord == NoRef \notin Recorded
<1>1. ASSUME NEW v \in Revisions, NEW p \in ManifestPaths,
             Repository[v][p] \notin {Absent, Garbled}
      PROVE  NoRef \notin Refs(Repository[v][p])
  <2>1. p \in Paths /\ p.root # "clusters"
    BY DEF ManifestPaths
  <2>2. Repository[v][p] \subseteq Resource
    BY <1>1, <2>1, RevisionTree DEF WorkTree
  <2>3. \A r \in Resource : r.ref \in Ref
    BY DEF Resource
  <2>4. NoRef \notin Ref
    <3>1. NoRef.kind = ""
      BY DEF NoRef
    <3>2. \A x \in Ref : x.kind \in GuestKinds \union ArtifactKinds
      BY DEF Ref
    <3>3. "" \notin GuestKinds \union ArtifactKinds
      BY DEF GuestKinds, ArtifactKinds
    <3> QED BY <3>1, <3>2, <3>3
  <2> QED BY <2>2, <2>3, <2>4 DEF Refs
<1> QED BY <1>1 DEF Recorded

LEMMA GitStep ==
    ASSUME GitInv, [AgentNext]_agentVars
    PROVE  GitInv'
<1> USE DEF GitInv, GitTypeOK
<1>1. CASE UNCHANGED gitVars
  BY <1>1 DEF gitVars
<1>2. CASE Fetch
  <2>1. CASE FetchNothing \/ FetchFails
    BY <1>2, <2>1 DEF FetchNothing, FetchFails
  <2>2. CASE FetchMoves
    BY <1>2, <2>2, RevisionTree DEF FetchMoves
  <2>3. CASE ResetFails
    <3>1. PICK written \in SUBSET Paths :
            tree' = [p \in Paths |-> IF p \in written THEN Repository[head][p] ELSE tree[p]]
      BY <2>3 DEF ResetFails, Mixtures
    <3>2. \A p \in Paths : \E v \in Revisions : tree'[p] = Repository[v][p]
      BY <3>1
    <3>3. tree' \in WorkTree
      BY <3>1, <3>2, PatchworkTree
    <3> QED BY <2>3, <3>2, <3>3 DEF ResetFails
  <2> QED BY <1>2, <2>1, <2>2, <2>3 DEF Fetch
<1>3. CASE \E v \in Revisions : Commit(v)
  <2>1. PICK v \in Revisions : Commit(v)
    BY <1>3
  <2>2. CASE ~local
    BY <2>1, <2>2 DEF Commit
  <2>3. CASE local
    <3>1. tree' = [p \in Paths |-> IF tree[p] = Repository[head][p]
                                     THEN Repository[v][p] ELSE tree[p]]
      BY <2>1, <2>3 DEF Commit
    <3>2. \A p \in Paths : \E w \in Revisions : tree'[p] = Repository[w][p]
      BY <3>1
    <3>3. tree' \in WorkTree
      BY <3>1, <3>2, PatchworkTree
    <3> QED BY <2>1, <3>2, <3>3 DEF Commit
  <2> QED BY <2>2, <2>3
<1>4. CASE \E v \in Revisions, p \in Paths : Edit(p, v)
  <2>1. PICK v \in Revisions, q \in Paths : Edit(q, v)
    BY <1>4
  <2>2. tree' = [tree EXCEPT ![q] = Repository[v][q]]
    BY <2>1 DEF Edit
  <2>3. tree' = [p \in Paths |-> tree'[p]]
    BY <2>2 DEF WorkTree
  <2>4. \A p \in Paths : \E w \in Revisions : tree'[p] = Repository[w][p]
    BY <2>2 DEF WorkTree
  <2>5. tree' \in WorkTree
    BY <2>3, <2>4, PatchworkTree
  <2> QED BY <2>1, <2>4, <2>5 DEF Edit
<1>5. CASE TimePasses
  <2>1. lastOK' \in {"recent", "old"}
    BY <1>5 DEF TimePasses, Age
  <2> QED BY <1>5, <2>1 DEF TimePasses
<1>6. CASE FetchOnce \/ Sync
  BY <1>2, <1>6 DEF FetchOnce, Sync
<1>7. CASE Committed
  BY <1>3, <1>4, <1>7 DEF Committed
<1>8. CASE \/ StartPass \/ Parse \/ LoadLive \/ Plan \/ (\E x \in todo : Begin(x))
           \/ Succeed \/ Fail \/ Executed \/ Done \/ \E c \in Clusters : Outage(c)
  BY <1>1, <1>8 DEF StartPass, Parse, LoadLive, Plan, Begin, Succeed, Fail, Executed,
     Done, Outage
<1>9. CASE UNCHANGED agentVars
  BY <1>1, <1>9 DEF agentVars
<1> QED BY <1>5, <1>6, <1>7, <1>8, <1>9 DEF AgentNext, Run

-----------------------------------------------------------------------------
(* Passes.                                                                 *)

InPass == {"sync", "parse", "load", "plan", "exec", "done"}
Outcomes == {"none", "done", "incomplete", "aborted"}

(* The clusters before the one in hand have had their turn in this pass.   *)
PassInv ==
    /\ phase \in InPass \union {"waiting", "fetch", "over"}
    /\ turn \in Clusters /\ good \subseteq Clusters
    /\ outcome \in [Clusters -> Outcomes]
    /\ lastGit \in {"recent", "old"} /\ lastPVE \in {"never", "recent", "old"}
    /\ phase \in {"waiting", "fetch"} => turn = First
    /\ phase \in InPass => \A c \in Clusters : c < turn => outcome[c] # "none"
    /\ ReadyMeansAll
    /\ ExitMeansAll

(* Every cycle ends this way, well or not.                                 *)
LEMMA EndCycleKeeps ==
    ASSUME PassInv, phase \in InPass, NEW result \in Outcomes \ {"none"},
           EndCycle(result), command' = command, good' \subseteq Clusters
    PROVE  PassInv'
<1>1. /\ turn \in Clusters /\ outcome \in [Clusters -> Outcomes]
      /\ \A c \in Clusters : c \in Nat
  BY ClustersAreNumbers DEF PassInv
<1>2. /\ outcome' \in [Clusters -> Outcomes]
      /\ outcome'[turn] = result
      /\ \A c \in Clusters \ {turn} : outcome'[c] = outcome[c]
  BY <1>1 DEF EndCycle
<1>3. \A c \in Clusters : c <= turn => outcome'[c] # "none"
  <2>1. \A c \in Clusters : c < turn => outcome[c] # "none"
    BY DEF PassInv
  <2> QED BY <1>1, <1>2, <2>1
<1>4. lastGit' \in {"recent", "old"} /\ lastPVE' \in {"never", "recent", "old"}
  BY DEF EndCycle, PassInv
<1>5. CASE IsLast(turn)
  <2>1. EndPass /\ turn' = First
    BY <1>5 DEF EndCycle
  <2>2. \A c \in Clusters : outcome'[c] \in Outcomes \ {"none"}
    BY <1>2, <1>3, <1>5 DEF IsLast
  <2>3. Aborted' <=> ~\A c \in Clusters : outcome'[c] \in {"done", "incomplete"}
    BY <2>2 DEF Aborted, Outcomes
  <2>4. CASE command = "run"
    <3>1. phase' = "waiting" /\ ready' = ~Aborted'
      BY <2>1, <2>4 DEF EndPass
    <3> QED BY <1>2, <1>4, <2>1, <2>3, <3>1, FirstIsFirst
            DEF PassInv, InPass, ReadyMeansAll, ExitMeansAll
  <2>5. CASE command # "run"
    <3>1. phase' = "over"
      BY <2>1, <2>5 DEF EndPass
    <3>2. command' \in {"apply", "diff"} => exit' = IF Aborted' THEN "abort" ELSE "ok"
      BY <2>1, <2>5 DEF EndPass
    <3> QED BY <1>2, <1>4, <2>1, <2>3, <3>1, <3>2, FirstIsFirst
            DEF PassInv, InPass, ReadyMeansAll, ExitMeansAll
  <2> QED BY <2>4, <2>5
<1>6. CASE ~IsLast(turn)
  <2>1. turn' = NextAfter(turn) /\ phase' = "sync"
    BY <1>6 DEF EndCycle
  <2>2. turn' \in Clusters /\ \A c \in Clusters : c < turn' => outcome'[c] # "none"
    BY <1>1, <1>3, <1>6, <2>1, NextIsNext
  <2> QED BY <1>2, <1>4, <2>1, <2>2 DEF PassInv, InPass, ReadyMeansAll, ExitMeansAll
<1> QED BY <1>5, <1>6

(* A step inside a cycle, or outside of every pass, leaves it all alone.   *)
LEMMA SamePass ==
    ASSUME PassInv, UNCHANGED <<turn, outcome, exit, ready, command>>,
           good' \subseteq Clusters,
           lastGit' \in {"recent", "old"}, lastPVE' \in {"never", "recent", "old"},
           \/ phase' = phase
           \/ phase \in InPass /\ phase' \in InPass
    PROVE  PassInv'
BY DEF PassInv, InPass, ReadyMeansAll, ExitMeansAll

LEMMA PassStep ==
    ASSUME GitInv, GitInv', PassInv, [AgentNext]_agentVars
    PROVE  PassInv'
<1>1. lastGit \in {"recent", "old"} /\ lastPVE \in {"never", "recent", "old"}
      /\ good \subseteq Clusters /\ turn \in Clusters
  BY DEF PassInv
<1>2. CASE StartPass
  BY <1>2, FirstIsFirst, ClustersAreNumbers
     DEF StartPass, PassInv, InPass, Outcomes, ReadyMeansAll, ExitMeansAll, healthVars
<1>3. CASE FetchOnce
  <2>1. lastGit' \in {"recent", "old"} /\ lastPVE' = lastPVE
    BY <1>1, <1>3 DEF FetchOnce, GitInv, GitTypeOK
  <2>2. turn = First /\ turn' = First /\ phase' = "sync"
    BY <1>3 DEF FetchOnce, PassInv
  <2> QED BY <1>3, <2>1, <2>2, FirstIsFirst, ClustersAreNumbers
          DEF FetchOnce, PassInv, InPass, ReadyMeansAll, ExitMeansAll
<1>4. ASSUME phase \in {"sync", "parse", "load"}, NEW cycle, Abort(cycle),
             command' = command, good' \subseteq Clusters
      PROVE  PassInv'
  BY <1>4, EndCycleKeeps DEF Abort, InPass, Outcomes
<1>5. CASE Sync
  <2>1. CASE ~fetched' /\ turn \notin good
    BY <1>1, <1>4, <1>5, <2>1 DEF Sync
  <2>2. CASE ~(~fetched' /\ turn \notin good)
    BY <1>1, <1>5, <2>2, SamePass DEF Sync, healthVars, InPass
  <2> QED BY <2>1, <2>2
<1>6. CASE Parse
  <2>1. good' \subseteq Clusters /\ command' = command
    BY <1>1, <1>6 DEF Parse
  <2>2. CASE \E cycle : Abort(cycle)
    BY <1>4, <1>6, <2>1, <2>2 DEF Parse
  <2>3. CASE ~\E cycle : Abort(cycle)
    BY <1>1, <1>6, <2>1, <2>3, SamePass DEF Parse, healthVars, InPass
  <2> QED BY <2>2, <2>3
<1>7. CASE LoadLive
  <2>1. CASE turn \in down
    BY <1>1, <1>4, <1>7, <2>1 DEF LoadLive
  <2>2. CASE turn \notin down
    BY <1>1, <1>7, <2>2, SamePass DEF LoadLive, healthVars, InPass
  <2> QED BY <2>1, <2>2
<1>8. CASE Done
  <2>1. PICK result \in {"done", "incomplete"} : EndCycle(result)
    BY <1>8 DEF Done
  <2> QED BY <1>1, <1>8, <2>1, EndCycleKeeps DEF Done, InPass, Outcomes
<1>9. CASE Plan \/ (\E x \in todo : Begin(x)) \/ Succeed \/ Fail \/ Executed
  BY <1>1, <1>9, SamePass
     DEF Plan, Begin, Succeed, Fail, Executed, healthVars, InPass
<1>10. CASE TimePasses \/ Committed \/ \E c \in Clusters : Outage(c)
  BY <1>1, <1>10, SamePass DEF TimePasses, Age, Committed, Outage, healthVars
<1>11. CASE UNCHANGED agentVars
  BY <1>1, <1>11, SamePass DEF agentVars, healthVars
<1> QED BY <1>2, <1>3, <1>5, <1>6, <1>7, <1>8, <1>9, <1>10, <1>11 DEF AgentNext, Run

-----------------------------------------------------------------------------
(* Cycles.                                                                 *)

(* What the cycle in hand is working with has a record in the store.       *)
CycleInv ==
    /\ StoreTypeOK
    /\ commit \in [Clusters -> Revisions \union {"none"}]
    /\ phase \in {"parse", "load", "plan", "exec", "done"} => last \in Cycle
    /\ desired \subseteq Resource /\ Refs(desired) \subseteq Recorded
    /\ read \union todo \union deferred \union failed \subseteq Recorded
    /\ acting \in Recorded \union {NoRef}
    /\ acting # NoRef => phase = "exec"
    /\ phase \notin {"load", "plan", "exec", "done"} => desired = {}
    /\ phase # "exec" => todo = {}
    /\ phase \notin {"exec", "done"} => failed = {}

(* What is desired and not recorded as done is to be done, unless an error *)
(* was counted.                                                            *)
Told(x) ==
    /\ objects[turn][x] # "unknown"
    /\ ~last.errors /\ ~DryRun =>
          \/ x \in todo \union {acting}
          \/ objects[turn][x] \in {"converged", "anomalous"}

RecordInv ==
    phase \in {"exec", "done"} =>
        /\ ~last.errors => failed = {}
        /\ \A r \in desired : Told(r.ref)

(* What the store may hold.                                                *)
Tables == [Clusters \union {0} -> [Recorded -> States \union {"unknown"}]]

LEMMA SetObjectTyped ==
    ASSUME StoreTypeOK, NEW c \in Clusters \union {0}, NEW x, NEW state \in States
    PROVE  /\ SetObject(c, x, state) \in Tables
           /\ \A d \in Clusters \union {0}, y \in Recorded :
                 SetObject(c, x, state)[d][y] =
                    IF d = c /\ y = x THEN state ELSE objects[d][y]
BY DEF SetObject, StoreTypeOK, Tables

LEMMA SetObjectsTyped ==
    ASSUME StoreTypeOK, NEW c \in Clusters \union {0}, NEW states,
           \A x \in DOMAIN states : states[x] \in States
    PROVE  /\ SetObjects(c, states) \in Tables
           /\ \A d \in Clusters \union {0}, y \in Recorded :
                 SetObjects(c, states)[d][y] =
                    IF d = c /\ y \in DOMAIN states THEN states[y] ELSE objects[d][y]
BY DEF SetObjects, StoreTypeOK, Tables

LEMMA CyclesTyped ==
    /\ \A v \in Revisions \union {"none"}, s, d \in BOOLEAN : BeginCycle(v, s, d) \in Cycle
    /\ \A k \in Cycle, a \in BOOLEAN :
          FinishCycle(k, a) \in Cycle /\ FinishCycle(k, a).errors = k.errors
    /\ \A k \in Cycle, e \in BOOLEAN : [k EXCEPT !.errors = e] \in Cycle
    /\ \A k \in Cycle, e \in BOOLEAN : [k EXCEPT !.anomalies = e] \in Cycle
BY DEF BeginCycle, FinishCycle, Cycle

LEMMA PlanStatesTyped ==
    ASSUME NEW found
    PROVE  /\ DOMAIN PlanStates(found) = DOMAIN found
           /\ \A x \in DOMAIN found :
                 /\ PlanStates(found)[x] \in {"anomalous", "drift", "converged"}
                 /\ PlanStates(found)[x] = "drift" => found[x] = "drift"
BY DEF PlanStates

(* A cycle that ends leaves nothing in hand.                               *)
LEMMA EndCycleClears ==
    ASSUME CycleInv, phase \in InPass \ {"exec"}, NEW result, EndCycle(result),
           StoreTypeOK', commit' \in [Clusters -> Revisions \union {"none"}]
    PROVE  CycleInv'
<1>1. phase' \in {"waiting", "over", "sync"}
  BY DEF EndCycle, EndPass
<1>2. acting' = NoRef
  BY DEF EndCycle, CycleInv
<1> QED BY <1>1, <1>2 DEF EndCycle, CycleInv, Refs

LEMMA AbortClears ==
    ASSUME CycleInv, phase \in {"sync", "parse", "load"}, NEW cycle \in Cycle,
           Abort(cycle), commit' \in [Clusters -> Revisions \union {"none"}]
    PROVE  CycleInv'
<1>1. StoreTypeOK'
  BY CyclesTyped DEF Abort, CycleInv, StoreTypeOK
<1> QED BY <1>1, EndCycleClears DEF Abort, InPass

LEMMA CycleStep ==
    ASSUME GitInv, GitInv', PassInv, CycleInv, [AgentNext]_agentVars
    PROVE  CycleInv'
<1>1. turn \in Clusters /\ StoreTypeOK
  BY DEF PassInv, CycleInv
<1>2. CASE Sync
  <2>1. DryRun \in BOOLEAN /\ fetched' \in BOOLEAN /\ rev' \in Revisions
    BY DEF DryRun, GitInv, GitTypeOK
  <2>2. commit' = commit /\ commit[turn] \in Revisions \union {"none"}
    BY <1>1, <1>2 DEF Sync, CycleInv
  <2>3. CASE ~fetched' /\ turn \notin good
    <3>1. BeginCycle(commit[turn], FALSE, DryRun) \in Cycle
      BY <2>1, <2>2, CyclesTyped
    <3> QED BY <1>2, <2>2, <2>3, <3>1, AbortClears DEF Sync, CycleInv
  <2>4. CASE ~(~fetched' /\ turn \notin good)
    <3>1. last' \in Cycle
      BY <1>2, <2>1, <2>4, CyclesTyped DEF Sync
    <3> QED BY <1>2, <2>2, <2>4, <3>1 DEF Sync, CycleInv, StoreTypeOK, cycleVars
  <2> QED BY <2>3, <2>4
<1>3. CASE Parse
  <2>1. last \in Cycle /\ last.commit \in Revisions \union {"none"}
    BY <1>3 DEF Parse, CycleInv, Cycle
  <2>2. commit' \in [Clusters -> Revisions \union {"none"}]
    BY <1>3, <2>1 DEF Parse, CycleInv
  <2>3. CASE Abort(last)
    BY <1>3, <2>1, <2>2, <2>3, AbortClears DEF Parse
  <2>4. CASE ~Abort(last)
    <3>1. BuildClusterIndex(tree, turn) /\ desired' = IndexOf(tree, turn) /\ phase' = "load"
      BY <1>3, <2>4 DEF Parse
    <3>2. desired' \subseteq Resource /\ Refs(desired') \subseteq Recorded
      BY <1>1, <3>1, IndexIsRecorded
    <3>3. UNCHANGED <<storeVars, read, todo, deferred, acting, failed>>
      BY <1>3, <2>4 DEF Parse
    <3> QED BY <1>3, <2>1, <2>2, <3>1, <3>2, <3>3
            DEF Parse, CycleInv, StoreTypeOK, storeVars, Refs
  <2> QED BY <2>3, <2>4
<1>4. CASE LoadLive
  <2>1. last \in Cycle
    BY <1>4 DEF LoadLive, CycleInv
  <2>2. CASE turn \in down
    BY <1>4, <2>1, <2>2, AbortClears DEF LoadLive, CycleInv
  <2>3. CASE turn \notin down
    BY <1>4, <2>3 DEF LoadLive, CycleInv, StoreTypeOK, storeVars, cycleVars
  <2> QED BY <2>2, <2>3
<1>5. CASE Plan
  <2>1. PICK found \in [Refs(desired) -> UNION {Findings(r) : r \in desired}],
             prunes \in SUBSET (Recorded \ Refs(desired)),
             spared \in SUBSET (Recorded \ Refs(desired)) :
          /\ read' = {x \in DOMAIN found : found[x] # "unread"}
          /\ objects' = SetObjects(turn, PlanStates(found))
          /\ LET cycle == [last EXCEPT !.anomalies =
                     @ \/ \E x \in DOMAIN found : found[x] \in {"device", "device and drift"}]
             IN  IF DryRun
                 THEN /\ last' = FinishCycle(cycle, FALSE)
                      /\ phase' = "done" /\ UNCHANGED <<todo, deferred>>
                 ELSE /\ last' = cycle /\ phase' = "exec"
                      /\ todo' = prunes \union
                            {x \in DOMAIN found : found[x] \in {"drift", "device and drift"}}
                      /\ deferred' = spared
    BY <1>5 DEF Plan
  <2>2. DOMAIN found = Refs(desired) /\ Refs(desired) \subseteq Recorded
    BY <2>1 DEF CycleInv
  <2>3. objects' \in Tables
    BY <1>1, <2>1, SetObjectsTyped, PlanStatesTyped DEF States
  <2>4. last \in Cycle /\ last.anomalies \in BOOLEAN
    BY <1>5 DEF Plan, CycleInv, Cycle
  <2>5. last' \in Cycle
    BY <2>1, <2>4, CyclesTyped
  <2>6. phase' \in {"exec", "done"} /\ (phase' = "done" => todo' = {})
    BY <1>5, <2>1 DEF Plan, CycleInv
  <2>7. read' \union todo' \union deferred' \subseteq Recorded
    BY <2>1, <2>2 DEF CycleInv
  <2> QED BY <1>5, <2>3, <2>5, <2>6, <2>7 DEF Plan, CycleInv, StoreTypeOK, Tables, Refs
<1>6. CASE \E x \in todo : Begin(x)
  <2>1. PICK x \in todo : Begin(x)
    BY <1>6
  <2>2. x \in Recorded
    BY DEF CycleInv
  <2>3. objects' \in Tables
    <3>1. SetObject(turn, x, "skipped") \in Tables
      BY <1>1, SetObjectTyped DEF States
    <3>2. SetObject(0, x, "in_progress") \in Tables
      BY <1>1, SetObjectTyped DEF States
    <3> QED BY <2>1, <3>1, <3>2 DEF Begin
  <2> QED BY <2>1, <2>2, <2>3 DEF Begin, CycleInv, StoreTypeOK, Tables, Refs
<1>7. CASE Succeed \/ Fail
  <2>1. phase = "exec" /\ acting \in Recorded /\ last \in Cycle
    BY <1>7 DEF Succeed, Fail, CycleInv
  <2>2. objects' \in Tables
    <3>1. \A state \in States : SetObject(turn, acting, state) \in Tables
      BY <1>1, SetObjectTyped
    <3>2. {"converged", "pruned", "failed"} \subseteq States
      BY DEF States
    <3> QED BY <1>7, <3>1, <3>2 DEF Succeed, Fail
  <2>3. last' \in Cycle
    BY <1>7, <2>1, CyclesTyped DEF Succeed, Fail
  <2> QED BY <1>7, <2>1, <2>2, <2>3 DEF Succeed, Fail, CycleInv, StoreTypeOK, Tables, Refs
<1>8. CASE Executed
  <2>1. objects' \in Tables
    BY <1>1, <1>8, SetObjectsTyped DEF Executed, States
  <2>2. last' \in Cycle
    BY <1>8, CyclesTyped DEF Executed, CycleInv
  <2> QED BY <1>8, <2>1, <2>2 DEF Executed, CycleInv, StoreTypeOK, Tables, Refs, cycleVars
<1>9. CASE Done
  <2>1. StoreTypeOK' /\ commit' = commit
    BY <1>1, <1>9 DEF Done, StoreTypeOK, storeVars
  <2> QED BY <1>9, <2>1, EndCycleClears DEF Done, InPass, CycleInv
<1>10. CASE StartPass \/ FetchOnce
  BY <1>10 DEF StartPass, FetchOnce, CycleInv, StoreTypeOK, storeVars, cycleVars, Refs
<1>11. CASE TimePasses \/ Committed \/ \E c \in Clusters : Outage(c)
  BY <1>11 DEF TimePasses, Committed, Outage, CycleInv, StoreTypeOK, storeVars,
     cycleVars, Refs
<1>12. CASE UNCHANGED agentVars
  BY <1>12 DEF agentVars, CycleInv, StoreTypeOK, storeVars, cycleVars, Refs
<1> QED BY <1>2, <1>3, <1>4, <1>5, <1>6, <1>7, <1>8, <1>9, <1>10, <1>11, <1>12
        DEF AgentNext, Run

-----------------------------------------------------------------------------
(* Records.                                                                *)

LEMMA RecordStep ==
    ASSUME GitInv, PassInv, CycleInv, CycleInv', RecordInv, [AgentNext]_agentVars
    PROVE  RecordInv'
<1> USE DEF RecordInv
<1>1. /\ turn \in Clusters /\ turn # 0 /\ StoreTypeOK
      /\ \A r \in desired : r.ref \in Recorded /\ r.ref \in Refs(desired)
      /\ NoRef \notin Recorded
  BY ClustersAreNumbers, NoRefIsNoRecord DEF PassInv, CycleInv, Refs
<1>2. CASE Plan
  <2>1. PICK found \in [Refs(desired) -> UNION {Findings(r) : r \in desired}],
             prunes \in SUBSET (Recorded \ Refs(desired)) :
          /\ objects' = SetObjects(turn, PlanStates(found))
          /\ LET cycle == [last EXCEPT !.anomalies =
                     @ \/ \E x \in DOMAIN found : found[x] \in {"device", "device and drift"}]
             IN  IF DryRun THEN TRUE
                 ELSE todo' = prunes \union
                            {x \in DOMAIN found : found[x] \in {"drift", "device and drift"}}
    BY <1>2 DEF Plan
  <2>2. \A x \in Refs(desired) \intersect Recorded :
           objects'[turn][x] = PlanStates(found)[x] /\ x \in DOMAIN found
    <3>1. \A x \in DOMAIN PlanStates(found) : PlanStates(found)[x] \in States
      BY PlanStatesTyped DEF States
    <3>2. DOMAIN PlanStates(found) = Refs(desired)
      BY <2>1, PlanStatesTyped
    <3> QED BY <1>1, <2>1, <3>1, <3>2, SetObjectsTyped
  <2>3. UNCHANGED <<turn, desired, command, failed>> /\ failed = {}
    BY <1>2 DEF Plan, CycleInv
  <2>4. ASSUME NEW r \in desired PROVE Told(r.ref)'
    <3>1. objects'[turn'][r.ref] \in {"anomalous", "drift", "converged"}
      BY <1>1, <2>2, <2>3, PlanStatesTyped
    <3>2. objects'[turn'][r.ref] = "drift" => DryRun \/ r.ref \in todo'
      <4>1. objects'[turn'][r.ref] = PlanStates(found)[r.ref] /\ r.ref \in DOMAIN found
        BY <1>1, <2>2, <2>3
      <4>2. objects'[turn'][r.ref] = "drift" => found[r.ref] = "drift"
        BY <4>1, PlanStatesTyped
      <4> QED BY <2>1, <4>1, <4>2
    <3>3. DryRun' = DryRun
      BY <2>3 DEF DryRun
    <3> QED BY <3>1, <3>2, <3>3 DEF Told
  <2> QED BY <2>3, <2>4
<1>3. CASE \E x \in todo : Begin(x)
  <2>1. PICK x \in todo : Begin(x)
    BY <1>3
  <2>2. /\ UNCHANGED <<turn, desired, command, failed, last>> /\ phase = "exec"
        /\ acting = NoRef /\ todo' = todo \ {x}
    BY <2>1 DEF Begin
  <2>3. ASSUME NEW r \in desired PROVE Told(r.ref)'
    <3>1. Told(r.ref)
      BY <2>2
    <3>2. CASE DepsOf(x) \intersect failed # {}
      <4>1. last.errors
        BY <2>2, <3>2
      <4>2. objects' = SetObject(turn, x, "skipped")
        BY <2>1, <3>2 DEF Begin
      <4>3. objects'[turn][r.ref] \in {"skipped", objects[turn][r.ref]}
        BY <1>1, <4>2, SetObjectTyped DEF States
      <4> QED BY <2>2, <3>1, <4>1, <4>3 DEF Told
    <3>3. CASE DepsOf(x) \intersect failed = {}
      <4>1. objects' = SetObject(0, x, "in_progress") /\ acting' = x
        BY <2>1, <3>3 DEF Begin
      <4>2. objects'[turn][r.ref] = objects[turn][r.ref]
        <5>1. "in_progress" \in States /\ r.ref \in Recorded
          BY <1>1, <2>2 DEF States
        <5>2. SetObject(0, x, "in_progress")[turn][r.ref] = objects[turn][r.ref]
          BY <1>1, <5>1, SetObjectTyped
        <5> QED BY <4>1, <5>2
      <4>3. r.ref \in todo \union {acting} => r.ref \in todo' \union {acting'}
        BY <1>1, <2>2, <4>1
      <4> QED BY <2>2, <3>1, <4>2, <4>3 DEF Told, DryRun
    <3> QED BY <3>2, <3>3
  <2> QED BY <2>2, <2>3
<1>4. CASE Succeed
  <2>1. /\ UNCHANGED <<turn, desired, command, failed, last, todo, phase>>
        /\ phase = "exec" /\ acting' = NoRef
    BY <1>4 DEF Succeed, CycleInv
  <2>2. PICK state \in {"converged", "pruned"} :
          /\ objects' = SetObject(turn, acting, state)
          /\ acting \in Refs(desired) => state = "converged"
    BY <1>4 DEF Succeed
  <2>3. ASSUME NEW r \in desired PROVE Told(r.ref)'
    <3>1. Told(r.ref)
      BY <2>1
    <3>2. objects'[turn][r.ref] = IF r.ref = acting THEN "converged" ELSE objects[turn][r.ref]
      BY <1>1, <2>2, SetObjectTyped DEF States
    <3> QED BY <2>1, <3>1, <3>2 DEF Told, DryRun
  <2> QED BY <2>1, <2>3
<1>5. CASE Fail
  <2>1. UNCHANGED <<turn, desired, phase>> /\ phase = "exec" /\ last \in Cycle
    BY <1>5 DEF Fail, CycleInv
  <2>2. last'.errors
    BY <1>5, <2>1 DEF Fail, Cycle
  <2>3. ASSUME NEW r \in desired PROVE objects'[turn][r.ref] # "unknown"
    <3>1. objects[turn][r.ref] # "unknown"
      BY <2>1 DEF Told
    <3>2. objects' = SetObject(turn, acting, "failed")
      BY <1>5 DEF Fail
    <3>3. objects'[turn][r.ref] \in {"failed", objects[turn][r.ref]}
      BY <1>1, <3>2, SetObjectTyped DEF States
    <3> QED BY <3>1, <3>3
  <2> QED BY <2>1, <2>2, <2>3 DEF Told
<1>6. CASE Executed
  <2>1. /\ UNCHANGED <<turn, desired, command, failed, todo, acting>> /\ phase = "exec"
        /\ last'.errors = last.errors
    BY <1>6, CyclesTyped DEF Executed, CycleInv, cycleVars
  <2>2. ASSUME NEW r \in desired PROVE Told(r.ref)'
    <3>1. Told(r.ref)
      BY <2>1
    <3>2. objects'[turn][r.ref] = objects[turn][r.ref]
      <4> DEFINE skips == [x \in deferred |-> "skipped"]
      <4>1. objects' = SetObjects(0, skips)
        BY <1>6 DEF Executed
      <4>2. \A x \in DOMAIN skips : skips[x] \in States
        BY DEF States
      <4> HIDE DEF skips
      <4>3. turn \in Clusters \union {0} /\ turn # 0 /\ r.ref \in Recorded
        BY <1>1, <2>1
      <4>4. SetObjects(0, skips)[turn][r.ref] = objects[turn][r.ref]
        BY <1>1, <4>2, <4>3, SetObjectsTyped
      <4> QED BY <4>1, <4>4
    <3> QED BY <2>1, <3>1, <3>2 DEF Told, DryRun
  <2> QED BY <2>1, <2>2
<1>7. CASE Sync \/ Parse \/ LoadLive \/ Done
  <2>1. phase' \notin {"exec", "done"}
    BY <1>7 DEF Sync, Parse, LoadLive, Done, Abort, EndCycle, EndPass
  <2> QED BY <2>1
<1>8. CASE StartPass \/ FetchOnce
  BY <1>8 DEF StartPass, FetchOnce
<1>9. CASE \/ TimePasses \/ Committed \/ (\E c \in Clusters : Outage(c))
           \/ UNCHANGED agentVars
  <2>1. UNCHANGED <<phase, turn, desired, command, failed, todo, acting, last, objects>>
    BY <1>9 DEF TimePasses, Committed, Outage, agentVars, storeVars, cycleVars
  <2> QED BY <2>1 DEF Told, DryRun
<1> QED BY <1>2, <1>3, <1>4, <1>5, <1>6, <1>7, <1>8, <1>9 DEF AgentNext, Run

-----------------------------------------------------------------------------
ProcessInv == GitInv /\ PassInv /\ CycleInv /\ RecordInv

LEMMA InitialProcess == AgentInit => ProcessInv
<1> SUFFICES ASSUME AgentInit PROVE ProcessInv
  OBVIOUS
<1>1. GitInv
  BY RevisionTree DEF AgentInit, GitInit, GitInv, GitTypeOK
<1>2. phase \in {"waiting", "fetch", "sync"} /\ turn = First /\ First \in Clusters
  BY FirstIsFirst DEF AgentInit
<1>3. PassInv
  BY <1>2, FirstIsFirst, ClustersAreNumbers
     DEF AgentInit, PassInv, InPass, Outcomes, ReadyMeansAll, ExitMeansAll
<1>4. CycleInv
  BY <1>2 DEF AgentInit, CycleInv, StoreInit, StoreTypeOK, Refs
<1>5. RecordInv
  BY <1>2 DEF RecordInv
<1> QED BY <1>1, <1>3, <1>4, <1>5 DEF ProcessInv

LEMMA ProcessStep == ProcessInv /\ [AgentNext]_agentVars => ProcessInv'
BY GitStep, PassStep, CycleStep, RecordStep DEF ProcessInv

LEMMA ProcessIsInvariant == AgentSpec => []ProcessInv
BY InitialProcess, ProcessStep, PTL DEF AgentSpec

(* Every variable keeps its type, and the cycle its shape: nothing is left *)
(* in hand between cycles, and all that is in hand has a record.           *)
THEOREM ProcessIsTyped == AgentSpec => []AgentTypeOK
<1>1. ProcessInv => AgentTypeOK
  BY DEF ProcessInv, GitInv, PassInv, CycleInv, AgentTypeOK, InPass, Outcomes
<1> QED BY <1>1, ProcessIsInvariant, PTL

(* The agent never calls itself ready after a pass in which some cluster's *)
(* cycle aborted, however many clusters there are and whichever came last. *)
THEOREM ReadinessIsTrue == AgentSpec => []ReadyMeansAll
<1>1. ProcessInv => ReadyMeansAll
  BY DEF ProcessInv, PassInv
<1> QED BY <1>1, ProcessIsInvariant, PTL

(* apply and diff exit well if and only if every cluster's cycle got to    *)
(* its end.                                                                *)
THEOREM ExitIsTrue == AgentSpec => []ExitMeansAll
<1>1. ProcessInv => ExitMeansAll
  BY DEF ProcessInv, PassInv
<1> QED BY <1>1, ProcessIsInvariant, PTL

(* A cycle that got to its end has a record of all it desired, under its   *)
(* own cluster's name, and if it counted no error a good one.              *)
THEOREM RecordIsComplete == AgentSpec => []CycleIsRecorded
<1>1. ASSUME ProcessInv, phase = "done", NEW r \in desired
      PROVE  r.ref \notin todo \union {acting}
  BY <1>1, NoRefIsNoRecord DEF ProcessInv, CycleInv, Refs
<1>2. ProcessInv => CycleIsRecorded
  BY <1>1 DEF ProcessInv, RecordInv, Told, CycleIsRecorded
<1> QED BY <1>2, ProcessIsInvariant, PTL

=============================================================================
