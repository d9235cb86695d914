------------------------------ MODULE MCAgent ------------------------------
(***************************************************************************)
(* Two clusters in one repository for TLC: the first desires an ISO and a  *)
(* VM that boots from it, the second a VM of the same name.                *)
(***************************************************************************)
EXTENDS Agent, TLC

At(root, sub, file) == [root |-> root, sub |-> sub, file |-> file]

Prod1 == At("clusters", 1, "resources")
Prod2 == At("clusters", 2, "resources")
BootFile == At("iso", 1, "boot")
Web1File == At("vm", 1, "web")
Web2File == At("vm", 2, "web")
OldFile == At("vm", 0, "web")          \* the legacy layout

Thing(kind, name, node, id, state) ==
    [ref |-> [kind |-> kind, name |-> name], nodes |-> {node}, id |-> id, hot |-> "a",
     cold |-> "a", state |-> state, uses |-> {}, after |-> {}, clone |-> NoRef]

BootIso == Thing("ISO", "boot", 1, 0, "")
Web1 == [Thing("VM", "web", 1, 1, "started") EXCEPT !.uses = {BootIso.ref}]
Web2 == Thing("VM", "web", 2, 1, "started")
Sealed == [Web2 EXCEPT !.cold = "b"]   \* names a secret the cluster has not

Usual == (Prod1 :> {BootFile, Web1File}) @@ (Prod2 :> {Web2File}) @@ (BootFile :> {BootIso})
          @@ (Web1File :> {Web1}) @@ (Web2File :> {Web2}) @@ (OldFile :> Absent)

Tree(v) ==
    CASE v = "good"    -> Usual
      [] v = "garbled" -> [Usual EXCEPT ![Web2File] = Garbled]
      [] v = "missing" -> [Usual EXCEPT ![Web2File] = Absent]
      [] v = "legacy"  -> [Usual EXCEPT ![OldFile] = {Web1}]
      [] v = "unborn"  -> [Usual EXCEPT ![Prod2] = Absent]
      [] v = "stray"   -> [Usual EXCEPT ![Web2File] = {[Web2 EXCEPT !.nodes = {1}]}]
      [] v = "twice"   -> [Usual EXCEPT ![Prod1] = {BootFile, Web1File, Web2File}]
      [] v = "reduced" -> [Usual EXCEPT ![Prod1] = {BootFile}, ![Web2File] = {Sealed}]

(* Every kind of damage, and the clusters whose index it breaks: what is   *)
(* in a composition stops both, what is in a manifest its cluster only.    *)
Broken == ("good" :> {}) @@ ("reduced" :> {}) @@ ("stray" :> {})
            @@ ("garbled" :> {2}) @@ ("twice" :> {1}) @@ ("missing" :> {1, 2})
            @@ ("legacy" :> {1, 2}) @@ ("unborn" :> {1, 2})

ASSUME DamageIsFound ==
    \A v \in DOMAIN Broken : {c \in Clusters : ~BuildClusterIndex(Tree(v), c)} = Broken[v]

MCPaths == {Prod1, Prod2, BootFile, Web1File, Web2File, OldFile}
MCRepository == [v \in Revisions |-> [p \in Paths |-> Tree(v)[p]]]
MCManifests == [v \in Revisions |-> {}]
MCReachable == (1 :> {1}) @@ (2 :> {2})
MCNoSecret == {<<2, Sealed>>}

=============================================================================
