------------------------------- MODULE Schema -------------------------------
(***************************************************************************)
(* The desired side of ProxOps: what a manifest is, when the manifests of  *)
(* a git revision form a valid index, and the dependency levels the        *)
(* planner orders by.  Everything here is constant: a revision never       *)
(* changes, only which revision the agent looks at does.                   *)
(*                                                                         *)
(* A guest's configuration is reduced to two owned fields: "hot", which    *)
(* PVE applies to a running guest, and "cold", which needs the guest       *)
(* stopped (cpu, memory, nics, machine, ...).  Nodes are numbered in the   *)
(* order of their names.                                                   *)
(***************************************************************************)
EXTENDS Naturals, FiniteSets, FiniteSetsExt

CONSTANTS
    Nodes,       \* PVE nodes
    Ids,         \* PVE vmids and cids
    Names,       \* metadata.name values
    Values,      \* values of an owned configuration field
    Allowed,     \* pve.clusters.<name>.nodes; {} accepts every node
    Revisions,   \* git commits
    Manifests    \* the cluster's resources at each commit

GuestKinds == {"VM", "LXC", "TemplateVM", "TemplateCT"}
TemplateKinds == {"TemplateVM", "TemplateCT"}
ArtifactKinds == {"ISO", "CTTemplate", "DiskImage"}

(* The zero Ref, carried by prunes: they target no manifest. *)
NoRef == [kind |-> "", name |-> ""]

Ref == [kind : GuestKinds \union ArtifactKinds, name : Names]

(* "uses" holds the structured artifact references (cdrom.iso,             *)
(* disks[].image, template), "after" the depends-on annotation.            *)
Resource == [ref   : Ref,
             nodes : SUBSET Nodes,
             id    : Ids \union {0},
             hot   : Values,
             cold  : Values,
             state : {"started", "stopped", ""},
             uses  : SUBSET Ref,
             after : SUBSET Ref,
             clone : Ref \union {NoRef}]

ASSUME SchemaAssumption ==
    /\ Nodes \subseteq Nat /\ IsFiniteSet(Nodes)
    /\ Ids \subseteq Nat \ {0} /\ IsFiniteSet(Ids)
    /\ Allowed \subseteq Nodes
    /\ "" \notin Names
    /\ Manifests \in [Revisions -> SUBSET Resource]
    /\ \A v \in Revisions : IsFiniteSet(Manifests[v])

IsArtifact(r) == r.ref.kind \in ArtifactKinds
Guests(D) == {r \in D : ~IsArtifact(r)}
Artifacts(D) == {r \in D : IsArtifact(r)}

(* Template guests share the id space and the API routes of VMs / LXCs.    *)
PveType(kind) == IF kind \in {"VM", "TemplateVM"} THEN "VM" ELSE "LXC"

NodeOf(r) == CHOOSE n \in r.nodes : TRUE
SlotOf(r) == <<NodeOf(r), r.id>>

NodeAllowed(n) == Allowed = {} \/ n \in Allowed

-----------------------------------------------------------------------------
(* Dependency edges: structured references, the clone source, and the      *)
(* annotation, which is not read for a DiskImage.                          *)
EdgesFor(r) ==
    (r.uses \union {r.clone}
            \union IF r.ref.kind = "DiskImage" THEN {} ELSE r.after) \ {NoRef}

Refs(D) == {r.ref : r \in D}
ByRef(D, x) == CHOOSE r \in D : r.ref = x

(* The per-manifest rules of Validate that the planner relies on.          *)
Validate(r) ==
    /\ r.nodes # {}
    /\ r.uses \subseteq {x \in Ref : x.kind \in ArtifactKinds}
    /\ IsArtifact(r) => r.id = 0 /\ r.state = "" /\ r.uses = {}
    /\ ~IsArtifact(r) => r.id # 0 /\ Cardinality(r.nodes) = 1 /\ r.state # ""
    /\ r.ref.kind \in TemplateKinds => r.state = "stopped"
    /\ r.clone # NoRef => r.ref.kind = "VM"

(* A cycle is a nonempty set of refs none of which can come first.         *)
Acyclic(D) ==
    \A S \in SUBSET D :
        S # {} => \E r \in S : EdgesFor(r) \intersect Refs(S) = {}

(* The clone source and every referenced artifact must be placed on the    *)
(* guest's own node.                                                       *)
ReferencesResolve(D) ==
    \A r \in D :
        /\ EdgesFor(r) \subseteq Refs(D)
        /\ \A x \in r.uses : r.nodes \subseteq ByRef(D, x).nodes
        /\ r.clone # NoRef => /\ r.clone.kind = "TemplateVM"
                              /\ r.nodes \subseteq ByRef(D, r.clone).nodes

(* What BuildClusterIndex accepts; a cycle on any other revision aborts.   *)
ValidIndex(D) ==
    /\ \A r \in D : Validate(r)
    /\ \A r, q \in D : r.ref = q.ref => r = q
    /\ \A r, q \in Guests(D) : SlotOf(r) = SlotOf(q) => r = q
    /\ ReferencesResolve(D)
    /\ Acyclic(D)

Parses == {v \in Revisions : ValidIndex(Manifests[v])}

(* Mutant of OnAllowedNodes: only the primary node is looked at.           *)
OnAllowedPrimary(D) == \A r \in D : NodeAllowed(NodeOf(r))

(* checkNodeAllowlist: every declared node, not only the primary one.      *)
OnAllowedNodes(D) == \A r \in D : \A n \in r.nodes : NodeAllowed(n)

(* Levels by relaxation: after as many rounds as there are resources every *)
(* resource of an acyclic index lies one above its highest prerequisite.   *)
Levels(D) ==
    LET round[k \in 0..Cardinality(D)] ==
          [x \in Refs(D) |->
             LET deps == EdgesFor(ByRef(D, x))
             IN  IF k = 0 \/ deps = {} THEN 0
                 ELSE 1 + Max({round[k - 1][d] : d \in deps})]
    IN  round[Cardinality(D)]

LevelsAt == [v \in Parses |-> Levels(Manifests[v])]

=============================================================================
