---------------------------- MODULE Composition ----------------------------
(***************************************************************************)
(* The repository as every cluster's cycle reads it: the compositions      *)
(* clusters/<name>/resources.yaml, the manifests under the kind roots, and *)
(* what BuildClusterIndex makes of a work tree for one cluster.            *)
(***************************************************************************)
EXTENDS Schema

CONSTANTS
    Clusters,      \* pve.clusters, numbered in the order of their names
    Paths,         \* [root, sub, file]; root "clusters" holds compositions
    Repository,    \* what each revision has at each path
    Absent,        \* nothing there
    Garbled        \* YAML that does not decode, or not into a resource

KindRoots == {"vm", "lxc", "iso", "ctt", "templatevm", "diskimage", "templatect"}

ManifestPaths == {p \in Paths : p.root # "clusters"}
CompositionPaths == Paths \ ManifestPaths

(* A composition is a set of paths, a manifest file a set of resources.    *)
WorkTree ==
    {t \in [Paths -> {Absent, Garbled} \union SUBSET Paths \union SUBSET Resource] :
        \A p \in Paths :
            t[p] \in {Absent, Garbled} \union (IF p.root = "clusters" THEN SUBSET Paths
                                              ELSE SUBSET Resource)}

ASSUME CompositionAssumption ==
    /\ Clusters \subseteq Nat \ {0} /\ Clusters # {}
    /\ IsFiniteSet(Clusters) /\ IsFiniteSet(Paths)
    /\ \A p \in Paths : p.root \in KindRoots \union {"clusters", "docs"}
    /\ Repository \in [Revisions -> WorkTree]

-----------------------------------------------------------------------------
(* loadComposition: a listed path must be there, and be a file.            *)
CompositionLoads(tree, p) ==
    /\ tree[p] # Garbled
    /\ \A f \in tree[p] : tree[f] # Absent

(* A manifest directly under its kind root is the legacy layout.           *)
RepoShapeOk(tree) ==
    \A p \in ManifestPaths :
        p.root \in KindRoots /\ p.sub = 0 => tree[p] = Absent

(* Every composition there is loads, and there is one for each configured  *)
(* cluster and for no other.                                               *)
AllCompositions(tree) ==
    LET present == {p \in CompositionPaths : tree[p] # Absent}
    IN  /\ RepoShapeOk(tree)
        /\ \A p \in present : CompositionLoads(tree, p)
        /\ {p.sub : p \in present} = Clusters

FilesOf(tree, c) ==
    UNION {tree[p] : p \in {q \in CompositionPaths :
                                     q.sub = c /\ tree[q] # Absent}}

IndexOf(tree, c) == UNION {tree[f] : f \in FilesOf(tree, c)}

(* BuildIndexFromFiles: manifests under a kind root that decode, and no    *)
(* resource in two files.                                                  *)
FilesIndex(tree, c) ==
    LET files == FilesOf(tree, c)
    IN  /\ \A f \in files : f.root \in KindRoots /\ tree[f] # Garbled
        /\ \A f, g \in files :
              f # g => Refs(tree[f]) \intersect Refs(tree[g]) = {}
        /\ ValidIndex(IndexOf(tree, c))

BuildClusterIndex(tree, c) == AllCompositions(tree) /\ FilesIndex(tree, c)

=============================================================================
