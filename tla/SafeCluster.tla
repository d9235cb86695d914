---------------------------- MODULE SafeCluster ----------------------------
(***************************************************************************)
(* What ProxOps promises of a cluster, without its loop: no snapshots, no  *)
(* plans, no tasks, no faults.  A guest or a file changes because somebody *)
(* else changed it, which "moves" counts, or because a revision that       *)
(* parses and stays on the allowlist calls for that one change.  Stale     *)
(* reads, lost answers, tasks that outlive their deadline and crashes may  *)
(* delay the steps or leave some out; they never add one to this list.     *)
(***************************************************************************)
EXTENDS Planner

VARIABLES guests, files, moves

vars == <<guests, files, moves>>

Applicable == {v \in Parses : OnAllowedNodes(Manifests[v])}

(* The manifests some applicable revision has for the guest at s, and the  *)
(* live guests they may be written to.                                     *)
DeclaredAt(s) ==
    {r \in UNION {Guests(Manifests[v]) : v \in Applicable} : SlotOf(r) = s}
Suits(r, g) == g # NoGuest /\ g.type = PveType(r.ref.kind)

Becomes(s, g) == guests' = [guests EXCEPT ![s] = g] /\ UNCHANGED <<files, moves>>

(* An empty slot is filled as its manifest says; a template's guest is not *)
(* sealed yet.                                                             *)
Make(s, r) ==
    /\ guests[s] = NoGuest
    /\ \E p \in {"running", "stopped"} :
          /\ p = "running" => r.state = "started"
          /\ Becomes(s, [type |-> PveType(r.ref.kind), name |-> r.ref.name,
                         hot |-> r.hot, cold |-> r.cold, tagged |-> TRUE,
                         template |-> FALSE, power |-> p])

(* Or with a stopped copy of the guest at the slot of its template, which  *)
(* keeps that guest's configuration and tags.                              *)
Copy(s, r) ==
    /\ guests[s] = NoGuest /\ r.clone # NoRef
    /\ \E v \in Applicable : \E q \in Guests(Manifests[v]) :
          /\ r \in Manifests[v] /\ q.ref = r.clone
          /\ guests[SlotOf(q)] # NoGuest
          /\ Becomes(s, [guests[SlotOf(q)] EXCEPT
                           !.name = r.ref.name, !.template = FALSE,
                           !.power = "stopped"])

(* Owned fields take the manifest's value; the tag may be gained, and is   *)
(* never taken away.                                                       *)
Correct(s, r) ==
    /\ Suits(r, guests[s])
    /\ \E h \in {guests[s].hot, r.hot} : \E c \in {guests[s].cold, r.cold} :
       \E t \in {guests[s].tagged, TRUE} :
          Becomes(s, [guests[s] EXCEPT !.hot = h, !.cold = c, !.tagged = t])

Start(s, r) ==
    /\ Suits(r, guests[s]) /\ r.state = "started" /\ ~guests[s].template
    /\ Becomes(s, [guests[s] EXCEPT !.power = "running"])

(* Only a stopped guest is sealed, and only for a template manifest.       *)
Seal(s, r) ==
    /\ Suits(r, guests[s]) /\ r.ref.kind \in TemplateKinds
    /\ guests[s].power = "stopped"
    /\ Becomes(s, [guests[s] EXCEPT !.template = TRUE])

(* A leftover: tagged as the agent's own, on an allowed node, and not in   *)
(* some applicable revision.  Once others have moved it may no longer be   *)
(* what it was when the agent looked.                                      *)
Leftover(s) ==
    /\ guests[s] # NoGuest /\ NodeAllowed(s[1])
    /\ \/ moves > 0
       \/ /\ guests[s].tagged
          /\ \E v \in Applicable : ~Claimed(v, s, guests[s])

Stop(s) ==
    /\ Leftover(s) \/ \E r \in DeclaredAt(s) : Suits(r, guests[s])
    /\ Becomes(s, [guests[s] EXCEPT !.power = "stopped"])

(* Only a stopped guest is removed.                                        *)
Remove(s) ==
    /\ Leftover(s) /\ guests[s].power = "stopped"
    /\ Becomes(s, NoGuest)

(* A file appears where some applicable revision places it.  None is ever  *)
(* deleted.                                                                *)
Fetch(f) ==
    /\ \E v \in Applicable : \E r \in Artifacts(Manifests[v]) :
          r.ref = f[2] /\ f[1] \in r.nodes
    /\ files' = files \union {f}
    /\ UNCHANGED <<guests, moves>>

(* Somebody else: one guest becomes anything.                              *)
Others ==
    /\ moves' = moves + 1
    /\ \E s \in Slot : \E g \in Guest \union {NoGuest} :
          guests' = [guests EXCEPT ![s] = g]
    /\ UNCHANGED files

Init ==
    /\ guests \in [Slot -> Guest \union {NoGuest}]
    /\ files \subseteq File
    /\ moves = 0

Written(s) ==
    \E r \in DeclaredAt(s) :
        Make(s, r) \/ Copy(s, r) \/ Correct(s, r) \/ Start(s, r) \/ Seal(s, r)

Next ==
    \/ \E s \in Slot : Written(s) \/ Stop(s) \/ Remove(s)
    \/ \E f \in File : Fetch(f)
    \/ Others

Spec == Init /\ [][Next]_vars

=============================================================================
