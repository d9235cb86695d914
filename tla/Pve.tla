-------------------------------- MODULE Pve --------------------------------
(***************************************************************************)
(* Proxmox VE as the agent uses it: guests, storage content and the tasks  *)
(* that change them.  The repository's own executable picture of PVE is    *)
(* the mock server of the tests; this module follows it, and the comments  *)
(* on the client for what the mock leaves out: a write is accepted at once *)
(* and carried out later by a task, one task at a time holds a guest, and  *)
(* only a stopped guest can be marked as a template.                       *)
(***************************************************************************)
EXTENDS Planner

VARIABLES
    pve,        \* Slot -> the guest there
    storage,    \* artifact files present
    running     \* tasks PVE has accepted and not finished

pveVars == <<pve, storage, running>>

Writes == {"create", "clone", "config", "start", "stop", "mark", "delete",
           "download"}
Task == [op : Writes, act : Action]

SlotAt(a) == <<a.node, a.id>>
SourceAt(a) == <<a.node, a.src>>
FileAt(a) == <<a.node, a.res.ref>>

Exists(a) == /\ pve[SlotAt(a)] # NoGuest
             /\ pve[SlotAt(a)].type = PveType(a.kind)
IsPower(a, p) == Exists(a) /\ pve[SlotAt(a)].power = p

(* What a task holds until it ends.                                        *)
Holds(t) ==
    IF t.op = "download" THEN {}
    ELSE {SlotAt(t.act)} \union IF t.op = "clone" THEN {SourceAt(t.act)} ELSE {}

Held(s) == \E t \in running : s \in Holds(t)

(* The preconditions PVE enforces.  Ids are shared by VMs and containers.  *)
Possible(t) ==
    CASE t.op = "download" -> TRUE
      [] t.op = "create" -> pve[SlotAt(t.act)] = NoGuest
      [] t.op = "clone" -> /\ pve[SlotAt(t.act)] = NoGuest
                           /\ pve[SourceAt(t.act)] # NoGuest
                           /\ pve[SourceAt(t.act)].type = "VM"
      [] t.op = "config" -> Exists(t.act)
      [] t.op = "start" -> /\ IsPower(t.act, "stopped")
                           /\ ~pve[SlotAt(t.act)].template
      [] t.op = "stop" -> IsPower(t.act, "running")
      [] OTHER -> IsPower(t.act, "stopped")          \* mark, delete

Accepts(t) ==
    /\ Possible(t)
    /\ \A s \in Holds(t) : ~Held(s)
    /\ t.op = "download" => t \notin running

(* POST /lxc/{id}/template answers without a task.                         *)
IsSynchronous(t) == t.op = "mark" /\ PveType(t.act.kind) = "LXC"

-----------------------------------------------------------------------------
(* What each write leaves at its slot.                                     *)

Created(a) ==
    [type |-> PveType(a.kind), name |-> a.res.ref.name,
     hot |-> a.res.hot, cold |-> a.res.cold, tagged |-> TRUE,
     template |-> FALSE,
     power |-> IF a.kind \notin TemplateKinds /\ a.res.state = "started"
               THEN "running" ELSE "stopped"]

(* A clone keeps the configuration and the tags of its source, not its     *)
(* name nor its template flag.                                             *)
Cloned(a) ==
    [pve[SourceAt(a)] EXCEPT !.name = a.res.ref.name, !.template = FALSE,
                             !.power = "stopped"]

Configured(a) ==
    LET g == pve[SlotAt(a)]
    IN  [g EXCEPT !.hot = IF "hot" \in a.set THEN a.res.hot ELSE @,
                  !.cold = IF "cold" \in a.set THEN a.res.cold ELSE @,
                  !.tagged = @ \/ "tags" \in a.set]

After(t) ==
    LET g == pve[SlotAt(t.act)]
    IN  CASE t.op = "create" -> Created(t.act)
          [] t.op = "clone" -> Cloned(t.act)
          [] t.op = "config" -> Configured(t.act)
          [] t.op = "start" -> [g EXCEPT !.power = "running"]
          [] t.op = "stop" -> [g EXCEPT !.power = "stopped"]
          [] t.op = "mark" -> [g EXCEPT !.template = TRUE, !.power = "stopped"]
          [] t.op = "delete" -> NoGuest

TakesEffect(t) ==
    IF t.op = "download"
    THEN storage' = storage \union {FileAt(t.act)} /\ UNCHANGED pve
    ELSE pve' = [pve EXCEPT ![SlotAt(t.act)] = After(t)] /\ UNCHANGED storage

Accept(t) ==
    IF IsSynchronous(t)
    THEN TakesEffect(t) /\ UNCHANGED running
    ELSE running' = running \union {t} /\ UNCHANGED <<pve, storage>>

PveTypeOK ==
    /\ pve \in [Slot -> Guest \union {NoGuest}]
    /\ storage \subseteq File
    /\ running \subseteq Task

=============================================================================
