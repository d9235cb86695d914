---------------------------- MODULE DeviceForms ----------------------------
(***************************************************************************)
(* How a configuration of PVE is read and written.  A configuration is a   *)
(* function on the keys that are present.  A key holds a word (cores,      *)
(* onboot, ...), a set of words (tags, sshkeys, ...) or a device: the      *)
(* comma-separated property string, as a function from its option names to *)
(* their values.  A device without options is a detached slot ("none").    *)
(*                                                                         *)
(* A volume has the option "vol", the name PVE gave it: a value with "vol" *)
(* is the LIVE form, which PVE applies to the volume in place, a value     *)
(* without it the CREATE form, for which PVE allocates a new volume.       *)
(***************************************************************************)
EXTENDS Naturals, FiniteSets, Functions

CONSTANT NicSlots                    \* net<N>, of a VM or a container

Nothing == [k \in {} |-> ""]

(* The operators of the module TLC, which the proofs cannot look into.  The *)
(* operands are bound, for TLC to evaluate each of them once.              *)
k :> v == [x \in {k} |-> v]
Over(f, g) ==
    [k \in DOMAIN f \union DOMAIN g |-> IF k \in DOMAIN f THEN f[k] ELSE g[k]]
f @@ g == CHOOSE h \in {Over(a, b) : a \in {f}, b \in {g}} : TRUE

(* pveStr, and the parsers: an absent key or option reads as a default.    *)
Word(cfg, k) == IF k \in DOMAIN cfg THEN cfg[k] ELSE ""
Words(cfg, k) == IF k \in DOMAIN cfg THEN cfg[k] ELSE {}
Device(cfg, k) == IF k \in DOMAIN cfg THEN cfg[k] ELSE Nothing
Option(d, t, default) == IF t \in DOMAIN d THEN d[t] ELSE default
Only(f, S) == Restrict(f, DOMAIN f \intersect S)
Without(f, S) == Restrict(f, DOMAIN f \ S)

(* A device in a manifest: it has the options it needs, others only of     *)
(* those that the schema knows, and none that is empty.                    *)
Declares(d, needs, may) ==
    /\ needs \subseteq DOMAIN d /\ DOMAIN d \subseteq needs \union may
    /\ \A t \in DOMAIN d : d[t] # ""

(* No volume and no medium at the slot: the create form is safe there.     *)
IsNewStorageSlot(d) == d = Nothing

(* The pool differs, or both sides tell a size and the sizes differ.       *)
Moved(cur, want) ==
    \/ Option(cur, "pool", "") # Option(want, "pool", "")
    \/ /\ "size" \in DOMAIN cur /\ "size" \in DOMAIN want
       /\ cur.size # want.size

OwnershipTag == "proxops"
AllTags(m) == m.tags \union {OwnershipTag}

(* What of the values in "want" is not there yet.                          *)
ChangedWords(cfg, want) == Only(want, {k \in DOMAIN want : Word(cfg, k) # want[k]})
ChangedSets(cfg, want) == Only(want, {k \in DOMAIN want : Words(cfg, k) # want[k]})
ChangedDevices(cfg, want) ==
    Only(want, {k \in DOMAIN want : Device(cfg, k) # want[k]})

(* An update: what the write sets, the keys it deletes, whether the guest  *)
(* has to be stopped for it.                                               *)
NoUpdate == [set |-> Nothing, del |-> {}, stop |-> FALSE]
IsNoUpdate(u) == u.set = Nothing /\ u.del = {}

=============================================================================
