------------------------------- MODULE Claims -------------------------------
(***************************************************************************)
(* What the documentation and the comments of the code say of the          *)
(* reconciler, and the code does not do.  Each claim quotes its source; a  *)
(* run of its own refutes it.                                              *)
(***************************************************************************)
EXTENDS Reconcile

(* plan/plan.go: "a dependant is not attempted before its prerequisite is  *)
(* ready".  A prerequisite that was itself deferred is not ready.          *)
PrerequisitesReady ==
    cur # NoAction =>
        \A a \in Planned :
            a.node = cur.node /\ a.res.ref \in cur.deps =>
                [act |-> a, outcome |-> "ok"] \in results

=============================================================================
