---------------------------- MODULE StatusStore ----------------------------
(***************************************************************************)
(* The in-memory status store that /status, the report and the exit of the *)
(* one-shot commands are made from.  Records are keyed by cluster and      *)
(* resource and never removed; one cycle record is shared by all clusters. *)
(* Counters are kept as "some" or "none".                                  *)
(***************************************************************************)
EXTENDS Composition

VARIABLES
    objects,    \* cluster (0: none given) -> resource -> state
    last        \* the cycle in progress, or the most recent one

storeVars == <<objects, last>>

States == {"drift", "converged", "pruned", "skipped", "anomalous",
           "in_progress", "failed"}

Recorded == UNION {UNION {Refs(Repository[v][p]) : p \in {q \in ManifestPaths :
                Repository[v][q] \notin {Absent, Garbled}}} : v \in Revisions}

NoCycle == [commit |-> "none"]
Cycle == [commit : Revisions \union {"none"}, stale : BOOLEAN, readOnly : BOOLEAN,
          errors : BOOLEAN, anomalies : BOOLEAN, aborted : BOOLEAN, finished : BOOLEAN]

StoreInit ==
    /\ objects = [c \in Clusters \union {0} |-> [r \in Recorded |-> "unknown"]]
    /\ last = NoCycle

BeginCycle(commit, stale, readOnly) ==
    [commit |-> commit, stale |-> stale, readOnly |-> readOnly, errors |-> FALSE,
     anomalies |-> FALSE, aborted |-> FALSE, finished |-> FALSE]

FinishCycle(cycle, aborted) == [cycle EXCEPT !.aborted = aborted, !.finished = TRUE]

SetObject(c, r, state) == [objects EXCEPT ![c][r] = state]
SetObjects(c, states) ==
    [objects EXCEPT ![c] = [r \in Recorded |->
                              IF r \in DOMAIN states THEN states[r] ELSE @[r]]]

(* stateWord of the report.                                                *)
StateWord == IF last.aborted THEN "ABORTED"
             ELSE IF last.errors THEN "incomplete" ELSE "converged"

StoreTypeOK ==
    /\ objects \in [Clusters \union {0} -> [Recorded -> States \union {"unknown"}]]
    /\ last \in Cycle \union {NoCycle}

=============================================================================
