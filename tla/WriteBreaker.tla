---------------------------- MODULE WriteBreaker ----------------------------
(***************************************************************************)
(* The write circuit breaker of the PVE client, with the retry loop of     *)
(* Client.Do around it.  The agent that owns the client is serial, so one  *)
(* request is in progress at a time.  A request asks the breaker once, at  *)
(* its start; every attempt of it then reports its own outcome.            *)
(***************************************************************************)
EXTENDS Naturals

CONSTANTS
    Threshold,     \* consecutive failures that open the breaker
    MaxRetries     \* attempts after the first one

ASSUME BreakerAssumption == Threshold \in Nat \ {0} /\ MaxRetries \in Nat

VARIABLES
    consec,     \* failures counted
    open,
    expired,    \* openDuration has passed since it opened
    call        \* the request in progress

vars == <<consec, open, expired, call>>

NoCall == [attempt |-> 0]
Call == [write : BOOLEAN, attempt : 0..MaxRetries]

Init ==
    /\ consec = 0 /\ open = FALSE /\ expired = FALSE
    /\ call = NoCall

-----------------------------------------------------------------------------
(* Reads are not gated.                                                    *)
StartRead ==
    /\ call = NoCall
    /\ call' = [write |-> FALSE, attempt |-> 0]
    /\ UNCHANGED <<consec, open, expired>>

(* Mutant of StartWrite: PUT is not seen as a write.                       *)
StartUngated ==
    /\ call = NoCall
    /\ call' = [write |-> TRUE, attempt |-> 0]
    /\ UNCHANGED <<consec, open, expired>>

(* A write is refused, without effect, while the breaker is open; once     *)
(* openDuration has passed it closes the breaker and goes through.         *)
StartWrite ==
    /\ call = NoCall
    /\ open => expired
    /\ call' = [write |-> TRUE, attempt |-> 0]
    /\ open' = FALSE /\ expired' = FALSE
    /\ consec' = IF open THEN 0 ELSE consec

(* recordOK, for reads as for writes.                                      *)
Succeeds ==
    /\ call # NoCall
    /\ consec' = 0 /\ open' = FALSE /\ expired' = FALSE
    /\ call' = NoCall

(* Mutant of RecordFail: the breaker opens one failure late.               *)
RecordFailLate ==
    IF call.write
    THEN /\ consec' = consec + 1
         /\ open' = (open \/ consec >= Threshold)
         /\ expired' = (expired /\ open)
    ELSE UNCHANGED <<consec, open, expired>>

RecordFail ==
    IF call.write
    THEN /\ consec' = consec + 1
         /\ open' = (open \/ consec + 1 >= Threshold)
         /\ expired' = (expired /\ open)
    ELSE UNCHANGED <<consec, open, expired>>

(* Mutant of Retries: one attempt too many.                                *)
RetriesOnceMore ==
    /\ call # NoCall /\ RecordFail
    /\ call' = IF call.attempt <= MaxRetries
               THEN [call EXCEPT !.attempt = @ + 1] ELSE NoCall

(* No answer, an unreadable one, 401 with a ticket, 429 or 5xx.            *)
Retries ==
    /\ call # NoCall /\ RecordFail
    /\ call' = IF call.attempt < MaxRetries
               THEN [call EXCEPT !.attempt = @ + 1] ELSE NoCall

(* Any other status, and "no such ..." errors, end the request at once.    *)
Rejected == call # NoCall /\ RecordFail /\ call' = NoCall

(* No credentials, or the context ends during the backoff: not counted.    *)
Abandoned ==
    /\ call # NoCall /\ call' = NoCall
    /\ UNCHANGED <<consec, open, expired>>

Expire ==
    /\ open /\ ~expired /\ expired' = TRUE
    /\ UNCHANGED <<consec, open, call>>

Next == \/ StartRead \/ StartWrite \/ Succeeds \/ Retries \/ Rejected
        \/ Abandoned \/ Expire

Spec == Init /\ [][Next]_vars

-----------------------------------------------------------------------------
(* Every variable keeps its type; a request never outlives its retries.    *)
TypeOK ==
    /\ consec \in Nat /\ open \in BOOLEAN /\ expired \in BOOLEAN
    /\ call \in Call \union {NoCall}

(* The counter and the flag are set in different places and never drift    *)
(* apart: the breaker is open exactly when the count is at the threshold.  *)
OpenAtThreshold == open <=> consec >= Threshold

(* Attempts go on while the breaker opens under them, but only those of    *)
(* the request that opened it: the count stays within one request of the   *)
(* threshold.                                                              *)
CountBounded == consec <= Threshold + MaxRetries

=============================================================================
