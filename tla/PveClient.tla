----------------------------- MODULE PveClient -----------------------------
(***************************************************************************)
(* The PVE client around its write breaker: Client.Do with its attempts,   *)
(* the session ticket, what PVE makes of a request whose answer may be     *)
(* lost, and TaskWaiter.Wait, whose polls are requests of their own.       *)
(*                                                                         *)
(* One operation of the executor is in hand at a time, on one object:      *)
(* "get" reads it, "set" changes it at once, "create" and "delete" are     *)
(* carried out by a task that the operation then waits for.  A request     *)
(* (asks, stage, reply) belongs to the operation (op); a failure may       *)
(* happen at every step and is not counted.                                *)
(***************************************************************************)
EXTENDS WriteBreaker

VARIABLES
    method,     \* Auth.method
    ticket,     \* the held ticket: none, young, or past refreshAfter
    honoured,   \* PVE accepts the credential
    spurned,    \* the held ticket has been answered with 401
    op,         \* the operation in hand
    asks,       \* what its request in progress asks for
    stage,      \* where that is
    reply,      \* PVE's answer
    late,       \* the deadline of the task wait has passed
    done,       \* how the last operation ended
    task,       \* the last task PVE accepted for the object
    object      \* the object is there

authVars == <<ticket, honoured, spurned>>
breakerVars == <<consec, open, expired>>
pveVars == <<task, object>>
clientVars == <<vars, method, authVars, op, asks, stage, reply, late, done, pveVars>>

Operations == {"get", "set", "create", "delete"}
NotDone == [op |-> "none", result |-> "none"]

ClientInit ==
    /\ Init
    /\ method \in {"token", "ticket"}
    /\ ticket = "none" /\ honoured = TRUE /\ spurned = FALSE
    /\ op = "none" /\ asks = "none" /\ stage = "idle" /\ reply = "none"
    /\ late = FALSE /\ done = NotDone
    /\ task = [op |-> "none", state |-> "none"] /\ object \in BOOLEAN

EndOperation(result) ==
    /\ done' = [op |-> op, result |-> result]
    /\ op' = "none" /\ asks' = "none" /\ stage' = "idle" /\ late' = FALSE

(* A request ends: with it the operation, unless it was a poll of Wait,    *)
(* which logs the error and goes on, or one that was answered with a task. *)
EndRequest(result) ==
    /\ reply' = "none"
    /\ IF asks = "status" /\ result \notin {"ok", "failed", "no such"}
       THEN stage' = "sleep" /\ UNCHANGED <<op, asks, late, done>>
       ELSE IF result = "upid"
       THEN asks' = "status" /\ stage' = "poll" /\ UNCHANGED <<op, late, done>>
       ELSE EndOperation(result)

-----------------------------------------------------------------------------
(* Client.Do.                                                              *)

Submit(o) ==
    /\ stage = "idle"
    /\ IF o = "get" THEN StartRead ELSE StartWrite
    /\ op' = o /\ asks' = o /\ stage' = "auth" /\ done' = NotDone
    /\ UNCHANGED <<method, authVars, reply, late, pveVars>>

(* ErrReadOnly: nothing is sent.                                           *)
Refuse(o) ==
    /\ stage = "idle" /\ o # "get" /\ open /\ ~expired
    /\ done' = [op |-> o, result |-> "read-only"]
    /\ UNCHANGED <<vars, method, authVars, op, asks, stage, reply, late, pveVars>>

NeedsTicket == method = "ticket" /\ ticket \in {"none", "old"}

(* applyAuth, and off goes the request.                                    *)
Authorize ==
    /\ stage = "auth"
    /\ IF NeedsTicket
       THEN ticket' = "young" /\ honoured' = TRUE /\ spurned' = FALSE
       ELSE UNCHANGED authVars
    /\ stage' = "flight"
    /\ UNCHANGED <<vars, method, op, asks, reply, late, done, pveVars>>

(* The exchange fails; the context ends during the backoff.                *)
Abandon ==
    /\ stage = "auth" /\ (NeedsTicket \/ (late /\ call.attempt > 0))
    /\ Abandoned
    /\ EndRequest("abandoned")
    /\ UNCHANGED <<method, authVars, pveVars>>

(* Mutant of Invalidate: the ticket is only marked for a later refresh.    *)
KeepTicket == spurned' = TRUE /\ UNCHANGED <<ticket, honoured>>

Invalidate == ticket' = "none" /\ spurned' = TRUE /\ UNCHANGED honoured

(* Mutant of Verdict: a task that has stopped has succeeded.               *)
StoppedIsOk(r) == IF r = "failed" THEN "ok" ELSE IF r = "data" THEN "ok" ELSE r

(* What a request's answer says of its operation: the status of a task     *)
(* that has ended, or data that came at once.                              *)
Verdict(r) == IF r = "data" THEN "ok" ELSE r

(* A 2xx answer, with a body that may not decode.                          *)
Answered ==
    /\ stage = "flight" /\ reply \in {"data", "upid", "running", "ok", "failed", "garbled"}
    /\ Succeeds
    /\ EndRequest(Verdict(reply))
    /\ UNCHANGED <<method, authVars, pveVars>>

Tried(result) ==
    IF call' = NoCall
    THEN EndRequest(result)
    ELSE stage' = "auth" /\ reply' = "none" /\ UNCHANGED <<op, asks, late, done>>

(* No or an unreadable answer, 429 and 5xx are tried again.  "busy" is     *)
(* PVE's "operation already in progress", "exists" its "config file        *)
(* already exists": both are 500.                                          *)
TryAgain ==
    /\ stage = "flight" /\ reply \in {"lost", "unavailable", "busy", "exists"}
    /\ Retries
    /\ Tried(reply)
    /\ UNCHANGED <<method, authVars, pveVars>>

Reauthenticate ==
    /\ stage = "flight" /\ reply = "unauthorized" /\ method = "ticket"
    /\ Retries
    /\ Invalidate
    /\ Tried("unauthorized")
    /\ UNCHANGED <<method, pveVars>>

FailFast ==
    /\ stage = "flight"
    /\ \/ reply \in {"no such", "rejected"}
       \/ reply = "unauthorized" /\ method = "token"
    /\ Rejected
    /\ EndRequest(reply)
    /\ UNCHANGED <<method, authVars, pveVars>>

-----------------------------------------------------------------------------
(* TaskWaiter.Wait.                                                        *)

Poll ==
    /\ stage = "poll" /\ StartRead
    /\ stage' = "auth"
    /\ UNCHANGED <<method, authVars, op, asks, reply, late, done, pveVars>>

(* Mutant of Wake: the deadline is not looked at between polls.            *)
WakeToPoll ==
    /\ stage = "sleep"
    /\ reply' = "none" /\ stage' = "poll"
    /\ UNCHANGED <<vars, method, authVars, op, asks, late, done, pveVars>>

(* The timer of the interval fires, unless the deadline came first.        *)
Wake ==
    /\ stage = "sleep"
    /\ reply' = "none"
    /\ IF late THEN EndOperation("timeout")
       ELSE stage' = "poll" /\ UNCHANGED <<op, asks, late, done>>
    /\ UNCHANGED <<vars, method, authVars, pveVars>>

Deadline ==
    /\ asks = "status" /\ ~late /\ late' = TRUE
    /\ UNCHANGED <<vars, method, authVars, op, asks, stage, reply, done, pveVars>>

-----------------------------------------------------------------------------
(* PVE and the network.                                                    *)

Busy == task.state = "running"

(* PVE's answer to a request it has authenticated, and what it does.       *)
Serve ==
    IF asks = "get" THEN reply' = "data" /\ UNCHANGED task
    ELSE IF asks = "status"
    THEN reply' = (IF task.state = "forgotten" THEN "no such" ELSE task.state)
         /\ UNCHANGED task
    ELSE IF Busy THEN reply' = "busy" /\ UNCHANGED task
    ELSE IF asks = "create" /\ object THEN reply' = "exists" /\ UNCHANGED task
    ELSE IF asks # "create" /\ ~object THEN reply' = "no such" /\ UNCHANGED task
    ELSE IF asks = "set" THEN reply' = "data" /\ UNCHANGED task
    ELSE reply' = "upid" /\ task' = [op |-> asks, state |-> "running"]

Deliver ==
    /\ stage = "flight" /\ reply = "none" /\ ~late
    /\ IF honoured THEN Serve ELSE reply' = "unauthorized" /\ UNCHANGED task
    /\ UNCHANGED <<vars, method, authVars, op, asks, stage, late, done, object>>

TurnDown ==
    /\ stage = "flight" /\ reply = "none" /\ ~late
    /\ reply' \in {"unavailable", "rejected"}
    /\ UNCHANGED <<vars, method, authVars, op, asks, stage, late, done, pveVars>>

(* The request or its answer is lost, or the context ends.                 *)
Lose ==
    /\ stage = "flight" /\ reply # "lost" /\ reply' = "lost"
    /\ UNCHANGED <<vars, method, authVars, op, asks, stage, late, done, pveVars>>

Garble ==
    /\ stage = "flight" /\ reply \in {"data", "upid", "running", "ok"}
    /\ reply' = "garbled"
    /\ UNCHANGED <<vars, method, authVars, op, asks, stage, late, done, pveVars>>

TaskEnds ==
    /\ Busy
    /\ \/ task' = [task EXCEPT !.state = "ok"] /\ object' = (task.op = "create")
       \/ task' = [task EXCEPT !.state = "failed"] /\ UNCHANGED object
    /\ UNCHANGED <<vars, method, authVars, op, asks, stage, reply, late, done>>

(* PVE keeps the status of an ended task for a while.                      *)
Forget ==
    /\ task.state \in {"ok", "failed"}
    /\ task' = [task EXCEPT !.state = "forgotten"]
    /\ UNCHANGED <<vars, method, authVars, op, asks, stage, reply, late, done, object>>

TicketAges ==
    /\ ticket = "young" /\ ticket' = "old"
    /\ UNCHANGED <<vars, method, honoured, spurned, op, asks, stage, reply, late,
                   done, pveVars>>

(* PVE restarts with new keys, or the token is removed.                    *)
Revoke ==
    /\ honoured /\ honoured' = FALSE
    /\ UNCHANGED <<vars, method, ticket, spurned, op, asks, stage, reply, late,
                   done, pveVars>>

(* openDuration passes.                                                    *)
BreakerExpires ==
    /\ Expire
    /\ UNCHANGED <<method, authVars, op, asks, stage, reply, late, done, pveVars>>

-----------------------------------------------------------------------------
Step == \/ \E o \in Operations : Submit(o) \/ Refuse(o)
        \/ Authorize \/ Abandon
        \/ Answered \/ TryAgain \/ Reauthenticate \/ FailFast
        \/ Poll \/ Wake

Surroundings == \/ Deliver \/ TurnDown \/ Lose \/ Garble
                \/ TaskEnds \/ Forget \/ TicketAges \/ Revoke
                \/ Deadline \/ BreakerExpires

ClientNext == Step \/ Surroundings

ClientSpec == ClientInit /\ [][ClientNext]_clientVars

(* The executor goes on, an HTTP request is over within its timeout, and   *)
(* the deadline of a wait comes.                                           *)
ClientFairSpec ==
    /\ ClientSpec
    /\ WF_clientVars(Step) /\ WF_clientVars(Lose) /\ WF_clientVars(Deadline)

-----------------------------------------------------------------------------
(* Every variable keeps its type.                                          *)
ClientTypeOK ==
    /\ TypeOK
    /\ method \in {"token", "ticket"}
    /\ ticket \in {"none", "young", "old"}
    /\ honoured \in BOOLEAN /\ spurned \in BOOLEAN
    /\ op \in Operations \union {"none"}
    /\ asks \in Operations \union {"none", "status"}
    /\ stage \in {"idle", "auth", "flight", "poll", "sleep"}
    /\ late \in BOOLEAN /\ object \in BOOLEAN
    /\ task.state \in {"none", "running", "ok", "failed", "forgotten"}

(* A ticket that PVE has answered with 401 is not presented again, whoever *)
(* asks next and however the attempts in between ended.                    *)
RejectedTicketNotResent == stage = "flight" => ~spurned

(* An operation that ends well has happened: neither an accepted request,  *)
(* nor a retry after a lost answer, nor a task that ended, failed or was   *)
(* forgotten while its status could not be read, passes for success.       *)
SuccessIsReal ==
    done.result = "ok" =>
        /\ done.op = "create" => object
        /\ done.op = "delete" => ~object

(* Every operation ends: the attempts are bounded, and so is the wait for  *)
(* a task, however many of its polls fail.                                 *)
OperationsEnd == []<>(stage = "idle")

=============================================================================
