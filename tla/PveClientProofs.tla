-------------------------- MODULE PveClientProofs --------------------------
(***************************************************************************)
(* Results about the PVE client, for every threshold and number of         *)
(* retries, first of its write breaker by itself.  The bound on the count  *)
(* needs a strengthening that follows a request through its attempts: a    *)
(* write begins below the threshold, so attempt k of it can find at most   *)
(* Threshold - 1 + k failures counted.                                     *)
(*                                                                         *)
(* The requests of the client use the breaker as WriteBreaker lets them,   *)
(* so the breaker's invariants hold of the client.  A ticket answered with *)
(* 401 is dropped at once, and a request only leaves with one PVE has not  *)
(* turned down yet (AuthInv).  What is reported of an operation follows    *)
(* from the task that was accepted for it, which no later request can      *)
(* replace while the operation is in hand (OpInv).                         *)
(***************************************************************************)
EXTENDS PveClient, TLAPS

(* A write in its k-th attempt has added at most k failures to a count     *)
(* that was below the threshold when it began.                             *)
CountFollowsAttempt ==
    call # NoCall /\ call.write => consec < Threshold + call.attempt

IInv == TypeOK /\ OpenAtThreshold /\ CountBounded /\ CountFollowsAttempt

(* The invariant holds at first.                                           *)
LEMMA InitIInv == Init => IInv
<1> SUFFICES ASSUME Init PROVE IInv
  OBVIOUS
<1> USE BreakerAssumption
<1>1. /\ consec = 0 /\ open = FALSE /\ expired = FALSE
      /\ call = NoCall
  BY DEF Init
<1>3. TypeOK
  BY <1>1 DEF TypeOK
<1>4. OpenAtThreshold /\ CountBounded /\ CountFollowsAttempt
  BY <1>1 DEF OpenAtThreshold, CountBounded, CountFollowsAttempt
<1> QED BY <1>3, <1>4 DEF IInv

(* A request is not mistaken for none: it says whether it writes.          *)
LEMMA CallType ==
    ASSUME NEW w \in BOOLEAN, NEW k \in 0..MaxRetries
    PROVE  /\ [write |-> w, attempt |-> k] \in Call
           /\ [write |-> w, attempt |-> k] # NoCall
BY DEF Call, NoCall

(* What one failed attempt does to the counters.                           *)
LEMMA RecordFailCounts ==
    ASSUME IInv, call # NoCall, RecordFail
    PROVE  /\ consec' \in Nat /\ open' \in BOOLEAN /\ expired' \in BOOLEAN
           /\ open' <=> consec' >= Threshold
           /\ consec' <= Threshold + MaxRetries
           /\ call.write => consec' <= Threshold + call.attempt
<1> USE BreakerAssumption
<1> USE DEF IInv, TypeOK, OpenAtThreshold, CountBounded, CountFollowsAttempt
<1>1. call \in Call
  OBVIOUS
<1>2. CASE call.write
  BY <1>1, <1>2 DEF RecordFail, Call
<1>3. CASE ~call.write
  BY <1>1, <1>3 DEF RecordFail, Call
<1> QED BY <1>2, <1>3

(* Every step keeps it; only a failed attempt moves the count.             *)
LEMMA StepIInv == IInv /\ [Next]_vars => IInv'
<1> SUFFICES ASSUME IInv, [Next]_vars PROVE IInv'
  OBVIOUS
<1> USE BreakerAssumption
<1>1. /\ TypeOK /\ OpenAtThreshold /\ CountBounded /\ CountFollowsAttempt
      /\ 0 \in 0..MaxRetries
  BY DEF IInv
<1>2. CASE StartRead
  BY <1>1, <1>2, CallType
     DEF StartRead, IInv, TypeOK, OpenAtThreshold, CountBounded, CountFollowsAttempt
<1>3. CASE StartWrite
  <2>1. call' = [write |-> TRUE, attempt |-> 0] /\ call' \in Call
    BY <1>1, <1>3, CallType DEF StartWrite
  <2>2. open' = FALSE /\ expired' = FALSE
    BY <1>3 DEF StartWrite
  <2>3. /\ consec' \in Nat /\ consec' < Threshold
    <3>1. CASE open
      BY <1>3, <3>1 DEF StartWrite
    <3>2. CASE ~open
      <4>1. consec' = consec
        BY <1>3, <3>2 DEF StartWrite
      <4>2. consec < Threshold
        BY <1>1, <3>2 DEF TypeOK, OpenAtThreshold
      <4> QED BY <1>1, <4>1, <4>2 DEF TypeOK
    <3> QED BY <3>1, <3>2
  <2>4. TypeOK'
    <3>1. open' \in BOOLEAN /\ expired' \in BOOLEAN
      BY <2>2
    <3> QED BY <2>1, <2>3, <3>1 DEF TypeOK
  <2>5. OpenAtThreshold' /\ CountBounded' /\ CountFollowsAttempt'
    BY <2>1, <2>2, <2>3 DEF OpenAtThreshold, CountBounded, CountFollowsAttempt
  <2> QED BY <2>4, <2>5 DEF IInv
<1>4. CASE Succeeds
  <2>1. /\ consec' = 0 /\ open' = FALSE /\ expired' = FALSE
        /\ call' = NoCall
    BY <1>1, <1>4 DEF Succeeds, TypeOK
  <2>2. TypeOK'
    <3>1. open' \in BOOLEAN /\ expired' \in BOOLEAN
      BY <2>1
    <3> QED BY <2>1, <3>1 DEF TypeOK
  <2>3. OpenAtThreshold' /\ CountBounded' /\ CountFollowsAttempt'
    BY <2>1 DEF OpenAtThreshold, CountBounded, CountFollowsAttempt
  <2> QED BY <2>2, <2>3 DEF IInv
<1>5. CASE Retries
  <2>1. call # NoCall /\ call \in Call
    BY <1>1, <1>5 DEF Retries, TypeOK
  <2>2. CASE call.attempt < MaxRetries
    <3>1. PICK w \in BOOLEAN, k \in 0..MaxRetries :
            call = [write |-> w, attempt |-> k]
      BY <2>1 DEF Call
    <3>2. call' = [write |-> w, attempt |-> k + 1] /\ k + 1 \in 0..MaxRetries
      BY <1>5, <2>2, <3>1 DEF Retries
    <3>3. call' \in Call /\ call'.write = call.write /\ call'.attempt = call.attempt + 1
      BY <3>1, <3>2, CallType
    <3> QED
      BY <1>5, <2>1, <3>1, <3>3, RecordFailCounts
         DEF Retries, IInv, TypeOK, OpenAtThreshold, CountBounded, CountFollowsAttempt
  <2>3. CASE ~(call.attempt < MaxRetries)
    BY <1>5, <2>1, <2>3, RecordFailCounts
       DEF Retries, IInv, TypeOK, OpenAtThreshold, CountBounded, CountFollowsAttempt
  <2> QED BY <2>2, <2>3
<1>6. CASE Rejected
  BY <1>6, RecordFailCounts
     DEF Rejected, IInv, TypeOK, OpenAtThreshold, CountBounded, CountFollowsAttempt
<1>7. CASE Abandoned
  BY <1>1, <1>7
     DEF Abandoned, IInv, TypeOK, OpenAtThreshold, CountBounded, CountFollowsAttempt
<1>8. CASE Expire
  BY <1>1, <1>8
     DEF Expire, IInv, TypeOK, OpenAtThreshold, CountBounded, CountFollowsAttempt
<1>9. CASE UNCHANGED vars
  BY <1>1, <1>9
     DEF vars, IInv, TypeOK, OpenAtThreshold, CountBounded, CountFollowsAttempt
<1> QED BY <1>2, <1>3, <1>4, <1>5, <1>6, <1>7, <1>8, <1>9 DEF Next

(* The invariant is inductive.                                             *)
LEMMA Invariant == Spec => []IInv
BY InitIInv, StepIInv, PTL DEF Spec

(* The counters and the request in progress keep their types; in           *)
(* particular no request goes beyond its retries.                          *)
THEOREM TypeCorrect == Spec => []TypeOK
<1>1. IInv => TypeOK
  BY DEF IInv
<1> QED BY Invariant, <1>1, PTL

(* recordFail, recordOK and allows keep the flag in step with the count:   *)
(* the breaker is open exactly while the count is at the threshold.        *)
THEOREM FlagFollowsCount == Spec => []OpenAtThreshold
<1>1. IInv => OpenAtThreshold
  BY DEF IInv
<1> QED BY Invariant, <1>1, PTL

(* Once open, the breaker lets at most the attempts of the request that    *)
(* opened it through to PVE: the count never passes the threshold by more  *)
(* than the retries of one request.                                        *)
THEOREM CountStaysBounded == Spec => []CountBounded
<1>1. IInv => CountBounded
  BY DEF IInv
<1> QED BY Invariant, <1>1, PTL

-----------------------------------------------------------------------------
(* The client.                                                             *)

(* Each step of the client is a step of the breaker or leaves it alone.    *)
LEMMA BreakerStep == [ClientNext]_clientVars => [Next]_vars
<1> SUFFICES ASSUME [ClientNext]_clientVars PROVE [Next]_vars
  OBVIOUS
<1>1. ASSUME NEW o \in Operations, Submit(o) PROVE Next
  BY <1>1 DEF Submit, Next
<1>2. ASSUME NEW o \in Operations, Refuse(o) PROVE UNCHANGED vars
  BY <1>2 DEF Refuse
<1>3. CASE Authorize \/ Wake \/ Deadline
  BY <1>3 DEF Authorize, Wake, Deadline
<1>4. CASE Abandon \/ Answered \/ TryAgain \/ Reauthenticate \/ FailFast \/ Poll
  BY <1>4 DEF Abandon, Answered, TryAgain, Reauthenticate, FailFast, Poll, Next
<1>5. CASE Deliver \/ TurnDown \/ Lose \/ Garble
  BY <1>5 DEF Deliver, TurnDown, Lose, Garble
<1>6. CASE TaskEnds \/ Forget \/ TicketAges \/ Revoke
  BY <1>6 DEF TaskEnds, Forget, TicketAges, Revoke
<1>7. CASE BreakerExpires
  BY <1>7 DEF BreakerExpires, Next
<1>8. CASE UNCHANGED clientVars
  BY <1>8 DEF clientVars
<1> QED
  BY <1>1, <1>2, <1>3, <1>4, <1>5, <1>6, <1>7, <1>8
     DEF ClientNext, Step, Surroundings

(* The client is an implementation of the breaker's specification: every   *)
(* attempt of every request, poll and read goes through the gate that      *)
(* breaker.go describes.                                                   *)
THEOREM ClientUsesBreaker == ClientSpec => Spec
<1>1. ClientInit => Init
  BY DEF ClientInit
<1> QED BY <1>1, BreakerStep, PTL DEF ClientSpec, Spec

(* With the retry loop, the polls of a task and the ticket around it, the  *)
(* breaker is still open exactly while the count is at the threshold.      *)
THEOREM ClientOpenAtThreshold == ClientSpec => []OpenAtThreshold
BY ClientUsesBreaker, FlagFollowsCount, PTL

(* However reads and polls are mixed with the writes of the client, the    *)
(* count passes the threshold by no more than one request's retries.       *)
THEOREM ClientCountBounded == ClientSpec => []CountBounded
BY ClientUsesBreaker, CountStaysBounded, PTL

-----------------------------------------------------------------------------
(* The credential.                                                         *)

(* Once PVE has answered the ticket with 401 there is none, and nothing is *)
(* on its way with the old one.                                            *)
AuthInv == spurned => method = "ticket" /\ ticket = "none" /\ stage # "flight"

(* Only Authorize sends a request on its way.                              *)
LEMMA EndLeavesFlight ==
    ASSUME NEW result, EndRequest(result)
    PROVE  stage' # "flight"
BY DEF EndRequest, EndOperation

LEMMA TriedLeavesFlight ==
    ASSUME NEW result, Tried(result)
    PROVE  stage' # "flight"
BY EndLeavesFlight DEF Tried

LEMMA AuthStep == AuthInv /\ [ClientNext]_clientVars => AuthInv'
<1> SUFFICES ASSUME AuthInv, [ClientNext]_clientVars PROVE AuthInv'
  OBVIOUS
<1> USE DEF AuthInv, authVars
<1>1. ASSUME NEW o \in Operations, Submit(o) \/ Refuse(o) PROVE AuthInv'
  BY <1>1 DEF Submit, Refuse
<1>2. CASE Authorize
  BY <1>2 DEF Authorize, NeedsTicket
<1>3. CASE Abandon \/ Answered \/ FailFast
  <2>1. stage' # "flight"
    BY <1>3, EndLeavesFlight DEF Abandon, Answered, FailFast
  <2> QED BY <1>3, <2>1 DEF Abandon, Answered, FailFast
<1>4. CASE TryAgain
  <2>1. stage' # "flight"
    BY <1>4, TriedLeavesFlight DEF TryAgain
  <2> QED BY <1>4, <2>1 DEF TryAgain
<1>5. CASE Reauthenticate
  <2>1. stage' # "flight"
    BY <1>5, TriedLeavesFlight DEF Reauthenticate
  <2> QED BY <1>5, <2>1 DEF Reauthenticate, Invalidate
<1>6. CASE Poll \/ Wake \/ Deadline
  BY <1>6 DEF Poll, Wake, Deadline, EndOperation
<1>7. CASE Deliver \/ TurnDown \/ Lose \/ Garble
  BY <1>7 DEF Deliver, TurnDown, Lose, Garble
<1>8. CASE TaskEnds \/ Forget \/ TicketAges \/ Revoke \/ BreakerExpires
  BY <1>8 DEF TaskEnds, Forget, TicketAges, Revoke, BreakerExpires
<1>9. CASE UNCHANGED clientVars
  BY <1>9 DEF clientVars
<1> QED
  BY <1>1, <1>2, <1>3, <1>4, <1>5, <1>6, <1>7, <1>8, <1>9
     DEF ClientNext, Step, Surroundings

(* auth.go: a ticket that PVE has refused is never presented again, by the *)
(* request it was refused to or by a later one.                            *)
THEOREM RefusedTicketDropped == ClientSpec => []RejectedTicketNotResent
<1>1. ClientInit => AuthInv
  BY DEF ClientInit, AuthInv
<1>2. AuthInv => RejectedTicketNotResent
  BY DEF AuthInv, RejectedTicketNotResent
<1> QED BY <1>1, <1>2, AuthStep, PTL DEF ClientSpec

-----------------------------------------------------------------------------
(* The outcome of an operation.                                            *)

(* What an ended task of kind o has made of the object.                    *)
Left(o) == (o = "create" => object) /\ (o = "delete" => ~object)

Lasting == {"create", "delete"}

(* The request belongs to the operation, the task waited for is the one    *)
(* accepted for it, and an answer that says so is only ever about a task   *)
(* that has ended well.                                                    *)
OpInv ==
    /\ task \in [op : Operations \union {"none"},
                 state : {"none", "running", "ok", "failed", "forgotten"}]
    /\ op \in Operations \union {"none"} /\ (op = "none" <=> stage = "idle")
    /\ asks = op \/ asks = "status"
    /\ asks = "status" => op \in Lasting /\ task.op = op
    /\ stage # "flight" => reply = "none"
    /\ reply = "upid" => asks = op /\ op \in Lasting /\ task.op = op
    /\ reply = "data" => asks \in {"get", "set"}
    /\ reply = "ok" => asks = "status" /\ ~Busy /\ Left(task.op)
    /\ task.state = "ok" => Left(task.op)
    /\ done.result = "ok" /\ done.op \in Lasting =>
          stage = "idle" /\ ~Busy /\ Left(done.op)

(* An operation ends well only with the answer of its own task, or with    *)
(* data that came at once.                                                 *)
LEMMA EndKeeps ==
    ASSUME OpInv, stage # "idle", NEW result,
           EndRequest(result), UNCHANGED pveVars,
           result = "upid" => reply = "upid",
           result = "ok" => reply \in {"ok", "data"}
    PROVE  OpInv'
<1> USE DEF OpInv, pveVars, Busy, Left, Lasting
<1>1. reply' = "none" /\ task' = task /\ object' = object
  BY DEF EndRequest
<1>2. CASE asks = "status" /\ result \notin {"ok", "failed", "no such"}
  <2>1. stage' = "sleep" /\ UNCHANGED <<op, asks, late, done>>
    BY <1>2, Zenon DEF EndRequest
  <2>2. /\ asks' = "status" /\ stage' = "sleep"
        /\ op' = op /\ done' = done
    BY <1>2, <2>1
  <2>3. op \in Lasting /\ task.op = op
    BY <1>2
  <2> QED BY <1>1, <2>2, <2>3
<1>3. CASE ~(asks = "status" /\ result \notin {"ok", "failed", "no such"}) /\ result = "upid"
  <2>1. /\ reply = "upid"
        /\ asks' = "status" /\ stage' = "poll" /\ op' = op /\ done' = done
    BY <1>3 DEF EndRequest
  <2> QED BY <1>1, <2>1
<1>4. CASE ~(asks = "status" /\ result \notin {"ok", "failed", "no such"}) /\ result # "upid"
  <2>1. /\ done' = [op |-> op, result |-> result]
        /\ op' = "none" /\ asks' = "none" /\ stage' = "idle"
    BY <1>4 DEF EndRequest, EndOperation
  <2>2. result = "ok" /\ op \in Lasting => ~Busy /\ Left(op)
    <3>1. CASE reply = "ok"
      BY <3>1
    <3>2. CASE reply = "data"
      BY <3>2
    <3> QED BY <3>1, <3>2
  <2> QED BY <1>1, <2>1, <2>2
<1> QED BY <1>2, <1>3, <1>4

LEMMA TriedKeeps ==
    ASSUME OpInv, stage # "idle", NEW result, result \notin {"ok", "upid"},
           Tried(result), UNCHANGED pveVars
    PROVE  OpInv'
<1>1. CASE call' = NoCall
  BY <1>1, EndKeeps DEF Tried
<1>2. CASE call' # NoCall
  BY <1>2 DEF Tried, OpInv, pveVars, Busy, Left, Lasting
<1> QED BY <1>1, <1>2

(* A request that PVE serves either starts the task of its own operation   *)
(* or reads, so no running task is forgotten about.                        *)
LEMMA DeliverKeeps == OpInv /\ Deliver => OpInv'
<1> SUFFICES ASSUME OpInv, Deliver PROVE OpInv'
  OBVIOUS
<1> USE DEF OpInv, Busy, Left, Lasting
<1>1. /\ stage = "flight" /\ stage' = stage /\ reply = "none"
      /\ op' = op /\ asks' = asks /\ done' = done /\ object' = object
  BY DEF Deliver
<1>2. CASE ~honoured
  BY <1>1, <1>2 DEF Deliver
<1>3. CASE honoured /\ task' = task
  <2>1. CASE asks \in {"get", "set"}
    <3>1. reply' \in {"data", "busy", "no such"}
      BY <1>3, <2>1 DEF Deliver, Serve
    <3>2. reply' = "data" => asks \in {"get", "set"}
      BY <2>1
    <3> QED BY <1>1, <1>3, <3>1, <3>2
  <2>2. CASE asks = "status"
    <3>1. reply' = IF task.state = "forgotten" THEN "no such" ELSE task.state
      BY <1>3, <2>2 DEF Deliver, Serve
    <3>2. reply' \in {"no such", "none", "running", "ok", "failed"}
      BY <3>1
    <3>3. reply' = "ok" => task.state = "ok"
      BY <3>1
    <3> QED BY <1>1, <1>3, <2>2, <3>2, <3>3
  <2>3. CASE asks \notin {"get", "set", "status"}
    <3>1. CASE Busy
      <4>1. reply' = "busy"
        BY <1>3, <2>3, <3>1 DEF Deliver, Serve
      <4> QED BY <1>1, <1>3, <4>1
    <3>2. CASE ~Busy
      <4>1. task' # [op |-> asks, state |-> "running"]
        BY <1>3, <3>2
      <4>2. reply' = "exists" \/ reply' = "no such"
        BY <1>3, <2>3, <3>2, <4>1 DEF Deliver, Serve
      <4> QED BY <1>1, <1>3, <4>2
    <3> QED BY <3>1, <3>2
  <2> QED BY <2>1, <2>2, <2>3
<1>4. CASE honoured /\ task' # task
  <2>1. /\ asks \notin {"get", "status", "set"} /\ asks = op
        /\ reply' = "upid" /\ task' = [op |-> asks, state |-> "running"]
    BY <1>1, <1>4 DEF Deliver, Serve
  <2>2. op \in Operations /\ op # "get" /\ op # "set"
    BY <1>1, <2>1
  <2> QED BY <1>1, <2>1, <2>2 DEF Operations
<1> QED BY <1>2, <1>3, <1>4

LEMMA TaskEndsKeeps == OpInv /\ TaskEnds => OpInv'
<1> SUFFICES ASSUME OpInv, TaskEnds PROVE OpInv'
  OBVIOUS
<1> USE DEF OpInv, Busy, Left, Lasting
<1>1. /\ task.state = "running" /\ task'.op = task.op
      /\ task' \in [op : Operations \union {"none"},
                    state : {"none", "running", "ok", "failed", "forgotten"}]
      /\ UNCHANGED <<op, asks, stage, reply, done>>
  BY DEF TaskEnds
<1>2. task'.state = "ok" => Left(task.op)'
  BY <1>1 DEF TaskEnds
<1> QED BY <1>1, <1>2

LEMMA OpStep == OpInv /\ [ClientNext]_clientVars => OpInv'
<1> SUFFICES ASSUME OpInv, [ClientNext]_clientVars PROVE OpInv'
  OBVIOUS
<1>1. ASSUME NEW o \in Operations, Submit(o) PROVE OpInv'
  BY <1>1 DEF Submit, OpInv, pveVars, Busy, Left, Lasting, NotDone, Operations
<1>2. ASSUME NEW o \in Operations, Refuse(o) PROVE OpInv'
  BY <1>2 DEF Refuse, OpInv, pveVars, Busy, Left, Lasting
<1>3. CASE Authorize \/ Poll \/ Deadline
  BY <1>3 DEF Authorize, Poll, Deadline, OpInv, pveVars, Busy, Left, Lasting
<1>4. CASE Wake
  BY <1>4 DEF Wake, EndOperation, OpInv, pveVars, Busy, Left, Lasting
<1>5. CASE Abandon
  <2>1. stage # "idle" /\ EndRequest("abandoned") /\ UNCHANGED pveVars
    BY <1>5 DEF Abandon
  <2> QED BY <2>1, EndKeeps
<1>6. CASE Answered
  <2>1. stage # "idle" /\ EndRequest(Verdict(reply)) /\ UNCHANGED pveVars
    BY <1>6 DEF Answered
  <2>2. /\ Verdict(reply) = "upid" => reply = "upid"
        /\ Verdict(reply) = "ok" => reply \in {"ok", "data"}
    BY DEF Verdict
  <2> QED BY <2>1, <2>2, EndKeeps
<1>7. CASE TryAgain
  <2>1. /\ stage # "idle" /\ reply \notin {"ok", "upid"}
        /\ Tried(reply) /\ UNCHANGED pveVars
    BY <1>7 DEF TryAgain
  <2> QED BY <2>1, TriedKeeps
<1>8. CASE Reauthenticate
  <2>1. stage # "idle" /\ Tried("unauthorized") /\ UNCHANGED pveVars
    BY <1>8 DEF Reauthenticate
  <2> QED BY <2>1, TriedKeeps
<1>9. CASE FailFast
  <2>1. /\ stage # "idle" /\ reply \notin {"ok", "upid"}
        /\ EndRequest(reply) /\ UNCHANGED pveVars
    BY <1>9 DEF FailFast
  <2> QED BY <2>1, EndKeeps
<1>10. CASE Deliver \/ TaskEnds
  BY <1>10, DeliverKeeps, TaskEndsKeeps
<1>11. CASE TurnDown \/ Lose \/ Garble
  BY <1>11 DEF TurnDown, Lose, Garble, OpInv, pveVars, Busy, Left, Lasting
<1>12. CASE Forget
  BY <1>12 DEF Forget, OpInv, pveVars, Busy, Left, Lasting
<1>13. CASE TicketAges \/ Revoke \/ BreakerExpires
  BY <1>13 DEF TicketAges, Revoke, BreakerExpires, OpInv, pveVars, Busy, Left, Lasting
<1>14. CASE UNCHANGED clientVars
  BY <1>14 DEF clientVars, OpInv, pveVars, Busy, Left, Lasting
<1> QED
  BY <1>1, <1>2, <1>3, <1>4, <1>5, <1>6, <1>7, <1>8, <1>9, <1>10, <1>11,
     <1>12, <1>13, <1>14
     DEF ClientNext, Step, Surroundings

LEMMA InitialOp == ClientInit => OpInv
<1> SUFFICES ASSUME ClientInit PROVE OpInv
  OBVIOUS
<1>1. /\ op = "none" /\ asks = "none" /\ stage = "idle" /\ reply = "none"
      /\ task = [op |-> "none", state |-> "none"] /\ done.result = "none"
  BY DEF ClientInit, NotDone
<1>2. task \in [op : Operations \union {"none"},
                state : {"none", "running", "ok", "failed", "forgotten"}]
  BY <1>1
<1>3. task.state = "none"
  BY <1>1
<1> QED BY <1>1, <1>2, <1>3 DEF OpInv

(* Whatever was lost, refused, retried or forgotten on the way, a create   *)
(* that the client reports as done has left the object there, and a delete *)
(* has removed it.                                                         *)
THEOREM ReportedIsReal == ClientSpec => []SuccessIsReal
<1>1. ClientInit => OpInv
  BY InitialOp
<1>2. OpInv => SuccessIsReal
  BY DEF OpInv, SuccessIsReal, Left, Lasting
<1> QED BY <1>1, <1>2, OpStep, PTL DEF ClientSpec

-----------------------------------------------------------------------------
(* Typing.                                                                 *)

Stages == {"idle", "auth", "flight", "poll", "sleep"}

(* What neither the breaker's invariant nor OpInv types.                   *)
Typed ==
    /\ method \in {"token", "ticket"} /\ ticket \in {"none", "young", "old"}
    /\ honoured \in BOOLEAN /\ spurned \in BOOLEAN
    /\ stage \in Stages /\ late \in BOOLEAN /\ object \in BOOLEAN

LEMMA EndTyped ==
    ASSUME Typed, NEW result, EndRequest(result) \/ Tried(result)
    PROVE  stage' \in Stages /\ late' \in BOOLEAN
BY DEF EndRequest, EndOperation, Tried, Typed, Stages

LEMMA TypedStep == Typed /\ [ClientNext]_clientVars => Typed'
<1> SUFFICES ASSUME Typed, [ClientNext]_clientVars PROVE Typed'
  OBVIOUS
<1> USE DEF authVars, pveVars
<1>1. ASSUME NEW o \in Operations, Submit(o) \/ Refuse(o) PROVE Typed'
  BY <1>1 DEF Submit, Refuse, Typed, Stages
<1>2. CASE Authorize
  BY <1>2 DEF Authorize, Typed, Stages
<1>3. CASE Abandon \/ Answered \/ FailFast
  <2>1. \E result : EndRequest(result)
    BY <1>3 DEF Abandon, Answered, FailFast
  <2>2. UNCHANGED <<method, authVars, pveVars>>
    BY <1>3 DEF Abandon, Answered, FailFast
  <2> QED BY <2>1, <2>2, EndTyped DEF Typed
<1>4. CASE TryAgain \/ Reauthenticate
  <2>1. \E result : Tried(result)
    BY <1>4 DEF TryAgain, Reauthenticate
  <2>2. /\ UNCHANGED <<method, honoured, pveVars>>
        /\ ticket' \in {"none", ticket} /\ spurned' \in {TRUE, spurned}
    BY <1>4 DEF TryAgain, Reauthenticate, Invalidate
  <2> QED BY <2>1, <2>2, EndTyped DEF Typed
<1>5. CASE Poll \/ Wake \/ Deadline
  BY <1>5 DEF Poll, Wake, Deadline, EndOperation, Typed, Stages
<1>6. CASE Deliver \/ TurnDown \/ Lose \/ Garble
  BY <1>6 DEF Deliver, TurnDown, Lose, Garble, Typed
<1>7. CASE TaskEnds \/ Forget \/ TicketAges \/ Revoke \/ BreakerExpires
  BY <1>7 DEF TaskEnds, Forget, TicketAges, Revoke, BreakerExpires, Typed
<1>8. CASE UNCHANGED clientVars
  BY <1>8 DEF clientVars, Typed
<1> QED
  BY <1>1, <1>2, <1>3, <1>4, <1>5, <1>6, <1>7, <1>8
     DEF ClientNext, Step, Surroundings

(* Every variable of the client keeps its type: in particular a request in *)
(* progress never outlives its retries, and every stage of an operation is *)
(* one that the code has.                                                  *)
THEOREM ClientIsTyped == ClientSpec => []ClientTypeOK
<1>1. ClientInit => OpInv /\ Typed
  BY InitialOp DEF ClientInit, Typed, Stages
<1>2. ClientSpec => [](OpInv /\ Typed)
  BY <1>1, OpStep, TypedStep, PTL DEF ClientSpec
<1>3. OpInv /\ Typed /\ TypeOK => ClientTypeOK
  BY DEF OpInv, Typed, Stages, ClientTypeOK
<1> QED BY <1>2, <1>3, ClientUsesBreaker, TypeCorrect, PTL

=============================================================================
