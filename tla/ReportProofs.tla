---------------------------- MODULE ReportProofs ----------------------------
(***************************************************************************)
(* What the executor records as done has been done, and what needs a guest *)
(* stopped is only written to one.  Both follow the calls of the action in *)
(* hand: which of them have been made (Made), what those that are over     *)
(* have achieved (Post), and that between two of them no task, however     *)
(* old, is at work on the guest.                                           *)
(***************************************************************************)
EXTENDS PromiseProofs

(* The first n calls of an action.                                         *)
Before(a, n) == {Program(a)[j] : j \in 1..n}

(* The first calls of the programs there are.                              *)
LEMMA Prefixes ==
    ASSUME NEW x, NEW y, NEW z
    PROVE  /\ Len(<<x>>) = 1 /\ Len(<<x, y>>) = 2 /\ Len(<<x, y, z>>) = 3
           /\ {<<x>>[j] : j \in 1..0} = {} /\ {<<x, y>>[j] : j \in 1..0} = {}
           /\ {<<x, y, z>>[j] : j \in 1..0} = {}
           /\ {<<x>>[j] : j \in 1..1} = {x} /\ {<<x, y>>[j] : j \in 1..1} = {x}
           /\ {<<x, y, z>>[j] : j \in 1..1} = {x}
           /\ {<<x, y>>[j] : j \in 1..2} = {x, y}
           /\ {<<x, y, z>>[j] : j \in 1..2} = {x, y}
           /\ {<<x, y, z>>[j] : j \in 1..3} = {x, y, z}
<1>1. 1..0 = {} /\ 1..1 = {1} /\ 1..2 = {1, 2} /\ 1..3 = {1, 2, 3}
  OBVIOUS
<1> QED BY <1>1

(* What is to have been called before op, given what a is.                 *)
Ordered(op, D, a) ==
    /\ op \in {"create", "clone", "download"} => D = {}
    /\ op = "stop" => D = {}
    /\ op = "mark" => D \subseteq {"create"}
    /\ op = "read" => D = {"clone"}
    /\ op = "settle" => a.what = "delete" /\ D \subseteq {"stop"}
    /\ op = "config" => /\ D \subseteq {"stop", "clone", "read"}
                        /\ a.stopFirst /\ a.live = "running" /\ a.what = "update" =>
                              "stop" \in D
    /\ op = "start" => D \subseteq {"stop", "config"}
    /\ a.what = "update" /\ op \notin {"stop", "config"} => "config" \in D

(* What the calls of an action amount to.                                  *)
Amounts(D, a) ==
    /\ a.kind \in ArtifactKinds => "download" \in D
    /\ a.what = "delete" => "delete" \in D
    /\ a.what = "start" => "start" \in D
    /\ a.what = "stop" => "stop" \in D /\ "start" \notin D
    /\ a.what = "mark-template" => "mark" \in D
    /\ a.what = "create" /\ a.kind \notin ArtifactKinds =>
          /\ "create" \in D \/ ("clone" \in D /\ "config" \in D)
          /\ "mark" \in D <=> a.kind \in TemplateKinds
    /\ a.what = "update" => "config" \in D
    /\ a.what = "update" /\ a.stopFirst /\ a.live = "running"
         /\ a.res.state = "started" => "start" \in D

(* Every call of a comes after what it has to come after, and together they*)
(* amount to what they should.                                             *)
WellOrdered(a) ==
    /\ Len(Program(a)) \in Nat
    /\ \A n \in 0..(Len(Program(a)) - 1) :
          Ordered(Program(a)[n + 1], Before(a, n), a)
    /\ Amounts(Before(a, Len(Program(a))), a)

(* A program of one call is well ordered if that call is;                  *)
LEMMA OfOne ==
    ASSUME NEW a, NEW x, Program(a) = <<x>>, Ordered(x, {}, a), Amounts({x}, a)
    PROVE  WellOrdered(a)
<1>1. Len(Program(a)) = 1 /\ Program(a)[1] = x /\ Before(a, 0) = {} /\ Before(a, 1) = {x}
  BY Prefixes DEF Before
<1> QED BY <1>1 DEF WellOrdered

(* of two, if each is after those before it;                               *)
LEMMA OfTwo ==
    ASSUME NEW a, NEW x, NEW y, Program(a) = <<x, y>>,
           Ordered(x, {}, a), Ordered(y, {x}, a), Amounts({x, y}, a)
    PROVE  WellOrdered(a)
<1>1. /\ Len(Program(a)) = 2 /\ Program(a)[1] = x /\ Program(a)[2] = y
      /\ Before(a, 0) = {} /\ Before(a, 1) = {x} /\ Before(a, 2) = {x, y}
  BY Prefixes DEF Before
<1>2. ASSUME NEW n \in 0..(Len(Program(a)) - 1)
      PROVE  Ordered(Program(a)[n + 1], Before(a, n), a)
  <2>1. n = 0 \/ n = 1
    BY <1>1
  <2> QED BY <1>1, <2>1
<1> QED BY <1>1, <1>2 DEF WellOrdered

(* and of three.                                                           *)
LEMMA OfThree ==
    ASSUME NEW a, NEW x, NEW y, NEW z, Program(a) = <<x, y, z>>, Ordered(x, {}, a),
           Ordered(y, {x}, a), Ordered(z, {x, y}, a), Amounts({x, y, z}, a)
    PROVE  WellOrdered(a)
<1>1. /\ Len(Program(a)) = 3
      /\ Program(a)[1] = x /\ Program(a)[2] = y /\ Program(a)[3] = z
      /\ Before(a, 0) = {} /\ Before(a, 1) = {x}
      /\ Before(a, 2) = {x, y} /\ Before(a, 3) = {x, y, z}
  BY Prefixes DEF Before
<1>2. ASSUME NEW n \in 0..(Len(Program(a)) - 1)
      PROVE  Ordered(Program(a)[n + 1], Before(a, n), a)
  <2>1. n = 0 \/ n = 1 \/ n = 2
    BY <1>1
  <2> QED BY <1>1, <2>1
<1> QED BY <1>1, <1>2 DEF WellOrdered

(* One call, then one more,                                                *)
LEMMA JoinedTwo ==
    \A x, y : <<x>> \o <<y>> = <<x, y>>
<1> SUFFICES ASSUME NEW x, NEW y PROVE <<x>> \o <<y>> = <<x, y>>
  OBVIOUS
<1> DEFINE S == {x, y}
           c == <<x>> \o <<y>>
<1>1. <<x>> \in Seq(S) /\ <<y>> \in Seq(S) /\ <<x, y>> \in Seq(S)
  OBVIOUS
<1> HIDE DEF S
<1>2. c \in Seq(S) /\ Len(c) = 2 /\ c[1] = x /\ c[2] = y
  BY <1>1, ConcatProperties
<1> HIDE DEF c
<1>3. \A i \in 1..Len(c) : c[i] = <<x, y>>[i]
  BY <1>2
<1>4. c = <<x, y>>
  BY <1>1, <1>2, <1>3, SeqEqual
<1> QED BY <1>4 DEF c

(* or two more.                                                            *)
LEMMA JoinedThree ==
    \A x, y, z : <<x>> \o <<y, z>> = <<x, y, z>>
<1> SUFFICES ASSUME NEW x, NEW y, NEW z PROVE <<x>> \o <<y, z>> = <<x, y, z>>
  OBVIOUS
<1> DEFINE S == {x, y, z}
           c == <<x>> \o <<y, z>>
<1>1. <<x>> \in Seq(S) /\ <<y, z>> \in Seq(S) /\ <<x, y, z>> \in Seq(S)
  OBVIOUS
<1> HIDE DEF S
<1>2. c \in Seq(S) /\ Len(c) = 3 /\ c[1] = x /\ c[2] = y /\ c[3] = z
  BY <1>1, ConcatProperties
<1> HIDE DEF c
<1>3. \A i \in 1..Len(c) : c[i] = <<x, y, z>>[i]
  BY <1>2
<1>4. c = <<x, y, z>>
  BY <1>1, <1>2, <1>3, SeqEqual
<1> QED BY <1>4 DEF c

(* The program of every sound action.                                      *)
LEMMA ProgramOrder ==
    ASSUME NEW a, Sound(a)
    PROVE  WellOrdered(a)
<1>1. /\ a.what \in Verbs
      /\ a.what = "delete" => a.kind \in {"VM", "LXC"} /\ a.kind \notin ArtifactKinds
      /\ a.kind \in ArtifactKinds => a.what = "create" /\ a.kind \notin TemplateKinds
  BY DEF Sound, Action, ArtifactKinds, TemplateKinds
<1>2. CASE a.kind \in ArtifactKinds
  <2>1. Program(a) = <<"download">>
    BY <1>1, <1>2 DEF Program, CreateCalls
  <2>2. Ordered("download", {}, a) /\ Amounts({"download"}, a)
    BY <1>1, <1>2 DEF Ordered, Amounts
  <2> QED BY <2>1, <2>2, OfOne
<1>3. CASE a.kind \notin ArtifactKinds /\ a.what = "create"
  <2>1. CASE a.kind \in TemplateKinds
    <3>1. Program(a) = <<"create", "mark">>
      BY <1>3, <2>1 DEF Program, CreateCalls
    <3> QED BY <1>3, <2>1, <3>1, OfTwo DEF Ordered, Amounts
  <2>2. CASE a.kind \notin TemplateKinds /\ a.src # 0
    <3>1. Program(a) = <<"clone", "read", "config">>
      BY <1>3, <2>2 DEF Program, CreateCalls
    <3> QED BY <1>3, <2>2, <3>1, OfThree DEF Ordered, Amounts
  <2>3. CASE a.kind \notin TemplateKinds /\ a.src = 0
    <3>1. Program(a) = <<"create">>
      BY <1>3, <2>3 DEF Program, CreateCalls
    <3> QED BY <1>3, <2>3, <3>1, OfOne DEF Ordered, Amounts
  <2> QED BY <2>1, <2>2, <2>3
<1>4. CASE a.kind \notin ArtifactKinds /\ a.what = "update"
  <2>1. CASE ~(a.stopFirst /\ a.live = "running")
    <3>1. Program(a) = <<"config">>
      BY <1>4, <2>1 DEF Program, UpdateCalls
    <3> QED BY <1>4, <2>1, <3>1, OfOne DEF Ordered, Amounts
  <2>2. CASE a.stopFirst /\ a.live = "running" /\ a.res.state = "started"
    <3>1. Program(a) = <<"stop", "config", "start">>
      BY <1>4, <2>2 DEF Program, UpdateCalls
    <3> QED BY <1>4, <2>2, <3>1, OfThree DEF Ordered, Amounts
  <2>3. CASE a.stopFirst /\ a.live = "running" /\ a.res.state # "started"
    <3>1. Program(a) = <<"stop", "config">>
      BY <1>4, <2>3 DEF Program, UpdateCalls
    <3> QED BY <1>4, <2>3, <3>1, OfTwo DEF Ordered, Amounts
  <2> QED BY <2>1, <2>2, <2>3
<1>5. CASE a.kind \notin ArtifactKinds /\ a.what \in {"start", "stop", "mark-template"}
  <2>1. Program(a) = <<IF a.what = "mark-template" THEN "mark" ELSE a.what>>
    BY <1>5 DEF Program
  <2> QED BY <1>5, <2>1, OfOne DEF Ordered, Amounts
<1>6. CASE a.kind \notin ArtifactKinds /\ a.what = "delete"
  <2>1. CASE a.live = "running" /\ a.kind = "LXC"
    <3>1. Program(a) = <<"stop", "settle", "delete">>
      <4>1. Program(a) = <<"stop">> \o <<"settle", "delete">>
        BY <1>6, <2>1 DEF Program, DeleteCalls
      <4>2. <<"stop">> \o <<"settle", "delete">> = <<"stop", "settle", "delete">>
        BY JoinedThree
      <4> QED BY <4>1, <4>2
    <3> QED BY <1>6, <2>1, <3>1, OfThree DEF Ordered, Amounts
  <2>2. CASE a.live = "running" /\ a.kind # "LXC"
    <3>1. Program(a) = <<"stop", "delete">>
      <4>1. Program(a) = <<"stop">> \o <<"delete">>
        BY <1>6, <2>2 DEF Program, DeleteCalls
      <4>2. <<"stop">> \o <<"delete">> = <<"stop", "delete">>
        BY JoinedTwo
      <4> QED BY <4>1, <4>2
    <3> QED BY <1>6, <2>2, <3>1, OfTwo DEF Ordered, Amounts
  <2>3. CASE a.live # "running" /\ a.kind = "LXC"
    <3>1. Program(a) = <<"settle", "delete">>
      BY <1>6, <2>3 DEF Program, DeleteCalls
    <3> QED BY <1>6, <2>3, <3>1, OfTwo DEF Ordered, Amounts
  <2>4. CASE a.live # "running" /\ a.kind # "LXC"
    <3>1. Program(a) = <<"delete">>
      BY <1>6, <2>4 DEF Program, DeleteCalls
    <3> QED BY <1>6, <2>4, <3>1, OfOne DEF Ordered, Amounts
  <2> QED BY <2>1, <2>2, <2>3, <2>4
<1> QED BY <1>1, <1>2, <1>3, <1>4, <1>5, <1>6 DEF Verbs

-----------------------------------------------------------------------------
(* The calls of the action in hand.                                        *)

(* How many calls have been made.                                          *)
Made == Len(Program(cur)) - Len(ops)

(* The calls left are the last ones of the program, and the task that is   *)
(* waited for is that of the last call made; while it runs there is no     *)
(* verdict on it.                                                          *)
CallInv ==
    /\ upid = NoTask => verdict = "none"
    /\ upid # NoTask => IF upid \in running THEN verdict = "running"
                        ELSE verdict \in {"ok", "failed"}
    /\ cur # NoAction =>
          /\ Made \in Nat
          /\ \A j \in 1..Len(ops) : ops[j] = Program(cur)[Made + j]
          /\ upid # NoTask =>
                Made > 0 /\ upid = [op |-> Program(cur)[Made], act |-> cur]

(* The steps that bear on the action in hand, or on its guest.             *)
Idles == UNCHANGED <<cur, ops, upid, verdict, pve, storage, running, edits>>

Drops == cur' = NoAction /\ upid' = NoTask /\ verdict' = "none"

Begins == /\ cur = NoAction /\ cur' # NoAction /\ cur' \in Planned
          /\ ops' = Program(cur')
          /\ UNCHANGED <<upid, verdict, pve, storage, running, edits>>

Makes(t) ==
    /\ t \in Task /\ t.act = cur /\ Attempt(t.op)
    /\ Sound(cur) /\ Fits(t.op, cur) /\ Accepts(t) /\ Accept(t)
    /\ cur' = cur /\ ops' = Tail(ops)
    /\ upid' = IF IsSynchronous(t) THEN NoTask ELSE t
    /\ verdict' = IF IsSynchronous(t) THEN "none" ELSE "running"
    /\ edits' = edits

Passes(op) ==
    /\ op \in {"read", "settle"} /\ Attempt(op)
    /\ cur' = cur /\ ops' = Tail(ops) /\ upid' = NoTask /\ verdict' = "none"
    /\ op = "read" => running' = running
    /\ running \subseteq running'
    /\ \A t \in running' \ running : t.op = "stop"
    /\ UNCHANGED <<pve, storage, edits>>

Waits ==
    /\ upid # NoTask /\ verdict = "ok" /\ upid' = NoTask /\ verdict' = "none"
    /\ UNCHANGED <<cur, ops, pve, storage, running, edits>>

Over(t, o) ==
    /\ t \in running /\ running' = running \ {t}
    /\ verdict' = IF t = upid THEN o ELSE verdict
    /\ IF o = "ok" THEN TakesEffect(t) ELSE UNCHANGED <<pve, storage>>
    /\ UNCHANGED <<cur, ops, upid, edits>>

Moves(s) == Disturb(s) /\ UNCHANGED <<cur, ops, upid, verdict>>

CallStep ==
    \/ Idles \/ Drops \/ Begins \/ Waits
    \/ \E t \in Task : Makes(t)
    \/ \E op \in {"read", "settle"} : Passes(op)
    \/ \E t \in running : \E o \in {"ok", "failed"} : Over(t, o)
    \/ \E s \in Slot : Moves(s)

(* Every step is one of these.                                             *)
LEMMA CallCases ==
    ASSUME IInv, [Next]_vars
    PROVE  CallStep
<1>1. ExecInv /\ PlanInv
  BY DEF IInv
<1>2. ASSUME NEW op \in Writes, Issue(op) PROVE CallStep
  <2> DEFINE t == [op |-> op, act |-> cur]
  <2>1. CASE Conclude("failed")
    BY <2>1 DEF Conclude, Drops, CallStep
  <2>2. CASE ~Conclude("failed")
    <3>1. /\ Attempt(op) /\ Accepts(t) /\ Accept(t)
          /\ Proceed(IF IsSynchronous(t) THEN NoTask ELSE t) /\ edits' = edits
      BY <1>2, <2>2 DEF Issue
    <3>2. cur \in Action /\ Sound(cur) /\ Fits(op, cur)
      BY <1>1, <3>1, AttemptFits
    <3>3. t \in Task /\ t.op = op /\ t.act = cur /\ t # NoTask
      BY <3>2 DEF Task, NoTask, Writes
    <3> HIDE DEF t
    <3>4. Makes(t)
      BY <3>1, <3>2, <3>3 DEF Makes, Proceed
    <3> QED BY <3>3, <3>4 DEF CallStep
  <2> QED BY <2>1, <2>2
<1>3. ASSUME ReadClone \/ Settle PROVE CallStep
  <2>1. CASE Conclude("failed")
    BY <2>1 DEF Conclude, Drops, CallStep
  <2>2. CASE ReadClone /\ ~Conclude("failed")
    <3>1. Passes("read")
      BY <2>2 DEF ReadClone, Passes, Proceed, pveVars
    <3> QED BY <3>1 DEF CallStep
  <2>3. CASE Settle /\ ~Conclude("failed")
    <3> DEFINE t == [op |-> "stop", act |-> cur]
    <3>1. /\ Attempt("settle") /\ Proceed(NoTask) /\ edits' = edits
          /\ UNCHANGED pveVars \/ Accept(t)
      BY <2>3 DEF Settle
    <3>2. ~IsSynchronous(t) /\ t.op = "stop"
      BY DEF IsSynchronous
    <3> HIDE DEF t
    <3>3. UNCHANGED <<pve, storage>> /\ (running' = running \/ running' = running \union {t})
      BY <3>1, <3>2 DEF Accept, pveVars
    <3>4. Passes("settle")
      BY <3>1, <3>2, <3>3 DEF Passes, Proceed
    <3> QED BY <3>4 DEF CallStep
  <2> QED BY <1>3, <2>1, <2>2, <2>3
<1>4. CASE Await
  <2>1. CASE Conclude("failed")
    BY <2>1 DEF Conclude, Drops, CallStep
  <2>2. CASE ~Conclude("failed")
    BY <1>4, <2>2 DEF Await, Waits, CallStep, pveVars
  <2> QED BY <2>1, <2>2
<1>5. CASE Complete \/ Crash
  BY <1>5 DEF Complete, Crash, Conclude, Drops, CallStep
<1>6. ASSUME NEW a \in todo, Begin(a) PROVE CallStep
  <2>1. a \in Action /\ a # NoAction
    <3>1. a \in Action
      BY <1>1 DEF ExecInv
    <3>2. a.what \in Verbs /\ NoAction.what = "none"
      BY <3>1 DEF Action, NoAction
    <3> QED BY <3>1, <3>2 DEF Verbs
  <2>2. Begins
    BY <1>6, <2>1 DEF Begin, Begins, Planned, pveVars
  <2> QED BY <2>2 DEF CallStep
<1>7. CASE (\E a \in todo : Defer(a)) \/ EndCycle
  BY <1>7 DEF Defer, EndCycle, Idles, CallStep, pveVars
<1>8. CASE Sync \/ SyncFails \/ Load \/ PlanCycle
  BY <1>8 DEF Sync, SyncFails, Load, List, ListFails, ReadConfig,
     ReadConfigFails, ReadStatus, ProbeStorage, PlanCycle, Idles, CallStep,
     pveVars, execVars
<1>9. CASE (\E v \in Revisions : Push(v)) \/ UNCHANGED vars
  BY <1>9 DEF Push, vars, pveVars, execVars, Idles, CallStep
<1>10. CASE PveStep
  <2>1. PICK t \in running : TaskSucceeds(t) \/ TaskFails(t)
    BY <1>10 DEF PveStep
  <2>2. Over(t, "ok") \/ Over(t, "failed")
    BY <2>1 DEF TaskSucceeds, TaskFails, Ends, Over
  <2> QED BY <2>2 DEF CallStep
<1>11. ASSUME NEW s \in Slot, Disturb(s) PROVE CallStep
  BY <1>11 DEF Disturb, execVars, Moves, CallStep
<1> QED BY <1>2, <1>3, <1>4, <1>5, <1>6, <1>7, <1>8, <1>9, <1>10, <1>11
        DEF Next, Agent, Execute, Environment

(* The program of the action in hand, and the calls that are left.         *)
LEMMA InHand ==
    ASSUME IInv, cur # NoAction
    PROVE  /\ Sound(cur) /\ WellOrdered(cur)
           /\ Len(ops) \in Nat /\ Len(Program(cur)) \in Nat
           /\ ops # <<>> => /\ Len(ops) > 0 /\ Head(ops) = ops[1]
                            /\ Len(Tail(ops)) = Len(ops) - 1
                            /\ \A j \in 1..Len(Tail(ops)) : Tail(ops)[j] = ops[j + 1]
<1>1. Sound(cur) /\ ops \in Seq(Writes \union {"read", "settle"})
  BY DEF IInv, ExecInv
<1>2. WellOrdered(cur)
  BY <1>1, ProgramOrder
<1>3. Len(Program(cur)) \in Nat
  BY <1>2 DEF WellOrdered
<1>4. ops # <<>> => /\ Len(ops) > 0 /\ Head(ops) = ops[1]
                    /\ Len(Tail(ops)) = Len(ops) - 1
                    /\ \A j \in 1..Len(Tail(ops)) : Tail(ops)[j] = ops[j + 1]
  BY <1>1, EmptySeq, HeadTailProperties
<1> QED BY <1>1, <1>2, <1>3, <1>4

(* The call to be made next.                                               *)
LEMMA Due ==
    ASSUME IInv, CallInv, NEW op, Attempt(op)
    PROVE  /\ cur # NoAction /\ upid = NoTask /\ Made \in Nat
           /\ Program(cur)[Made + 1] = op
           /\ Ordered(op, Before(cur, Made), cur)
           /\ Before(cur, Made + 1) = Before(cur, Made) \union {op}
<1>1. cur # NoAction /\ upid = NoTask /\ ops # <<>> /\ Head(ops) = op
  BY DEF Attempt
<1>2. /\ WellOrdered(cur) /\ Len(ops) \in Nat /\ Len(Program(cur)) \in Nat
      /\ Len(ops) > 0 /\ op = ops[1]
  BY <1>1, InHand
<1>3. Made \in Nat /\ \A j \in 1..Len(ops) : ops[j] = Program(cur)[Made + j]
  BY <1>1 DEF CallInv
<1>4. Program(cur)[Made + 1] = op
  BY <1>2, <1>3
<1>5. Ordered(op, Before(cur, Made), cur)
  <2>1. Made \in 0..(Len(Program(cur)) - 1)
    BY <1>2, <1>3 DEF Made
  <2> QED BY <1>2, <1>4, <2>1 DEF WellOrdered
<1>6. Before(cur, Made + 1) = Before(cur, Made) \union {op}
  <2>1. 1..(Made + 1) = (1..Made) \union {Made + 1}
    BY <1>3
  <2> QED BY <1>4, <2>1 DEF Before
<1> QED BY <1>1, <1>3, <1>4, <1>5, <1>6

(* Making it.                                                              *)
LEMMA Advance ==
    ASSUME IInv, CallInv, NEW op, Attempt(op), cur' = cur, ops' = Tail(ops)
    PROVE  /\ Made' = Made + 1 /\ Made' \in Nat /\ Made' > 0
           /\ \A j \in 1..Len(ops') : ops'[j] = Program(cur)[Made' + j]
<1>1. cur # NoAction /\ ops # <<>> /\ Made \in Nat
  BY Due DEF Attempt
<1>2. /\ Len(ops) \in Nat /\ Len(Program(cur)) \in Nat /\ Len(ops') = Len(ops) - 1
      /\ \A j \in 1..Len(ops') : ops'[j] = ops[j + 1]
  BY <1>1, InHand
<1>3. \A j \in 1..Len(ops) : ops[j] = Program(cur)[Made + j]
  BY <1>1 DEF CallInv
<1>4. Made' = Made + 1
  <2>1. Len(Program(cur')) = Len(Program(cur))
    OBVIOUS
  <2>2. Made' = Len(Program(cur')) - Len(ops')
    BY DEF Made
  <2> HIDE DEF Made
  <2>3. Len(Program(cur)) - (Len(ops) - 1) = (Len(Program(cur)) - Len(ops)) + 1
    BY <1>2
  <2> QED BY <1>2, <2>1, <2>2, <2>3 DEF Made
<1>5. \A j \in 1..Len(ops') : ops'[j] = Program(cur)[Made' + j]
  <2> SUFFICES ASSUME NEW j \in 1..Len(ops') PROVE ops'[j] = Program(cur)[Made' + j]
    OBVIOUS
  <2>1. j + 1 \in 1..Len(ops) /\ Made + (j + 1) = Made' + j
    BY <1>1, <1>2, <1>4
  <2> QED BY <1>2, <1>3, <2>1
<1> QED BY <1>1, <1>4, <1>5

(* The calls left and the task waited for go with the action in hand.      *)
LEMMA CallInvStep ==
    ASSUME IInv, CallInv, [Next]_vars
    PROVE  CallInv'
<1>1. CallStep /\ ExecInv
  BY CallCases DEF IInv
<1>2. CASE Idles
  BY <1>2 DEF Idles, CallInv, Made
<1>3. CASE Drops
  BY <1>3 DEF Drops, CallInv
<1>4. CASE Begins
  <2>1. upid = NoTask
    BY <1>1, <1>4 DEF Begins, ExecInv
  <2>2. Sound(cur')
    BY <1>4 DEF Begins, IInv, PlanInv
  <2>3. Len(Program(cur')) \in Nat
    BY <2>2, ProgramOrder DEF WellOrdered
  <2>4. Made' = 0
    BY <1>4, <2>3 DEF Begins, Made
  <2> QED BY <1>4, <2>1, <2>3, <2>4 DEF Begins, CallInv
<1>5. CASE Waits
  BY <1>5 DEF Waits, CallInv, Made
<1>6. ASSUME NEW t \in Task, Makes(t) PROVE CallInv'
  <2>1. /\ cur' = cur /\ cur # NoAction /\ upid = NoTask
        /\ Made' = Made + 1 /\ Made' \in Nat /\ Made' > 0
        /\ Program(cur)[Made + 1] = t.op
        /\ \A j \in 1..Len(ops') : ops'[j] = Program(cur)[Made' + j]
    BY <1>6, Due, Advance DEF Makes
  <2>2. t # NoTask /\ t = [op |-> t.op, act |-> t.act]
    BY DEF Task, NoTask, Writes
  <2>3. ~IsSynchronous(t) => t \in running'
    BY <1>6 DEF Makes, Accept
  <2> QED BY <1>6, <2>1, <2>2, <2>3 DEF Makes, CallInv
<1>7. ASSUME NEW op \in {"read", "settle"}, Passes(op) PROVE CallInv'
  <2>1. /\ cur' = cur /\ Made' \in Nat
        /\ \A j \in 1..Len(ops') : ops'[j] = Program(cur)[Made' + j]
    BY <1>7, Due, Advance DEF Passes
  <2> QED BY <1>7, <2>1 DEF Passes, CallInv
<1>8. ASSUME NEW t \in running, NEW o \in {"ok", "failed"}, Over(t, o) PROVE CallInv'
  <2>1. t # NoTask
    BY DEF IInv, TaskInv, Task, NoTask, Writes
  <2> QED BY <1>8, <2>1 DEF Over, CallInv, Made
<1>9. ASSUME NEW s \in Slot, Moves(s) PROVE CallInv'
  BY <1>9 DEF Moves, Disturb, CallInv, Made
<1> QED BY <1>1, <1>2, <1>3, <1>4, <1>5, <1>6, <1>7, <1>8, <1>9 DEF CallStep

-----------------------------------------------------------------------------
(* What has been achieved.                                                 *)

(* The calls whose tasks are over, and successfully so.                    *)
Past == Before(cur, IF upid = NoTask \/ verdict = "ok" THEN Made ELSE Made - 1)

(* What the calls D of a leave of its guest g.                             *)
Shape(a, D, g) ==
    /\ g # NoGuest /\ g.type = PveType(a.kind)
    /\ "create" \in D \/ "config" \in D =>
          /\ "hot" \in a.set => g.hot = a.res.hot
          /\ "cold" \in a.set => g.cold = a.res.cold
          /\ "tags" \in a.set => g.tagged
    /\ ("create" \in D \/ "clone" \in D) /\ "mark" \notin D => ~g.template
    /\ "mark" \in D => g.template
    /\ "start" \in D => g.power = "running"
    /\ "stop" \in D /\ "start" \notin D => g.power = "stopped"

(* Whether they have left anything of it,                                  *)
Matters(a, D) == /\ a.kind \notin ArtifactKinds
                 /\ IF a.what = "delete" THEN "delete" \in D ELSE D # {}

(* and what they have.                                                     *)
Post(a, D) ==
    /\ a.kind \in ArtifactKinds /\ "download" \in D => FileAt(a) \in storage
    /\ Matters(a, D) => IF a.what = "delete" THEN pve[SlotAt(a)] = NoGuest
                        ELSE Shape(a, D, pve[SlotAt(a)])

(* Between two calls no task is at work on what they have left.            *)
PostInv ==
    edits = 0 /\ cur # NoAction /\ verdict # "failed" =>
        /\ Post(cur, Past)
        /\ (upid = NoTask \/ verdict = "ok") /\ Matters(cur, Past) => ~Held(SlotAt(cur))

(* One more call of a is carried out.                                      *)
LEMMA PostEffect ==
    ASSUME TaskInv, NEW t \in Task, Sound(t.act), Fits(t.op, t.act), Possible(t),
           Wanted(t.act), TakesEffect(t), NEW D, Ordered(t.op, D, t.act), Post(t.act, D)
    PROVE  Post(t.act, D \union {t.op})'
<1> DEFINE a == t.act
           E == D \union {t.op}
           g == pve[SlotAt(a)]
<1>1. CASE t.op = "download"
  <2>1. FileAt(a) \in storage' /\ a.kind \in ArtifactKinds
    BY <1>1 DEF TakesEffect, Fits
  <2> QED BY <2>1 DEF Post, Matters, FileAt
<1>2. ASSUME t.op # "download", a.what # "delete", Shape(a, E, After(t))
      PROVE  Post(a, E)'
  <2>1. pve'[SlotAt(a)] = After(t) /\ a.kind \notin ArtifactKinds
    BY <1>2, Effect DEF Fits
  <2> QED BY <1>2, <2>1 DEF Post, Matters, SlotAt
<1>3. CASE t.op # "download" /\ a.what = "delete"
  <2>1. pve'[SlotAt(a)] = After(t) /\ a.kind \notin ArtifactKinds
    BY <1>3, Effect DEF Fits
  <2>2. t.op \in {"stop", "delete"}
    BY <1>3 DEF Fits, Sound, TemplateKinds, Task, Writes
  <2>3. t.op = "delete" => After(t) = NoGuest
    BY DEF After
  <2>4. t.op = "stop" => D = {}
    BY DEF Ordered
  <2> QED BY <1>3, <2>1, <2>2, <2>3, <2>4 DEF Post, Matters, SlotAt
<1>4. t.op # "download" => /\ SlotAt(a) \in Slot /\ g \in Guest \union {NoGuest}
                           /\ a.kind \notin ArtifactKinds
                           /\ t.op = "clone" => SourceAt(a) \in Slot
  BY TaskSlots DEF TaskInv, Fits
<1>5. CASE t.op = "create" /\ a.what # "delete"
  <2>1. D = {} /\ E = {"create"}
    BY <1>5 DEF Ordered
  <2>2. After(t) = Created(a) /\ After(t) # NoGuest
    BY <1>5 DEF After, Created, PveType, NoGuest
  <2> QED BY <1>2, <1>5, <2>1, <2>2 DEF Shape, Created
<1>6. CASE t.op = "clone" /\ a.what # "delete"
  <2>1. D = {} /\ E = {"clone"}
    BY <1>6 DEF Ordered
  <2>2. PveType(a.kind) = "VM"
    BY <1>4, <1>6, ClonesAreVMs DEF Fits
  <2>3. pve[SourceAt(a)] \in Guest
    BY <1>4, <1>6 DEF Possible, TaskInv
  <2>4. After(t) \in Guest /\ After(t).type = "VM" /\ ~After(t).template
    BY <1>6, <2>3, AfterFields DEF After, Cloned, Guest
  <2> QED BY <1>2, <1>6, <2>1, <2>2, <2>4, NotAGuest DEF Shape
<1>7. CASE t.op \in {"config", "start", "stop", "mark"} /\ a.what # "delete"
  <2>1. g \in Guest /\ g.type = PveType(a.kind)
    BY <1>4, <1>7 DEF Possible, IsPower, Exists
  <2>2. After(t) # NoGuest /\ After(t).type = PveType(a.kind)
    BY <1>7, <2>1, AfterFields, NotAGuest
  <2>3. CASE t.op = "config"
    <3>1. D \subseteq {"stop", "clone", "read"}
      BY <2>3 DEF Ordered
    <3>2. D # {} => Shape(a, D, g)
      BY <1>4, <1>7, <2>3 DEF Post, Matters
    <3>3. After(t) = Configured(a)
      BY <2>3 DEF After
    <3>4. /\ After(t).template = g.template /\ After(t).power = g.power
          /\ "hot" \in a.set => After(t).hot = a.res.hot
          /\ "cold" \in a.set => After(t).cold = a.res.cold
          /\ "tags" \in a.set => After(t).tagged
      BY <2>1, <3>3 DEF Configured, Guest
    <3>5. Shape(a, E, After(t))
      BY <2>2, <2>3, <3>1, <3>2, <3>4 DEF Shape
    <3> QED BY <1>2, <2>3, <1>7, <3>5
  <2>4. CASE t.op = "start"
    <3>1. D \subseteq {"stop", "config"}
      BY <2>4 DEF Ordered
    <3>2. D # {} => Shape(a, D, g)
      BY <1>4, <1>7, <2>4 DEF Post, Matters
    <3>3. /\ After(t).hot = g.hot /\ After(t).cold = g.cold /\ After(t).tagged = g.tagged
          /\ After(t).power = "running"
      BY <2>1, <2>4 DEF After, Guest
    <3>4. Shape(a, E, After(t))
      BY <2>2, <2>4, <3>1, <3>2, <3>3 DEF Shape
    <3> QED BY <1>2, <2>4, <1>7, <3>4
  <2>5. CASE t.op = "stop"
    <3>1. E = {"stop"}
      BY <2>5 DEF Ordered
    <3>2. After(t).power = "stopped"
      BY <2>1, <2>5 DEF After, Guest
    <3>3. Shape(a, E, After(t))
      BY <2>2, <2>5, <3>1, <3>2 DEF Shape
    <3> QED BY <1>2, <2>5, <1>7, <3>3
  <2>6. CASE t.op = "mark"
    <3>1. D \subseteq {"create"}
      BY <2>6 DEF Ordered
    <3>2. D # {} => Shape(a, D, g)
      BY <1>4, <1>7, <2>6 DEF Post, Matters
    <3>3. /\ After(t).hot = g.hot /\ After(t).cold = g.cold /\ After(t).tagged = g.tagged
          /\ After(t).template
      BY <2>1, <2>6 DEF After, Guest
    <3>4. Shape(a, E, After(t))
      BY <2>2, <2>6, <3>1, <3>2, <3>3 DEF Shape
    <3> QED BY <1>2, <2>6, <1>7, <3>4
  <2> QED BY <1>7, <2>3, <2>4, <2>5, <2>6
<1>8. t.op # "delete" \/ a.what = "delete"
  BY DEF Fits
<1> QED BY <1>1, <1>3, <1>5, <1>6, <1>7, <1>8 DEF Task, Writes

(* What has been achieved is not undone by what leaves the guest alone.    *)
LEMMA PostStable ==
    ASSUME NEW a, NEW D, Post(a, D), storage \subseteq storage',
           Matters(a, D) => pve'[SlotAt(a)] = pve[SlotAt(a)]
    PROVE  Post(a, D)'
<1>1. Matters(a, D) => pve[SlotAt(a)]' = pve[SlotAt(a)]
  BY DEF SlotAt
<1> QED BY <1>1 DEF Post, FileAt

(* A task that ends leaves alone what it does not hold, and nothing holds  *)
(* what it held.                                                           *)
LEMMA Elsewhere ==
    ASSUME TaskInv, NEW t \in running, NEW o \in {"ok", "failed"}, Over(t, o),
           NEW s \in Slot
    PROVE  /\ storage \subseteq storage'
           /\ ~Held(s) => pve'[s] = pve[s] /\ ~Held(s)'
           /\ s \in Holds(t) => ~Held(s)'
<1>1. t \in Task /\ Sound(t.act) /\ Fits(t.op, t.act) /\ running' = running \ {t}
  BY DEF TaskInv, Over
<1>2. s \in Holds(t) => ~Held(s)'
  BY <1>1 DEF Held, TaskInv
<1>3. ~Held(s) => ~Held(s)' /\ s \notin Holds(t)
  BY <1>1 DEF Held
<1>4. storage \subseteq storage'
  BY DEF Over, TakesEffect
<1>5. s \notin Holds(t) => pve'[s] = pve[s]
  <2>1. CASE TakesEffect(t)
    <3>1. t.op = "download" => pve' = pve
      BY <1>1, <2>1, Effect
    <3>2. t.op # "download" => pve' = [pve EXCEPT ![SlotAt(t.act)] = After(t)]
      BY <1>1, <2>1, Effect
    <3>3. t.op # "download" => SlotAt(t.act) \in Holds(t)
      BY <1>1, TaskSlots
    <3> QED BY <3>1, <3>2, <3>3 DEF TaskInv
  <2>2. CASE pve' = pve
    BY <2>2
  <2> QED BY <2>1, <2>2 DEF Over
<1> QED BY <1>2, <1>3, <1>4, <1>5

(* The task that is waited for, and the calls before it.                   *)
LEMMA Awaited ==
    ASSUME IInv, HeldInv, CallInv, upid \in running
    PROVE  /\ cur # NoAction /\ verdict = "running" /\ upid \in Task /\ upid.act = cur
           /\ Sound(cur) /\ Fits(upid.op, cur) /\ Possible(upid) /\ Wanted(cur)
           /\ Made \in Nat /\ Made > 0
           /\ Ordered(upid.op, Before(cur, Made - 1), cur)
           /\ Before(cur, Made) = Before(cur, Made - 1) \union {upid.op}
           /\ upid.op # "download" =>
                 SlotAt(cur) \in Slot /\ SlotAt(cur) \in Holds(upid)
<1>1. upid \in Task /\ Sound(upid.act) /\ Fits(upid.op, upid.act)
  BY DEF IInv, TaskInv
<1>2. upid # NoTask
  BY <1>1 DEF Task, NoTask, Writes
<1>3. cur # NoAction
  BY <1>2 DEF IInv, ExecInv
<1>4. Made \in Nat /\ Made > 0 /\ upid.op = Program(cur)[Made] /\ upid.act = cur
  BY <1>2, <1>3 DEF CallInv
<1>5. WellOrdered(cur) /\ Len(ops) \in Nat /\ Len(Program(cur)) \in Nat
  BY <1>3, InHand
<1>6. Made - 1 \in 0..(Len(Program(cur)) - 1) /\ (Made - 1) + 1 = Made
  <2>1. Made = Len(Program(cur)) - Len(ops)
    BY DEF Made
  <2> HIDE DEF Made
  <2> QED BY <1>4, <1>5, <2>1
<1>7. Ordered(upid.op, Before(cur, Made - 1), cur)
  BY <1>4, <1>5, <1>6 DEF WellOrdered
<1>8. Before(cur, Made) = Before(cur, Made - 1) \union {upid.op}
  <2> HIDE DEF Made
  <2>1. 1..Made = (1..(Made - 1)) \union {Made}
    BY <1>4
  <2> QED BY <1>4, <2>1 DEF Before
<1>9. Possible(upid) /\ Wanted(cur) /\ verdict = "running"
  BY <1>2, <1>4 DEF HeldInv, CallInv
<1> QED BY <1>1, <1>3, <1>4, <1>7, <1>8, <1>9, TaskSlots

(* Where an action on a guest writes.                                      *)
LEMMA GuestSlot ==
    ASSUME NEW a, Sound(a), a.kind \notin ArtifactKinds
    PROVE  SlotAt(a) \in Slot
BY DEF Sound, Action, SlotAt, Slot

(* No call has been made of an action that has just begun.                 *)
LEMMA NothingBefore == ASSUME NEW a PROVE Before(a, 0) = {}
<1>1. 1..0 = {}
  OBVIOUS
<1> QED BY <1>1 DEF Before

(* The calls that are over after a step: as many, all of those made, or    *)
(* all but the last.                                                       *)
LEMMA PastNext ==
    ASSUME cur' = cur
    PROVE  Past' = Before(cur, IF upid' = NoTask \/ verdict' = "ok" THEN Made' ELSE Made' - 1)
BY DEF Past, Before

(* The conclusion of PostInv, of action a and its calls D.                 *)
Stands(a, D) ==
    /\ Post(a, D)
    /\ (upid = NoTask \/ verdict = "ok") /\ Matters(a, D) => ~Held(SlotAt(a))

(* PostInv says that what has been achieved stands.                        *)
LEMMA PostInvIs ==
    /\ PostInv <=> (edits = 0 /\ cur # NoAction /\ verdict # "failed" => Stands(cur, Past))
    /\ \A a, D : cur' = a /\ Past' = D /\ Stands(a, D)' => PostInv'
<1>1. PostInv <=> (edits = 0 /\ cur # NoAction /\ verdict # "failed" => Stands(cur, Past))
  BY DEF PostInv, Stands
<1>2. ASSUME NEW a, NEW D, cur' = a, Past' = D, Stands(a, D)'
      PROVE  PostInv'
  BY <1>2 DEF PostInv, Stands, Post, Matters, Shape, Held, SlotAt, FileAt
<1> QED BY <1>1, <1>2

(* A call is carried out, by its task or at once.                          *)
LEMMA StandsDone ==
    ASSUME TaskInv, NEW t \in Task, Sound(t.act), Fits(t.op, t.act), Possible(t),
           Wanted(t.act), TakesEffect(t), NEW D, Ordered(t.op, D, t.act), Post(t.act, D),
           t.op # "download" => ~Held(SlotAt(t.act))'
    PROVE  Stands(t.act, D \union {t.op})'
<1>1. Post(t.act, D \union {t.op})'
  BY PostEffect
<1>2. t.op = "download" => t.act.kind \in ArtifactKinds
  BY DEF Fits
<1> QED BY <1>1, <1>2 DEF Stands, Matters, SlotAt, Held

(* Something else is, elsewhere.                                           *)
LEMMA StandsAgain ==
    ASSUME NEW a, NEW D, cur' = a, Past' = D, Stands(a, D), storage \subseteq storage',
           Matters(a, D) => /\ pve'[SlotAt(a)] = pve[SlotAt(a)]
                            /\ upid' = NoTask \/ verdict' = "ok" => ~Held(SlotAt(a))'
    PROVE  PostInv'
<1>1. Post(a, D)'
  BY PostStable DEF Stands
<1>2. Stands(a, D)'
  BY <1>1 DEF Stands, Matters, Held, SlotAt
<1> QED BY <1>2, PostInvIs

(* What has been achieved by the action in hand stays achieved.            *)
LEMMA PostStep ==
    ASSUME IInv, AimInv, HeldInv, CallInv, CallInv', PostInv, [Next]_vars
    PROVE  PostInv'
<1>1. CallStep /\ ExecInv /\ TaskInv /\ edits \in Nat
  BY CallCases DEF IInv, BoundsInv
<1>2. CASE Idles
  <2>1. Past' = Past
    BY <1>2, PastNext DEF Idles, Past, Made
  <2> QED BY <1>2, <2>1 DEF Idles, PostInv, Stands, Post, Matters, Shape, Held, SlotAt, FileAt
<1>3. CASE Drops
  BY <1>3 DEF Drops, PostInv
<1>4. CASE Begins
  <2>1. upid' = NoTask /\ WellOrdered(cur')
    BY <1>1, <1>4, ProgramOrder DEF Begins, ExecInv, IInv, PlanInv
  <2>2. Made' = 0
    BY <1>4, <2>1 DEF Begins, Made, WellOrdered
  <2>3. Past' = {}
    BY <2>1, <2>2, NothingBefore DEF Past, Before
  <2>4. ASSUME NEW a PROVE Stands(a, {})'
    BY DEF Stands, Post, Matters, Held
  <2> QED BY <2>3, <2>4, PostInvIs
<1>5. CASE Waits
  <2>1. Past' = Past
    BY <1>5, PastNext DEF Waits, Past, Made
  <2> QED BY <1>5, <2>1 DEF Waits, PostInv, Post, Matters, Shape, Held, SlotAt, FileAt
<1>6. ASSUME NEW op, Attempt(op), cur' = cur, ops' = Tail(ops), edits' = edits,
             edits = 0
      PROVE  /\ Made' = Made + 1 /\ Made \in Nat /\ upid = NoTask
             /\ Ordered(op, Before(cur, Made), cur)
             /\ Before(cur, Made') = Before(cur, Made) \union {op}
             /\ Stands(cur, Before(cur, Made))
  <2>1. /\ Made' = Made + 1 /\ Made \in Nat /\ upid = NoTask /\ cur # NoAction
        /\ Ordered(op, Before(cur, Made), cur)
        /\ Before(cur, Made + 1) = Before(cur, Made) \union {op}
    BY <1>6, Due, Advance
  <2>2. verdict = "none" /\ Past = Before(cur, Made)
    BY <2>1 DEF CallInv, Past
  <2> QED BY <1>6, <2>1, <2>2, PostInvIs
<1>7. ASSUME NEW t \in Task, Makes(t), edits = 0 PROVE PostInv'
  <2> DEFINE D == Before(cur, Made)
  <2>1. /\ Made' = Made + 1 /\ Made \in Nat /\ upid = NoTask /\ cur' = cur /\ cur = t.act
        /\ Ordered(t.op, D, cur) /\ Before(cur, Made') = D \union {t.op}
        /\ Stands(cur, D)
    BY <1>6, <1>7 DEF Makes
  <2>2. CASE IsSynchronous(t)
    <3>1. TakesEffect(t) /\ running' = running /\ upid' = NoTask
      BY <1>7, <2>2 DEF Makes, Accept
    <3>2. Possible(t) /\ Wanted(t.act)
      BY <1>1, <1>7, <2>1 DEF Makes, Accepts, AimInv, Planned, Attempt, Wanted
    <3>3. t.op # "download" => ~Held(SlotAt(t.act))'
      <4>1. t.op # "download" => SlotAt(t.act) \in Holds(t)
        BY <1>7, <2>1, TaskSlots DEF Makes
      <4>2. t.op # "download" => ~Held(SlotAt(t.act))
        BY <1>7, <4>1 DEF Makes, Accepts
      <4> QED BY <3>1, <4>2 DEF Held, SlotAt
    <3>4. PICK E : E = D
      OBVIOUS
    <3>5. Post(t.act, E) /\ Ordered(t.op, E, t.act) /\ Sound(t.act) /\ Fits(t.op, t.act)
      BY <1>7, <2>1, <3>4 DEF Stands, Makes
    <3>6. Stands(t.act, E \union {t.op})'
      BY <1>1, <3>1, <3>2, <3>3, <3>5, StandsDone
    <3>7. Past' = E \union {t.op} /\ cur' = t.act
      BY <2>1, <3>1, <3>4, PastNext
    <3> QED BY <3>6, <3>7, PostInvIs
  <2>3. CASE ~IsSynchronous(t)
    <3>1. pve' = pve /\ storage' = storage /\ upid' = t /\ verdict' = "running"
      BY <1>7, <2>3 DEF Makes, Accept
    <3>2. t # NoTask /\ Made' - 1 = Made
      BY <2>1 DEF Task, NoTask, Writes
    <3>3. Past' = D
      BY <2>1, <3>1, <3>2, PastNext
    <3> QED BY <2>1, <3>1, <3>2, <3>3, StandsAgain
  <2> QED BY <2>2, <2>3
<1>8. ASSUME NEW op \in {"read", "settle"}, Passes(op), edits = 0 PROVE PostInv'
  <2> DEFINE D == Before(cur, Made)
  <2>1. /\ Made' = Made + 1 /\ Made \in Nat /\ upid = NoTask /\ cur' = cur
        /\ Ordered(op, D, cur) /\ Before(cur, Made') = D \union {op}
        /\ Stands(cur, D)
    BY <1>6, <1>8 DEF Passes
  <2>2. Past' = D \union {op}
    BY <1>8, <2>1, PastNext DEF Passes
  <2> HIDE DEF D
  <2>3. CASE op = "read"
    <3>1. D = {"clone"} /\ pve' = pve /\ storage' = storage /\ running' = running
      BY <1>8, <2>1, <2>3 DEF Ordered, Passes
    <3> QED BY <2>1, <2>2, <2>3, <3>1 DEF PostInv, Stands, Post, Matters, Shape, Held, SlotAt, FileAt
  <2>4. CASE op = "settle"
    <3>1. D \subseteq {"stop"} /\ cur.what = "delete"
      BY <2>1, <2>4 DEF Ordered
    <3>2. ~Matters(cur, D \union {op}) /\ "download" \notin D \union {op}
      BY <2>4, <3>1 DEF Matters
    <3> HIDE DEF PostInv
    <3> QED BY <2>1, <2>2, <3>2 DEF PostInv, Post, Matters
  <2> QED BY <2>3, <2>4
<1>9. ASSUME NEW t \in running, NEW o \in {"ok", "failed"}, Over(t, o),
             edits = 0, cur # NoAction, verdict' # "failed"
      PROVE  PostInv'
  <2>1. cur' = cur /\ Made' = Made /\ upid' = upid
    BY <1>9 DEF Over, Made
  <2>2. CASE t = upid
    <3> DEFINE D == Before(cur, Made - 1)
    <3>1. /\ t \in Task /\ t.act = cur
          /\ Sound(cur) /\ Fits(t.op, cur) /\ Possible(t) /\ Wanted(cur)
          /\ Ordered(t.op, D, cur) /\ verdict = "running"
          /\ Before(cur, Made) = D \union {t.op}
          /\ t.op # "download" => SlotAt(cur) \in Slot /\ SlotAt(cur) \in Holds(t)
      BY <1>9, <2>2, Awaited
    <3>2. TakesEffect(t) /\ verdict' = "ok"
      BY <1>9, <2>2 DEF Over
    <3>3. Past = D
      BY <2>2, <3>1 DEF Past, Task, NoTask, Writes
    <3>4. PICK E : E = D
      OBVIOUS
    <3>5. Past' = E \union {t.op} /\ cur' = t.act
      BY <2>1, <3>1, <3>2, <3>4, PastNext
    <3>6. Post(t.act, E) /\ Ordered(t.op, E, t.act)
      BY <1>9, <3>1, <3>3, <3>4 DEF PostInv
    <3>7. t.op # "download" => ~Held(SlotAt(t.act))'
      <4>1. PICK s : s = SlotAt(t.act)
        OBVIOUS
      <4>2. t.op # "download" => ~Held(s)'
        BY <1>1, <1>9, <3>1, <4>1, Elsewhere
      <4> QED BY <4>1, <4>2 DEF Held, SlotAt
    <3>8. Stands(t.act, E \union {t.op})'
      BY <1>1, <3>1, <3>2, <3>6, <3>7, StandsDone
    <3> QED BY <3>5, <3>8, PostInvIs
  <2>3. CASE t # upid
    <3>1. Past' = Past /\ verdict' = verdict
      BY <1>9, <2>1, <2>3, PastNext DEF Over, Past
    <3>2. Stands(cur, Past) /\ Sound(cur)
      BY <1>1, <1>9, <3>1, PostInvIs DEF ExecInv
    <3>3. storage \subseteq storage'
      BY <1>9 DEF Over, TakesEffect
    <3>4. Matters(cur, Past) => SlotAt(cur) \in Slot
      BY <3>2, GuestSlot DEF Matters
    <3>5. CASE upid = NoTask \/ verdict = "ok"
      <4>1. PICK a, D : a = cur /\ D = Past
        OBVIOUS
      <4>2. PICK s : s = SlotAt(a)
        OBVIOUS
      <4>3. Matters(a, D) => s \in Slot /\ ~Held(s)
        BY <3>2, <3>4, <3>5, <4>1, <4>2 DEF Stands
      <4>4. Matters(a, D) => pve'[s] = pve[s] /\ ~Held(s)'
        BY <1>1, <1>9, <4>3, Elsewhere
      <4>5. Matters(a, D) => pve'[SlotAt(a)] = pve[SlotAt(a)] /\ ~Held(SlotAt(a))'
        BY <4>2, <4>4 DEF SlotAt, Held
      <4> QED BY <2>1, <3>1, <3>2, <3>3, <4>1, <4>5, StandsAgain
    <3>6. CASE upid # NoTask /\ verdict # "ok"
      <4>1. upid \in running /\ upid \in running'
        BY <1>9, <2>3, <3>1, <3>6 DEF CallInv, Over
      <4>2. upid.op # "download" => SlotAt(cur) \in Holds(upid)
        BY <4>1, Awaited
      <4>3. Matters(cur, Past) => upid.op # "download"
        BY <4>1, Awaited DEF Matters, Fits
      <4>4. Matters(cur, Past) => pve'[SlotAt(cur)] = pve[SlotAt(cur)]
        BY <4>1, <4>2, <4>3, HeldIsKept
      <4> QED BY <2>1, <3>1, <3>2, <3>3, <3>6, <4>4, StandsAgain
    <3> QED BY <3>5, <3>6
  <2> QED BY <2>2, <2>3
<1>10. ASSUME NEW x \in Slot, Moves(x) PROVE PostInv'
  BY <1>1, <1>10 DEF Moves, Disturb, PostInv
<1>11. CASE edits' # 0 \/ cur' = NoAction \/ verdict' = "failed"
  BY <1>11 DEF PostInv
<1> QED BY <1>1, <1>2, <1>3, <1>4, <1>5, <1>7, <1>8, <1>9, <1>10, <1>11
        DEF CallStep, Makes, Passes, Over

-----------------------------------------------------------------------------
(* Only updates ask for a stop first.                                      *)
FirstInv == \A a \in Planned : a.stopFirst => a.what = "update"

(* It is the planner that asks, and plans do not change.                   *)
LEMMA FirstStep ==
    ASSUME IInv, FirstInv, [Next]_vars
    PROVE  FirstInv'
<1>1. CASE Planned' = {}
  BY <1>1 DEF FirstInv
<1>2. CASE Planned' = Planned
  BY <1>2 DEF FirstInv
<1>3. CASE PlanCycle
  <2>1. PICK kept : todo' = PlanOf(inv, tree, kept)
    BY <1>3 DEF PlanCycle
  <2>2. Planned = {}
    BY <1>3 DEF PlanCycle, IInv, PlanInv
  <2>3. Planned' = todo'
    BY <1>3, <2>2 DEF PlanCycle, Planned
  <2>4. ASSUME NEW a \in PlanOf(inv, tree, kept), a.stopFirst PROVE a.what = "update"
    <3>1. CASE a \in Marks(inv, tree)
      BY <2>4, <3>1 DEF Marks, Plain
    <3>2. CASE a \in Creates(inv, tree)
      BY <2>4, <3>2 DEF Creates, Plain
    <3>3. CASE a \in Downloads(inv, tree)
      <4>1. PICK f : a = Plain(tree, f[2], f[1], "create")
        BY <3>3 DEF Downloads
      <4> QED BY <2>4, <4>1 DEF Plain
    <3>4. CASE a \in Updates(inv, tree)
      BY <3>4 DEF Updates, Plain
    <3>5. CASE a \in PowerChanges(inv, tree)
      <4>1. PICK r \in Tracked(inv, tree) :
              a \in {[Plain(tree, r, NodeOf(r), verb) EXCEPT !.live = LivePower(inv, r)] :
                        verb \in PowerVerb(r.state, LivePower(inv, r))}
        BY <3>5 DEF PowerChanges
      <4>2. PICK verb : a = [Plain(tree, r, NodeOf(r), verb) EXCEPT !.live = LivePower(inv, r)]
        BY <4>1
      <4> QED BY <2>4, <4>2 DEF Plain
    <3>6. CASE \E s \in kept : a = Prune(inv, s)
      BY <2>4, <3>6 DEF Prune
    <3> QED BY <2>4, <3>1, <3>2, <3>3, <3>4, <3>5, <3>6 DEF PlanOf
  <2> QED BY <2>1, <2>3, <2>4 DEF FirstInv
<1> QED BY <1>1, <1>2, <1>3, PlanCases

ReportInv == PromiseInv /\ CallInv /\ FirstInv /\ PostInv

(* The invariant is inductive.                                             *)
LEMMA ReportInvariant == Spec => []ReportInv
<1>1. Init => CallInv /\ FirstInv /\ PostInv
  BY DEF Init, CallInv, FirstInv, PostInv, Planned
<1>2. PromiseInv /\ CallInv /\ FirstInv /\ PostInv /\ [Next]_vars
        => CallInv' /\ FirstInv' /\ PostInv'
  BY CallInvStep, FirstStep, PostStep DEF PromiseInv
<1> QED BY PromiseInvariant, <1>1, <1>2, PTL DEF Spec, ReportInv

(* An action about to be recorded as done has been carried out in PVE, for *)
(* any cluster, manifests and faults, whatever tasks earlier cycles have   *)
(* left running: the calls of Apply's action have all been made, each one  *)
(* has been waited for, and nothing has undone it since.                   *)
THEOREM ReportsAreSound == Spec => []ReportSound
<1>1. ReportInv => ReportSound
  <2> SUFFICES ASSUME ReportInv, edits = 0, cur # NoAction, ops = <<>>, upid = NoTask
               PROVE  Achieved(cur)
    BY DEF ReportSound
  <2> DEFINE a == cur
             D == Before(a, Len(Program(a)))
             g == pve[SlotAt(a)]
  <2>1. IInv /\ CallInv /\ PostInv /\ FirstInv
    BY DEF ReportInv, PromiseInv
  <2>2. Sound(a) /\ WellOrdered(a) /\ Len(Program(a)) \in Nat
    BY <2>1, InHand
  <2>3. Amounts(D, a) /\ Past = D /\ verdict = "none"
    BY <2>1, <2>2 DEF WellOrdered, Past, Made, CallInv
  <2>4. Post(a, D)
    BY <2>1, <2>3 DEF PostInv
  <2>5. a \in Planned /\ (a.stopFirst => a.what = "update") /\ a.what \in Verbs
    BY <2>1, <2>2 DEF Planned, FirstInv, Sound, Action
  <2> HIDE DEF D
  <2>6. CASE a.kind \in ArtifactKinds
    <3>1. a.what = "create" /\ FileAt(a) \in storage
      BY <2>2, <2>3, <2>4, <2>6 DEF Sound, Amounts, Post, ArtifactKinds
    <3> QED BY <2>6, <3>1 DEF Achieved
  <2>7. CASE a.kind \notin ArtifactKinds /\ a.what = "delete"
    <3>1. g = NoGuest
      BY <2>3, <2>4, <2>7 DEF Amounts, Post, Matters
    <3> QED BY <2>7, <3>1 DEF Achieved
  <2>8. ASSUME a.kind \notin ArtifactKinds, a.what # "delete"
        PROVE  Shape(a, D, g) /\ Exists(a)
    <3>1. D # {}
      BY <2>3, <2>5, <2>8 DEF Amounts, Verbs
    <3> QED BY <2>4, <2>8, <3>1 DEF Post, Matters, Shape, Exists
  <2>9. CASE a.kind \notin ArtifactKinds /\ a.what \in {"start", "stop"}
    BY <2>3, <2>8, <2>9 DEF Amounts, Shape, Achieved, IsPower
  <2>10. CASE a.kind \notin ArtifactKinds /\ a.what = "mark-template"
    BY <2>3, <2>8, <2>10 DEF Amounts, Shape, Achieved
  <2>11. CASE a.kind \notin ArtifactKinds /\ a.what \in {"create", "update"}
    <3>1. "create" \in D \/ "config" \in D
      BY <2>3, <2>11 DEF Amounts
    <3>2. /\ "hot" \in a.set => g.hot = a.res.hot
          /\ "cold" \in a.set => g.cold = a.res.cold
          /\ "tags" \in a.set => g.tagged
      BY <2>8, <2>11, <3>1 DEF Shape
    <3>3. a.what = "create" => g.template = (a.kind \in TemplateKinds)
      <4>1. g \in Guest
        BY <2>1, <2>2, <2>8, <2>11, GuestSlot DEF Shape, IInv, TaskInv
      <4>2. g.template \in BOOLEAN
        BY <4>1 DEF Guest
      <4> QED BY <2>3, <2>8, <2>11, <4>2 DEF Amounts, Shape
    <3>4. a.stopFirst /\ a.live = "running" /\ a.res.state = "started" => g.power = "running"
      BY <2>3, <2>5, <2>8, <2>11 DEF Amounts, Shape
    <3> QED BY <2>8, <2>11, <3>2, <3>3, <3>4 DEF Achieved
  <2> QED BY <2>5, <2>6, <2>7, <2>9, <2>10, <2>11 DEF Verbs
<1> QED BY ReportInvariant, <1>1, PTL

-----------------------------------------------------------------------------
(* Stop-required updates.                                                  *)

(* Others neither start guests nor make new ones.                          *)
NobodyStarts == Disturbances \subseteq {"delete", "untag", "edit"}

(* Between its stop and its write the guest of an update is down and no    *)
(* task is at work on it.                                                  *)
Lull(s) == ~Held(s) /\ (pve[s] # NoGuest => pve[s].power = "stopped")

(* The update in hand has been stopped for and not been written.           *)
Stopped == /\ cur # NoAction /\ cur.what = "update" /\ (upid = NoTask \/ verdict = "ok")
           /\ "stop" \in Before(cur, Made) /\ "config" \notin Before(cur, Made)

(* While that is so the lull lasts.                                        *)
LullInv == Stopped => Lull(SlotAt(cur))

(* It begins when the stop ends, and only the write ends it.               *)
LEMMA LullStep ==
    ASSUME NobodyStarts, IInv, HeldInv, CallInv, LullInv, [Next]_vars
    PROVE  LullInv'
<1>1. CallStep /\ ExecInv /\ TaskInv
  BY CallCases DEF IInv
<1>2. CASE Idles
  BY <1>2 DEF Idles, LullInv, Stopped, Lull, Before, Made, SlotAt, Held
<1>3. CASE Drops
  BY <1>3 DEF Drops, LullInv, Stopped
<1>4. CASE Begins
  <2>1. WellOrdered(cur')
    BY <1>4, ProgramOrder DEF Begins, IInv, PlanInv
  <2>2. Made' = 0
    BY <1>4, <2>1 DEF Begins, Made, WellOrdered
  <2>3. Before(cur', Made') = {}
    BY <2>2, NothingBefore
  <2> QED BY <2>3 DEF LullInv, Stopped, Before
<1>5. CASE Waits
  BY <1>5 DEF Waits, LullInv, Stopped, Lull, Before, Made, SlotAt, Held
<1>6. ASSUME NEW op, op \notin {"stop", "config"}, Attempt(op), cur' = cur, ops' = Tail(ops)
      PROVE  LullInv'
  <2>1. /\ Ordered(op, Before(cur, Made), cur) /\ Made' = Made + 1
        /\ Before(cur, Made + 1) = Before(cur, Made) \union {op}
    BY <1>1, <1>6, Due, Advance
  <2>2. cur.what = "update" => "config" \in Before(cur', Made')
    BY <1>6, <2>1 DEF Ordered
  <2> QED BY <1>6, <2>2 DEF LullInv, Stopped, Before
<1>7. ASSUME NEW t \in Task, Makes(t) PROVE LullInv'
  <2>1. CASE IsSynchronous(t)
    BY <1>6, <1>7, <2>1 DEF Makes, IsSynchronous
  <2>2. CASE ~IsSynchronous(t)
    <3>1. upid' = t /\ verdict' = "running" /\ t # NoTask
      BY <1>7, <2>2 DEF Makes, Task, NoTask, Writes
    <3> QED BY <3>1 DEF LullInv, Stopped
  <2> QED BY <2>1, <2>2
<1>8. ASSUME NEW op \in {"read", "settle"}, Passes(op) PROVE LullInv'
  BY <1>6, <1>8 DEF Passes
<1>9. ASSUME NEW t \in running, NEW o \in {"ok", "failed"}, Over(t, o) PROVE LullInv'
  <2>1. cur' = cur /\ Made' = Made /\ upid' = upid
    BY <1>9 DEF Over, Made
  <2>2. PICK s, D : s = SlotAt(cur) /\ D = Before(cur, Made)
    OBVIOUS
  <2>3. SUFFICES ASSUME Stopped' PROVE Lull(s)'
    BY <2>1, <2>2 DEF LullInv, Lull, SlotAt, Held
  <2>4. /\ cur # NoAction /\ cur.what = "update" /\ "stop" \in D /\ "config" \notin D
        /\ upid = NoTask \/ verdict' = "ok"
    BY <2>1, <2>2, <2>3 DEF Stopped, Before
  <2>5. CASE t = upid
    <3>1. /\ t \in Task /\ t.act = cur /\ Fits(t.op, cur) /\ Sound(cur)
          /\ Ordered(t.op, Before(cur, Made - 1), cur)
          /\ D = Before(cur, Made - 1) \union {t.op}
          /\ t.op # "download" => s \in Slot /\ s \in Holds(t)
      BY <1>9, <2>2, <2>5, Awaited
    <3>2. t.op = "stop" /\ After(t) = [pve[s] EXCEPT !.power = "stopped"]
      BY <2>2, <2>4, <3>1 DEF Ordered, After
    <3>3. TakesEffect(t)
      BY <1>1, <1>9, <2>4, <2>5, <3>1 DEF Over, Task, NoTask, Writes
    <3>4. pve'[s] = After(t)
      BY <1>1, <2>2, <3>1, <3>2, <3>3, Effect
    <3>5. pve[s] \in Guest
      BY <1>1, <2>2, <3>1, <3>2 DEF TaskInv, Applies
    <3>6. ~Held(s)'
      BY <1>1, <1>9, <3>1, <3>2, Elsewhere
    <3> QED BY <3>2, <3>4, <3>5, <3>6 DEF Lull, Guest
  <2>6. CASE t # upid
    <3>1. Stopped
      BY <1>9, <2>2, <2>4, <2>6 DEF Stopped, Over
    <3>2. s \in Slot
      <4>1. Sound(cur) /\ cur.kind \notin ArtifactKinds
        BY <1>1, <2>4 DEF ExecInv, Sound
      <4> QED BY <2>2, <4>1, GuestSlot
    <3>3. ~Held(s) /\ (pve[s] # NoGuest => pve[s].power = "stopped")
      BY <2>2, <3>1 DEF LullInv, Lull
    <3> QED BY <1>1, <1>9, <3>2, <3>3, Elsewhere DEF Lull
  <2> QED BY <2>5, <2>6
<1>10. ASSUME NEW x \in Slot, Moves(x) PROVE LullInv'
  <2>1. PICK g \in Disturbed(x) : pve' = [pve EXCEPT ![x] = g]
    BY <1>10 DEF Moves, Disturb
  <2>2. /\ pve[x] \in Guest
        /\ \/ g = NoGuest
           \/ g = [pve[x] EXCEPT !.tagged = FALSE]
           \/ \E c \in Values : g = [pve[x] EXCEPT !.cold = c]
    <3>1. pve[x] # NoGuest
      BY <2>1 DEF Disturbed, NobodyStarts
    <3> QED BY <1>1, <2>1, <3>1 DEF Disturbed, NobodyStarts, TaskInv
  <2>3. g = NoGuest \/ (g.power = pve[x].power /\ pve[x] # NoGuest)
    BY <2>2, NotAGuest DEF Guest
  <2>4. \A s \in Slot : pve'[s] = IF s = x THEN g ELSE pve[s]
    BY <1>1, <2>1 DEF TaskInv
  <2>5. ASSUME NEW s \in Slot, Lull(s) PROVE Lull(s)'
    BY <1>10, <2>3, <2>4, <2>5 DEF Moves, Disturb, Lull, Held
  <2>6. Stopped' => Stopped
    BY <1>10 DEF Moves, Stopped, Before, Made
  <2>7. PICK s : s = SlotAt(cur)
    OBVIOUS
  <2>8. Stopped => s \in Slot
    <3>1. Stopped => Sound(cur) /\ cur.kind \notin ArtifactKinds
      BY <1>1 DEF ExecInv, Sound, Stopped
    <3> QED BY <2>7, <3>1, GuestSlot
  <2>9. Stopped' => Lull(s)'
    BY <2>5, <2>6, <2>7, <2>8 DEF LullInv
  <2> QED BY <1>10, <2>7, <2>9 DEF Moves, LullInv, Lull, SlotAt, Held
<1> QED BY <1>1, <1>2, <1>3, <1>4, <1>5, <1>7, <1>8, <1>9, <1>10 DEF CallStep

(* Only the call that is due starts a write.                               *)
LEMMA NewWrite ==
    ASSUME IInv, [Next]_vars, NEW u \in running', u \notin running, u.op = "config"
    PROVE  Attempt("config") /\ u.act = cur /\ Possible(u) /\ pve' = pve
<1>1. ASSUME NEW op \in Writes, Issue(op)
      PROVE  Attempt("config") /\ u.act = cur /\ Possible(u) /\ pve' = pve
  <2>1. PICK t : t = [op |-> op, act |-> cur]
    OBVIOUS
  <2>2. t.op = op /\ t.act = cur
    BY <2>1
  <2>3. Attempt(op) /\ ((Accepts(t) /\ Accept(t)) \/ UNCHANGED pveVars)
    BY <1>1, <2>1 DEF Issue
  <2>4. Accepts(t) /\ Accept(t)
    BY <2>3 DEF pveVars
  <2>5. ~IsSynchronous(t) /\ u = t
    BY <2>4 DEF Accept
  <2> QED BY <2>2, <2>3, <2>4, <2>5 DEF Accept, Accepts
<1>2. ~Settle
  <2>1. SUFFICES ASSUME Settle PROVE FALSE
    OBVIOUS
  <2>2. PICK t : t = [op |-> "stop", act |-> cur]
    OBVIOUS
  <2>3. t.op = "stop" /\ (Accept(t) \/ UNCHANGED pveVars)
    BY <2>1, <2>2 DEF Settle
  <2> QED BY <2>3 DEF Accept, IsSynchronous, pveVars
<1>3. ~PveStep
  BY DEF PveStep, TaskSucceeds, TaskFails, Ends
<1>4. ~(Sync \/ SyncFails \/ Load \/ PlanCycle \/ Crash)
  BY DEF Sync, SyncFails, Load, List, ListFails, ReadConfig, ReadConfigFails, ReadStatus,
     ProbeStorage, PlanCycle, Crash, pveVars
<1>5. ~((\E a \in todo : Defer(a) \/ Begin(a)) \/ ReadClone \/ Await \/ Complete \/ EndCycle)
  BY DEF Defer, Begin, ReadClone, Await, Complete, EndCycle, pveVars
<1>6. ~(Environment \/ UNCHANGED vars)
  BY DEF Environment, Push, Disturb, vars, pveVars
<1> QED BY <1>1, <1>2, <1>3, <1>4, <1>5, <1>6 DEF Next, Agent, Execute

(* A write accepted while its guest was down finds it down.                *)
LEMMA ColdStep ==
    ASSUME NobodyStarts, IInv, FirstInv, CallInv, LullInv, ColdWritesWhenStopped, [Next]_vars
    PROVE  ColdWritesWhenStopped'
<1> SUFFICES ASSUME NEW u \in running', u.op = "config", u.act.stopFirst,
                    u.act.live = "running"
             PROVE  pve'[SlotAt(u.act)].power = "stopped"
  BY DEF ColdWritesWhenStopped, SlotAt
<1>1. TaskInv
  BY DEF IInv
<1>2. CASE u \in running
  <2>1. u \in Task /\ SlotAt(u.act) \in Holds(u)
    BY <1>1, <1>2, TaskSlots DEF TaskInv
  <2> QED BY <1>2, <2>1, HeldIsKept DEF ColdWritesWhenStopped
<1>3. CASE u \notin running
  <2>1. Attempt("config") /\ u.act = cur /\ Possible(u) /\ pve' = pve
    BY <1>3, NewWrite
  <2>2. Ordered("config", Before(cur, Made), cur) /\ cur # NoAction /\ upid = NoTask
    BY <2>1, Due
  <2>3. cur.what = "update"
    BY <2>1, <2>2 DEF FirstInv, Planned
  <2>4. Stopped
    BY <2>1, <2>2, <2>3 DEF Stopped, Ordered
  <2>5. pve[SlotAt(cur)].power = "stopped"
    BY <2>1, <2>4 DEF LullInv, Lull, Possible, Exists
  <2> QED BY <2>1, <2>5
<1> QED BY <1>2, <1>3

(* Where others neither start guests nor make new ones, the configuration  *)
(* of a guest that was seen running is written, when the change needs it   *)
(* down, only while it is down: no task of an earlier cycle can bring it   *)
(* up between the executor's stop and its write.                           *)
THEOREM ColdWritesAreCold ==
    ASSUME Disturbances \subseteq {"delete", "untag", "edit"}
    PROVE  Spec => []ColdWritesWhenStopped
<1>1. Init => LullInv /\ ColdWritesWhenStopped
  BY DEF Init, LullInv, Stopped, ColdWritesWhenStopped
<1>2. /\ ReportInv /\ LullInv /\ ColdWritesWhenStopped /\ [Next]_vars
      => LullInv' /\ ColdWritesWhenStopped'
  BY LullStep, ColdStep DEF ReportInv, PromiseInv, NobodyStarts
<1> QED BY ReportInvariant, <1>1, <1>2, PTL DEF Spec

=============================================================================
