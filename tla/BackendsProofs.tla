--------------------------- MODULE BackendsProofs ---------------------------
(***************************************************************************)
(* Applying dns and dhcp, for any modules, units and texts: an apply that  *)
(* reports success leaves the box as intent says, whatever failed before   *)
(* it, and no apply takes a service down that it was not told to touch.    *)
(*                                                                         *)
(* ApplySettles alone is not inductive: an apply reports success many      *)
(* steps after it looked at the box, with systemd and a shell acting in    *)
(* between.  Progress says what has become of the plan at each step, for   *)
(* the units nobody touched meanwhile, and Unasked what the watch's plan   *)
(* can hold given that it rechecked the module under the lock.             *)
(***************************************************************************)
EXTENDS Backends, TLAPS

(***************************************************************************)
(* The inductive invariant.                                                *)
(***************************************************************************)
Planned == {"store", "write", "check", "act"}

IsOp(o) ==
    /\ o = [who |-> o.who, stage |-> o.stage, b |-> o.b, doc |-> o.doc, plan |-> o.plan]
    /\ o.plan = [changes |-> o.plan.changes, enable |-> o.plan.enable, work |-> o.plan.work,
                 action |-> o.plan.action]
    /\ o.plan.changes \subseteq UnitSet(o.b) /\ o.plan.enable \subseteq UnitSet(o.b)
    /\ o.plan.work \subseteq UnitSet(o.b)
    /\ o = Free \/ (o.stage \in Planned \cup {"plan"} /\ o.b \in Modules /\ o.doc \in Docs(o.b))

IsWatch(w) ==
    /\ w = [pc |-> w.pc, b |-> w.b, todo |-> w.todo]
    /\ w.todo \subseteq Modules /\ (w.pc = "hinted" => w.b \in Modules)

Boxed ==
    /\ file = [u \in Units |-> file[u]] /\ state = [u \in Units |-> state[u]]
    /\ loaded = [u \in Units |-> loaded[u]] /\ boot = [u \in Units |-> boot[u]]

Shaped ==
    /\ intent = [b \in Modules |-> intent[b]] /\ \A b \in Modules : intent[b] \in Docs(b)
    /\ Boxed
    /\ attempts \in [Modules -> Nat]
    /\ IsOp(op)
    /\ IsWatch(watch)
    /\ settled \subseteq Modules

(* What an apply that succeeded leaves of one module.                      *)
InForce(b) ==
    \A u \in UnitSet(b) :
        /\ file[u] = intent[b].text[u]
        /\ intent[b].on => state[u] # "stopped"
        /\ boot[u] = intent[b].on

(* The plan, as made.                                                      *)
PlanFits ==
    op.stage \in Planned =>
        /\ \A u \in UnitSet(op.b) : op.plan.action[u] = "stop" => ~op.doc.on
        /\ \A u \in op.plan.work :
             op.plan.action[u] \in IF op.doc.on THEN {"start", "reload", "restart"} ELSE {"stop"}

(* The plan, so far as it has been carried out.                            *)
Progress ==
    /\ op.stage \in {"write", "check", "act"} => op.b \notin settled /\ intent[op.b] = op.doc
    /\ op.stage \in {"check", "act"} => op.plan.changes = {}
    /\ op.stage \in Planned =>
         \A u \in UnitSet(op.b) \ late :
           /\ u \notin op.plan.changes => file[u] = op.doc.text[u]
           /\ op.stage = "act" \/ u \notin op.plan.enable => boot[u] = op.doc.on
           /\ u \notin op.plan.work => state[u] # IF op.doc.on THEN "stopped" ELSE "running"
           /\ u \in op.plan.work /\ op.plan.action[u] = "start" => state[u] # "running"

(* What the watch applies is a start and nothing else.                     *)
Unasked ==
    op.who = "watch" =>
        /\ op.doc.on
        /\ \A u \in UnitSet(op.b) \ late :
             /\ op.stage = "plan" => file[u] = op.doc.text[u]
             /\ op.stage \in Planned =>
                  u \notin op.plan.changes /\ (u \in op.plan.work => op.plan.action[u] = "start")

IInv == Shaped /\ (\A b \in settled : InForce(b)) /\ PlanFits /\ Progress /\ Unasked

(***************************************************************************)
(* The lock holder's record.                                               *)
(***************************************************************************)
LEMMA UnitsAre ==
    ASSUME NEW b \in Modules
    PROVE  UnitSet(b) \subseteq Units
  BY DEF UnitSet, Units

LEMMA FreeIsOp == IsOp(Free) /\ Free.stage = "free" /\ Free.who = "free"
  BY DEF IsOp, Free, NoPlan

LEMMA HoldingIsOp ==
    ASSUME NEW who, NEW b \in Modules, NEW d \in Docs(b)
    PROVE  LET o == Holding(who, b, d)
           IN  IsOp(o) /\ o.who = who /\ o.stage = "plan" /\ o.b = b /\ o.doc = d
  BY DEF IsOp, Holding, NoPlan

(* The record after a step: another stage, a file written, a unit done.    *)
LEMMA OpSteps ==
    ASSUME NEW o, IsOp(o), NEW u
    PROVE  /\ \A st : [o EXCEPT !.stage = st]
                = [who |-> o.who, stage |-> st, b |-> o.b, doc |-> o.doc, plan |-> o.plan]
           /\ [o EXCEPT !.plan.changes = @ \ {u}]
                = [who |-> o.who, stage |-> o.stage, b |-> o.b, doc |-> o.doc,
                   plan |-> [changes |-> o.plan.changes \ {u}, enable |-> o.plan.enable,
                             work |-> o.plan.work, action |-> o.plan.action]]
           /\ [o EXCEPT !.plan.work = @ \ {u}]
                = [who |-> o.who, stage |-> o.stage, b |-> o.b, doc |-> o.doc,
                   plan |-> [changes |-> o.plan.changes, enable |-> o.plan.enable,
                             work |-> o.plan.work \ {u}, action |-> o.plan.action]]
  BY DEF IsOp

LEMMA OpPlanned ==
    ASSUME NEW o, IsOp(o), NEW p
    PROVE  [[o EXCEPT !.plan = p] EXCEPT !.stage = "store"]
             = [who |-> o.who, stage |-> "store", b |-> o.b, doc |-> o.doc, plan |-> p]
  <1> DEFINE n == [o EXCEPT !.plan = p]
  <1>1. n = [who |-> o.who, stage |-> o.stage, b |-> o.b, doc |-> o.doc, plan |-> p]
    BY DEF IsOp
  <1> HIDE DEF n
  <1>2. [n EXCEPT !.stage = "store"]
          = [who |-> o.who, stage |-> "store", b |-> o.b, doc |-> o.doc, plan |-> p]
    BY <1>1
  <1> QED BY <1>2 DEF n

(* A unit belongs to one module.                                           *)
LEMMA Apart ==
    ASSUME NEW b \in Modules, NEW c \in Modules, b # c, NEW u \in UnitSet(b)
    PROVE  u \notin UnitSet(c)
  BY DistinctUnitsAssumption DEF UnitSet

(***************************************************************************)
(* Steps that leave the box and the lock holder alone.                     *)
(***************************************************************************)
LEMMA OnwardShape ==
    ASSUME NEW todo, todo \subseteq Modules, Onward(todo)
    PROVE  IsWatch(watch')
  BY DEF Onward, WatchIdle, IsWatch

LEMMA BoxLeftAlone ==
    ASSUME IInv, UNCHANGED <<intent, box, op, settled, late>>,
           attempts' \in [Modules -> Nat],
           IsWatch(watch')
    PROVE  IInv'
  <1>0. UNCHANGED <<intent, file, state, loaded, boot, op, settled, late>>
    BY DEF box
  <1>1. Shaped'
    BY <1>0 DEF IInv, Shaped, Boxed
  <1>2. (\A b \in settled : InForce(b))'
    BY <1>0 DEF IInv, InForce
  <1>3. PlanFits' /\ Progress' /\ Unasked'
    BY <1>0 DEF IInv, PlanFits, Progress, Unasked
  <1> QED BY <1>1, <1>2, <1>3 DEF IInv

LEMMA PollKeeps ==
    ASSUME IInv, NEW b \in Modules, Poll(b)
    PROVE  IInv'
  <1>1. /\ UNCHANGED <<intent, box, op, settled, late>>
        /\ attempts' = attempts \/ attempts' = [attempts EXCEPT ![b] = 0]
        /\ \/ watch' = [pc |-> "hinted", b |-> b, todo |-> watch.todo \ {b}]
           \/ Onward(watch.todo \ {b})
    BY DEF Poll
  <1>2. watch.todo \ {b} \subseteq Modules /\ attempts \in [Modules -> Nat]
    BY DEF IInv, Shaped, IsWatch
  <1>3. attempts' \in [Modules -> Nat]
    BY <1>1, <1>2
  <1>4. IsWatch(watch')
    <2>1. CASE watch' = [pc |-> "hinted", b |-> b, todo |-> watch.todo \ {b}]
      BY <1>2, <2>1 DEF IsWatch
    <2>2. CASE Onward(watch.todo \ {b})
      BY <1>2, <2>2, OnwardShape
    <2> QED BY <1>1, <2>1, <2>2
  <1> QED BY <1>1, <1>3, <1>4, BoxLeftAlone

LEMMA TickKeeps ==
    ASSUME IInv, Tick
    PROVE  IInv'
  <1>1. /\ UNCHANGED <<intent, box, op, settled, late, attempts>>
        /\ watch' = [pc |-> "poll", b |-> "none", todo |-> Modules]
    BY DEF Tick
  <1>2. attempts' \in [Modules -> Nat] /\ IsWatch(watch')
    BY <1>1 DEF IInv, Shaped, IsWatch
  <1> QED BY <1>1, <1>2, BoxLeftAlone

(* Whoever takes the lock has only a document in hand.                     *)
LEMMA TakesLock ==
    ASSUME IInv, UNCHANGED <<intent, box, attempts, settled>>,
           IsWatch(watch'),
           NEW who, NEW b \in Modules, NEW d \in Docs(b), op' = Holding(who, b, d),
           who = "watch" => d.on /\ \A u \in UnitSet(b) : file[u] = d.text[u]
    PROVE  IInv'
  <1>0. UNCHANGED <<intent, file, state, loaded, boot, attempts, settled>>
    BY DEF box
  <1>1. IsOp(op') /\ op'.who = who /\ op'.stage = "plan" /\ op'.b = b /\ op'.doc = d
    BY HoldingIsOp
  <1>2. Shaped'
    BY <1>0, <1>1 DEF IInv, Shaped, Boxed
  <1>3. (\A c \in settled : InForce(c))'
    BY <1>0 DEF IInv, InForce
  <1>4. PlanFits' /\ Progress'
    BY <1>1 DEF PlanFits, Progress, Planned
  <1>5. Unasked'
    BY <1>0, <1>1 DEF Unasked, Planned
  <1> QED BY <1>2, <1>3, <1>4, <1>5 DEF IInv

LEMMA RequestKeeps ==
    ASSUME IInv, NEW b \in Modules, NEW d \in Docs(b), Request(b, d)
    PROVE  IInv'
  <1>1. /\ UNCHANGED <<intent, box, attempts, settled, watch>>
        /\ op' = Holding("request", b, d)
    BY DEF Request
  <1>2. IsWatch(watch')
    BY <1>1 DEF IInv, Shaped
  <1> QED BY <1>1, <1>2, TakesLock

LEMMA StartModuleKeeps ==
    ASSUME IInv, NEW b \in Modules, StartModule(b)
    PROVE  IInv'
  <1>1. /\ UNCHANGED <<intent, box, attempts, settled, watch, late>>
        /\ op' = op \/ op' = Holding("startup", b, intent[b])
    BY DEF StartModule
  <1>2. /\ IsWatch(watch')
        /\ attempts' \in [Modules -> Nat] /\ intent[b] \in Docs(b)
    BY <1>1 DEF IInv, Shaped
  <1>3. CASE op' = op
    BY <1>1, <1>2, <1>3, BoxLeftAlone
  <1>4. CASE op' = Holding("startup", b, intent[b])
    BY <1>1, <1>2, <1>4, TakesLock
  <1> QED BY <1>1, <1>3, <1>4

(* recoverBackend: what is pending is a start, on files that are right.    *)
LEMMA RecoverKeeps ==
    ASSUME IInv, Recover
    PROVE  IInv'
  <1>1. /\ UNCHANGED <<intent, box, settled>> /\ watch.pc = "hinted"
        /\ \/ /\ \E dark \in SUBSET UnitSet(watch.b) : Pending(watch.b, dark)
              /\ op' = Holding("watch", watch.b, intent[watch.b])
              /\ watch' = [watch EXCEPT !.pc = "applying"]
              /\ UNCHANGED attempts
           \/ /\ Onward(watch.todo) /\ UNCHANGED <<op, late>>
              /\ attempts' = attempts \/ attempts' = [attempts EXCEPT ![watch.b] = 0]
    BY DEF Recover
  <1>2. /\ watch.todo \subseteq Modules /\ watch.b \in Modules
        /\ intent[watch.b] \in Docs(watch.b) /\ attempts \in [Modules -> Nat]
        /\ IsWatch(watch)
    BY <1>1 DEF IInv, Shaped, IsWatch
  <1>3. CASE op' = Holding("watch", watch.b, intent[watch.b])
             /\ watch' = [watch EXCEPT !.pc = "applying"] /\ attempts' = attempts
             /\ \E dark \in SUBSET UnitSet(watch.b) : Pending(watch.b, dark)
    <2>1. intent[watch.b].on /\ \A u \in UnitSet(watch.b) : file[u] = intent[watch.b].text[u]
      BY <1>3 DEF Pending, StartIsTheWholeJob, RewritesFiles, Changed
    <2>2. IsWatch(watch')
      BY <1>2, <1>3 DEF IsWatch
    <2> QED BY <1>1, <1>2, <1>3, <2>1, <2>2, TakesLock
  <1>4. CASE /\ Onward(watch.todo) /\ UNCHANGED <<op, late>>
             /\ attempts' = attempts \/ attempts' = [attempts EXCEPT ![watch.b] = 0]
    <2>1. attempts' \in [Modules -> Nat]
      BY <1>2, <1>4
    <2> QED BY <1>1, <1>2, <1>4, <2>1, OnwardShape, BoxLeftAlone
  <1> QED BY <1>1, <1>3, <1>4

(***************************************************************************)
(* The steps of an apply.                                                  *)
(***************************************************************************)
LEMMA ReleaseKeeps ==
    ASSUME Shaped, Release, op.who = "watch" => op.b \in Modules
    PROVE  /\ op' = Free /\ IsOp(op') /\ attempts' \in [Modules -> Nat] /\ IsWatch(watch')
           /\ PlanFits' /\ Progress' /\ Unasked'
  <1>1. op' = Free
    BY DEF Release
  <1>2. PlanFits' /\ Progress' /\ Unasked'
    BY <1>1, FreeIsOp DEF PlanFits, Progress, Unasked, Planned
  <1>3. attempts \in [Modules -> Nat] /\ IsWatch(watch)
    BY DEF Shaped
  <1>4. CASE op.who = "watch"
    <2>1. attempts' = [attempts EXCEPT ![op.b] = attempts[op.b] + 1] /\ Onward(watch.todo)
      BY <1>4 DEF Release
    <2>2. attempts' \in [Modules -> Nat]
      BY <1>3, <1>4, <2>1
    <2>3. IsWatch(watch')
      BY <1>3, <2>1, OnwardShape DEF IsWatch
    <2> QED BY <1>1, <1>2, <2>2, <2>3, FreeIsOp
  <1>5. CASE op.who # "watch"
    BY <1>1, <1>2, <1>3, <1>5, FreeIsOp DEF Release
  <1> QED BY <1>4, <1>5

(* The lock is free, or held for a module.                                 *)
LEMMA Holder ==
    ASSUME Shaped, op.stage # "free"
    PROVE  op.b \in Modules /\ op.doc \in Docs(op.b) /\ op.doc.on \in BOOLEAN
           /\ UnitSet(op.b) \subseteq Units
  <1>1. op # Free
    BY FreeIsOp
  <1>2. op.b \in Modules /\ op.doc \in Docs(op.b)
    BY <1>1 DEF Shaped, IsOp
  <1> QED BY <1>2, UnitsAre DEF Docs

(* An apply that is over and has changed nothing.                          *)
LEMMA EndsEarly ==
    ASSUME IInv, op.stage # "free", Release, UNCHANGED <<intent, box, settled>>
    PROVE  IInv'
  <1>0. UNCHANGED <<intent, file, state, loaded, boot, settled>>
    BY DEF box
  <1>1. Shaped /\ op.b \in Modules
    BY Holder DEF IInv
  <1>2. /\ IsOp(op') /\ attempts' \in [Modules -> Nat] /\ IsWatch(watch')
        /\ PlanFits' /\ Progress' /\ Unasked'
    BY <1>1, ReleaseKeeps
  <1>3. Shaped'
    BY <1>0, <1>1, <1>2 DEF Shaped, Boxed
  <1>4. (\A b \in settled : InForce(b))'
    BY <1>0 DEF IInv, InForce
  <1> QED BY <1>2, <1>3, <1>4 DEF IInv

(* What BuildPlan decides of a unit whose status is known: nothing, when   *)
(* the unit is as the document says; and the right kind of action if not.  *)
LEMMA Decides ==
    ASSUME NEW d, d.on \in BOOLEAN, NEW u, NEW dark
    PROVE  LET a == ActionFor(d, u, dark)
           IN  /\ a = "stop" => ~d.on
               /\ a # "none" => a \in IF d.on THEN {"start", "reload", "restart"} ELSE {"stop"}
               /\ u \notin dark /\ a = "none" =>
                    state[u] # IF d.on THEN "stopped" ELSE "running"
               /\ u \notin dark /\ a = "start" => state[u] # "running"
  <1> DEFINE a == ActionFor(d, u, dark)
             run == u \notin dark /\ state[u] = "running"
             act == u \notin dark /\ state[u] = "activating"
             ch == Changed(d, u)
             re == u \in Reloadable
  <1>0. a = ServiceAction(d.on, run, act, ch, re)
    BY DEF ActionFor
  <1>r. run \in BOOLEAN /\ act \in BOOLEAN /\ ch \in BOOLEAN /\ re \in BOOLEAN
    BY DEF Changed
  <1> HIDE DEF a, run, act, ch, re
  <1>1. /\ d.on /\ ~run /\ act => a = "none"
        /\ d.on /\ ~run /\ ~act => a = "start"
        /\ ~d.on /\ run => a = "stop"
        /\ ~d.on /\ ~run => a = "none"
        /\ d.on /\ run /\ ~ch => a = "none"
        /\ d.on /\ run /\ ch /\ re => a = "reload"
        /\ d.on /\ run /\ ch /\ ~re => a = "restart"
    BY <1>0, <1>r DEF ServiceAction
  <1>2. /\ a = "stop" => ~d.on
        /\ a # "none" => a \in IF d.on THEN {"start", "reload", "restart"} ELSE {"stop"}
    BY <1>1, <1>r
  <1>3. u \notin dark /\ a = "none" => state[u] # IF d.on THEN "stopped" ELSE "running"
    BY <1>1, <1>r DEF run, act
  <1>4. u \notin dark /\ a = "start" => state[u] # "running"
    BY <1>1, <1>r DEF run
  <1> QED BY <1>2, <1>3, <1>4 DEF a

(* A unit that intent wants and whose files are right is started, at most. *)
LEMMA StartsAtMost ==
    ASSUME NEW d, d.on, NEW u, file[u] = d.text[u], NEW dark
    PROVE  ActionFor(d, u, dark) \in {"none", "start"}
  BY DEF ActionFor, ServiceAction, Changed

LEMMA PlanKeeps ==
    ASSUME IInv, Plan
    PROVE  IInv'
  <1>a. op.stage = "plan" /\ UNCHANGED <<intent, box>>
    BY DEF Plan, At
  <1>0. UNCHANGED <<intent, file, state, loaded, boot>>
    BY <1>a DEF box
  <1>1. Shaped /\ op.b \in Modules /\ op.doc \in Docs(op.b) /\ op.doc.on \in BOOLEAN /\ IsOp(op)
    BY <1>a, Holder DEF IInv, Shaped
  <1>2. CASE Release /\ settled' = settled
    BY <1>2, <1>a, EndsEarly
  <1>3. ASSUME NEW dark \in SUBSET UnitSet(op.b),
               op' = [[op EXCEPT !.plan = PlanFor(op.b, op.doc, dark)] EXCEPT !.stage = "store"],
               late' = IF op.who = "watch" THEN late \cup dark ELSE dark,
               UNCHANGED <<attempts, watch, settled>>
        PROVE  IInv'
    <2> DEFINE p == PlanFor(op.b, op.doc, dark)
    <2>1. /\ p = [changes |-> p.changes, enable |-> p.enable, work |-> p.work, action |-> p.action]
          /\ p.changes = {u \in UnitSet(op.b) : Changed(op.doc, u)}
          /\ p.enable = {u \in UnitSet(op.b) \ dark : boot[u] # op.doc.on}
          /\ p.work = {u \in UnitSet(op.b) : ActionFor(op.doc, u, dark) # "none"}
          /\ \A u \in UnitSet(op.b) : p.action[u] = ActionFor(op.doc, u, dark)
      BY DEF PlanFor
    <2> HIDE DEF p
    <2>2. op' = [who |-> op.who, stage |-> "store", b |-> op.b, doc |-> op.doc, plan |-> p]
      BY <1>1, <1>3, OpPlanned DEF p
    <2>3. /\ op'.who = op.who /\ op'.stage = "store" /\ op'.b = op.b /\ op'.doc = op.doc
          /\ op'.plan = p
      BY <2>2
    <2>4. IsOp(op')
      BY <1>1, <2>1, <2>2, <2>3 DEF IsOp, Planned
    <2>5. Shaped'
      BY <1>0, <1>1, <1>3, <2>4 DEF Shaped, Boxed
    <2>6. (\A b \in settled : InForce(b))'
      BY <1>0, <1>3 DEF IInv, InForce
    <2>7. PlanFits'
      <3>1. ASSUME NEW u \in UnitSet(op.b), p.action[u] = "stop"
            PROVE  ~op.doc.on
        <4>1. ActionFor(op.doc, u, dark) = "stop" => ~op.doc.on
          BY <1>1, Decides
        <4> QED BY <2>1, <3>1, <4>1
      <3>2. ASSUME NEW u \in p.work
            PROVE  p.action[u] \in IF op.doc.on THEN {"start", "reload", "restart"} ELSE {"stop"}
        <4> DEFINE a == ActionFor(op.doc, u, dark)
        <4>1. a # "none" => a \in IF op.doc.on THEN {"start", "reload", "restart"} ELSE {"stop"}
          BY <1>1, Decides
        <4>2. p.action[u] = a /\ a # "none"
          BY <2>1, <3>2
        <4> QED BY <4>1, <4>2
      <3> QED BY <2>3, <3>1, <3>2 DEF PlanFits
    <2>8. Progress'
      <3>1. ASSUME NEW u \in UnitSet(op.b) \ late'
            PROVE  /\ u \notin p.changes => file'[u] = op.doc.text[u]
                   /\ u \notin p.enable => boot'[u] = op.doc.on
                   /\ u \notin p.work => state'[u] # IF op.doc.on THEN "stopped" ELSE "running"
                   /\ u \in p.work /\ p.action[u] = "start" => state'[u] # "running"
        <4>1. u \in UnitSet(op.b) /\ u \notin dark
          BY <1>3, <3>1
        <4>2. u \notin p.changes => file[u] = op.doc.text[u]
          BY <2>1, <4>1 DEF Changed
        <4>3. u \notin p.enable => boot[u] = op.doc.on
          BY <2>1, <4>1
        <4>4. u \notin p.work => state[u] # IF op.doc.on THEN "stopped" ELSE "running"
          BY <1>1, <2>1, <4>1, Decides
        <4>5. p.action[u] = "start" => state[u] # "running"
          BY <1>1, <2>1, <4>1, Decides
        <4> QED BY <1>0, <4>2, <4>3, <4>4, <4>5
      <3> QED BY <2>3, <3>1 DEF Progress
    <2>9. Unasked'
      <3>1. ASSUME op.who = "watch", NEW u \in UnitSet(op.b) \ late'
            PROVE  u \notin p.changes /\ (u \in p.work => p.action[u] = "start")
        <4>1. u \in UnitSet(op.b) /\ u \notin late /\ op.doc.on
          BY <1>3, <3>1 DEF IInv, Unasked
        <4>2. file[u] = op.doc.text[u]
          BY <1>a, <3>1, <4>1 DEF IInv, Unasked
        <4>3. ActionFor(op.doc, u, dark) \in {"none", "start"}
          BY <4>1, <4>2, StartsAtMost
        <4>4. u \notin p.changes
          BY <2>1, <4>2 DEF Changed
        <4>5. u \in p.work => p.action[u] = "start"
          BY <2>1, <4>1, <4>3
        <4> QED BY <4>4, <4>5
      <3>2. op.who = "watch" => op.doc.on
        BY DEF IInv, Unasked
      <3> QED BY <2>3, <3>1, <3>2 DEF Unasked
    <2> QED BY <2>5, <2>6, <2>7, <2>8, <2>9 DEF IInv
  <1> QED BY <1>2, <1>3 DEF Plan

(* The apply is over, and what it left is in force wherever that is said.  *)
LEMMA Concludes ==
    ASSUME IInv, op.stage # "free", Release, Boxed',
           intent' = [b \in Modules |-> intent'[b]], \A b \in Modules : intent'[b] \in Docs(b),
           settled' \subseteq settled \cup {op.b}, \A b \in settled' : InForce(b)'
    PROVE  IInv'
  <1>1. Shaped /\ op.b \in Modules
    BY Holder DEF IInv
  <1>2. /\ IsOp(op') /\ attempts' \in [Modules -> Nat] /\ IsWatch(watch')
        /\ PlanFits' /\ Progress' /\ Unasked'
    BY <1>1, ReleaseKeeps
  <1>3. settled' \subseteq Modules
    BY <1>1 DEF Shaped
  <1>4. Shaped'
    BY <1>2, <1>3 DEF Shaped
  <1> QED BY <1>2, <1>4 DEF IInv

(* A module other than the one applied is as it was.                       *)
LEMMA OthersInForce ==
    ASSUME IInv, op.stage # "free", NEW b \in settled, b # op.b,
           intent'[b] = intent[b],
           \A u \in Units \ UnitSet(op.b) :
              file'[u] = file[u] /\ state'[u] = state[u] /\ boot'[u] = boot[u]
    PROVE  InForce(b)'
  <1>1. op.b \in Modules /\ b \in Modules /\ InForce(b)
    BY Holder DEF IInv, Shaped
  <1>2. \A u \in UnitSet(b) : u \in Units \ UnitSet(op.b)
    BY <1>1, Apart, UnitsAre
  <1> QED BY <1>1, <1>2 DEF InForce

(* Success with nothing left of the plan.                                  *)
LEMMA SuccessInForce ==
    ASSUME IInv, op.stage \in {"store", "act"}, Succeeded,
           op.plan.changes = {}, op.plan.work = {}, op.stage = "act" \/ op.plan.enable = {},
           UNCHANGED box, intent' = [intent EXCEPT ![op.b] = op.doc]
    PROVE  IInv'
  <1>0. UNCHANGED <<file, state, loaded, boot>>
    BY DEF box
  <1>1. /\ Shaped /\ op.b \in Modules /\ op.doc \in Docs(op.b) /\ op.stage # "free"
        /\ op.doc.on \in BOOLEAN
    BY Holder DEF IInv
  <1>2. /\ intent'[op.b] = op.doc /\ \A b \in Modules \ {op.b} : intent'[b] = intent[b]
        /\ intent' = [b \in Modules |-> intent'[b]] /\ \A b \in Modules : intent'[b] \in Docs(b)
    BY <1>1 DEF Shaped
  <1>3. Release /\ settled' \subseteq settled \cup {op.b}
        /\ (op.b \in settled' => late \cap UnitSet(op.b) = {})
    BY DEF Succeeded
  <1>4. ASSUME NEW b \in settled'
        PROVE  InForce(b)'
    <2>1. CASE b = op.b
      <3>1. ASSUME NEW u \in UnitSet(op.b)
            PROVE  /\ file[u] = op.doc.text[u]
                   /\ op.doc.on => state[u] # "stopped"
                   /\ boot[u] = op.doc.on
        <4>1. u \in UnitSet(op.b) \ late
          BY <1>3, <2>1
        <4> QED BY <1>1, <4>1 DEF IInv, Progress, Planned
      <3> QED BY <1>0, <1>2, <2>1, <3>1 DEF InForce
    <2>2. CASE b # op.b
      <3>1. b \in settled /\ b \in Modules
        BY <1>1, <1>3, <2>2 DEF Shaped
      <3>2. intent'[b] = intent[b]
        BY <1>2, <2>2, <3>1
      <3> QED BY <1>0, <1>1, <2>2, <3>1, <3>2, OthersInForce
    <2> QED BY <2>1, <2>2
  <1>5. Boxed'
    BY <1>0, <1>1 DEF Shaped, Boxed
  <1> QED BY <1>1, <1>2, <1>3, <1>4, <1>5, Concludes

LEMMA StoreKeeps ==
    ASSUME IInv, Store
    PROVE  IInv'
  <1>a. op.stage = "store" /\ UNCHANGED <<box, late>>
    BY DEF Store, At
  <1>0. UNCHANGED <<file, state, loaded, boot, late>>
    BY <1>a DEF box
  <1>1. Shaped /\ op.b \in Modules /\ op.doc \in Docs(op.b) /\ op.doc.on \in BOOLEAN /\ IsOp(op)
    BY <1>a, Holder DEF IInv, Shaped
  <1>2. CASE intent' = [intent EXCEPT ![op.b] = op.doc] /\ NothingToDo /\ Succeeded
    BY <1>a, <1>2, SuccessInForce DEF NothingToDo
  <1>3. CASE /\ intent' = [intent EXCEPT ![op.b] = op.doc] /\ Go("write")
             /\ settled' = settled \ {op.b} /\ UNCHANGED <<attempts, watch>>
    <2>1. op' = [who |-> op.who, stage |-> "write", b |-> op.b, doc |-> op.doc, plan |-> op.plan]
      BY <1>1, <1>3, OpSteps DEF Go
    <2>2. /\ op'.who = op.who /\ op'.stage = "write" /\ op'.b = op.b /\ op'.doc = op.doc
          /\ op'.plan = op.plan
      BY <2>1
    <2>3. IsOp(op')
      BY <1>1, <2>1, <2>2 DEF IsOp, Planned
    <2>4. /\ intent'[op.b] = op.doc /\ \A b \in Modules \ {op.b} : intent'[b] = intent[b]
          /\ intent' = [b \in Modules |-> intent'[b]] /\ \A b \in Modules : intent'[b] \in Docs(b)
      BY <1>1, <1>3 DEF Shaped
    <2>5. Shaped'
      BY <1>0, <1>1, <1>3, <2>3, <2>4 DEF Shaped, Boxed
    <2>6. (\A b \in settled : InForce(b))'
      BY <1>0, <1>1, <1>3, <2>4 DEF IInv, Shaped, InForce
    <2>7. PlanFits'
      BY <1>a, <2>2 DEF IInv, PlanFits, Planned
    <2>8. Progress'
      BY <1>a, <1>0, <1>3, <2>2, <2>4 DEF IInv, Progress, Planned
    <2>9. Unasked'
      BY <1>a, <1>0, <2>2 DEF IInv, Unasked, Planned
    <2> QED BY <2>5, <2>6, <2>7, <2>8, <2>9 DEF IInv
  <1>4. CASE Release /\ UNCHANGED <<intent, settled>>
    BY <1>a, <1>4, EndsEarly
  <1> QED BY <1>2, <1>3, <1>4 DEF Store

(* The record after Continue.                                              *)
LEMMA GoesOn ==
    ASSUME IInv, op.stage # "free", NEW st \in Planned, Continue(st)
    PROVE  /\ op'.who = op.who /\ op'.stage = st /\ op'.b = op.b /\ op'.doc = op.doc
           /\ op'.plan = op.plan /\ IsOp(op')
           /\ UNCHANGED <<attempts, watch, settled>>
  <1>1. Shaped /\ op.b \in Modules /\ op.doc \in Docs(op.b) /\ IsOp(op)
    BY Holder DEF IInv, Shaped
  <1>2. op' = [who |-> op.who, stage |-> st, b |-> op.b, doc |-> op.doc, plan |-> op.plan]
    BY <1>1, OpSteps DEF Continue, Go
  <1>3. /\ op'.who = op.who /\ op'.stage = st /\ op'.b = op.b /\ op'.doc = op.doc
        /\ op'.plan = op.plan
    BY <1>2
  <1>4. IsOp(op')
    BY <1>1, <1>2, <1>3 DEF IsOp
  <1> QED BY <1>3, <1>4 DEF Continue

(* The apply fails with the box half done: its module is not settled.      *)
LEMMA FailedKeeps ==
    ASSUME IInv, op.stage # "free", Failed, intent' = intent, Boxed',
           \A u \in Units \ UnitSet(op.b) :
              file'[u] = file[u] /\ state'[u] = state[u] /\ boot'[u] = boot[u]
    PROVE  IInv'
  <1>1. Release /\ settled' = settled \ {op.b}
    BY DEF Failed
  <1>2. \A b \in settled' : InForce(b)'
    BY <1>1, OthersInForce
  <1>3. intent' = [b \in Modules |-> intent'[b]] /\ \A b \in Modules : intent'[b] \in Docs(b)
    BY DEF IInv, Shaped
  <1> QED BY <1>1, <1>2, <1>3, Concludes

LEMMA WriteKeeps ==
    ASSUME IInv, Write
    PROVE  IInv'
  <1>0. op.stage = "write" /\ UNCHANGED <<intent, state, loaded, boot, late>>
    BY DEF Write, At
  <1>1. Shaped /\ op.b \in Modules /\ op.doc \in Docs(op.b) /\ IsOp(op) /\ Boxed
        /\ UnitSet(op.b) \subseteq Units
    BY <1>0, Holder DEF IInv, Shaped
  <1>2. CASE op.plan.changes = {} /\ Continue("check") /\ file' = file
    <2>1. /\ op'.who = op.who /\ op'.stage = "check" /\ op'.b = op.b /\ op'.doc = op.doc
          /\ op'.plan = op.plan /\ IsOp(op')
          /\ UNCHANGED <<attempts, watch, settled>>
      BY <1>0, <1>2, GoesOn DEF Planned
    <2>2. Shaped'
      BY <1>0, <1>1, <1>2, <2>1 DEF Shaped, Boxed
    <2>3. (\A b \in settled : InForce(b))'
      BY <1>0, <1>2, <2>1 DEF IInv, InForce
    <2>4. PlanFits'
      BY <1>0, <2>1 DEF IInv, PlanFits, Planned
    <2>5. Progress'
      BY <1>0, <1>2, <2>1 DEF IInv, Progress, Planned
    <2>6. Unasked'
      BY <1>0, <2>1 DEF IInv, Unasked, Planned
    <2> QED BY <2>2, <2>3, <2>4, <2>5, <2>6 DEF IInv
  <1>3. ASSUME NEW u \in op.plan.changes, file' = [file EXCEPT ![u] = op.doc.text[u]],
               op' = [op EXCEPT !.plan.changes = @ \ {u}],
               UNCHANGED <<attempts, watch, settled>>
        PROVE  IInv'
    <2> DEFINE p == [changes |-> op.plan.changes \ {u}, enable |-> op.plan.enable,
                     work |-> op.plan.work, action |-> op.plan.action]
    <2>1. op' = [who |-> op.who, stage |-> op.stage, b |-> op.b, doc |-> op.doc, plan |-> p]
      BY <1>1, <1>3, OpSteps
    <2>2. /\ op'.who = op.who /\ op'.stage = "write" /\ op'.b = op.b /\ op'.doc = op.doc
          /\ op'.plan.changes = op.plan.changes \ {u} /\ op'.plan.enable = op.plan.enable
          /\ op'.plan.work = op.plan.work /\ op'.plan.action = op.plan.action
          /\ op'.plan = p
      BY <1>0, <2>1
    <2>3. u \in UnitSet(op.b) /\ u \in Units
      BY <1>1, <1>3 DEF IsOp
    <2>4. file'[u] = op.doc.text[u] /\ \A v \in Units \ {u} : file'[v] = file[v]
      BY <1>1, <1>3, <2>3 DEF Boxed
    <2>5. IsOp(op')
      <3>1. op'.plan = [changes |-> op'.plan.changes, enable |-> op'.plan.enable,
                        work |-> op'.plan.work, action |-> op'.plan.action]
        BY <2>2
      <3>2. op' = [who |-> op'.who, stage |-> op'.stage, b |-> op'.b, doc |-> op'.doc,
                   plan |-> op'.plan]
        BY <2>1, <2>2
      <3> QED BY <1>1, <2>2, <3>1, <3>2 DEF IsOp, Planned
    <2> HIDE DEF p
    <2>6. Boxed'
      BY <1>0, <1>1, <1>3 DEF Boxed
    <2>7. Shaped'
      BY <1>0, <1>1, <1>3, <2>5, <2>6 DEF Shaped
    <2>8. ASSUME NEW b \in settled'
          PROVE  InForce(b)'
      <3>1. b \in settled /\ b # op.b
        BY <1>0, <1>3 DEF IInv, Progress
      <3> QED BY <1>0, <2>3, <2>4, <3>1, OthersInForce
    <2>9. PlanFits'
      BY <1>0, <2>2 DEF IInv, PlanFits, Planned
    <2>10. Progress'
      <3>1. op.b \notin settled /\ intent[op.b] = op.doc
        BY <1>0 DEF IInv, Progress
      <3>2. ASSUME NEW v \in UnitSet(op.b) \ late
            PROVE  /\ v \notin op'.plan.changes => file'[v] = op.doc.text[v]
                   /\ v \notin op.plan.enable => boot[v] = op.doc.on
                   /\ v \notin op.plan.work => state[v] # IF op.doc.on THEN "stopped" ELSE "running"
                   /\ v \in op.plan.work /\ op.plan.action[v] = "start" => state[v] # "running"
        <4>1. /\ v \notin op.plan.changes => file[v] = op.doc.text[v]
              /\ v \notin op.plan.enable => boot[v] = op.doc.on
              /\ v \notin op.plan.work => state[v] # IF op.doc.on THEN "stopped" ELSE "running"
              /\ v \in op.plan.work /\ op.plan.action[v] = "start" => state[v] # "running"
          BY <1>0, <3>2 DEF IInv, Progress, Planned
        <4>2. v \notin op'.plan.changes => file'[v] = op.doc.text[v]
          BY <1>1, <2>2, <2>4, <4>1
        <4> QED BY <4>1, <4>2
      <3> QED BY <1>0, <1>3, <2>2, <3>1, <3>2 DEF Progress
    <2>11. Unasked'
      BY <1>0, <2>2 DEF IInv, Unasked, Planned
    <2> QED BY <2>7, <2>8, <2>9, <2>10, <2>11 DEF IInv
  <1>4. CASE Failed /\ file' = file
    <2>1. Boxed'
      BY <1>0, <1>1, <1>4 DEF Boxed
    <2> QED BY <1>0, <1>4, <2>1, FailedKeeps
  <1> QED BY <1>2, <1>3, <1>4 DEF Write

LEMMA CheckKeeps ==
    ASSUME IInv, Check
    PROVE  IInv'
  <1>0. op.stage = "check" /\ UNCHANGED <<intent, file, state, loaded, late>>
    BY DEF Check, At
  <1>1. Shaped /\ op.b \in Modules /\ op.doc \in Docs(op.b) /\ IsOp(op) /\ Boxed
        /\ UnitSet(op.b) \subseteq Units /\ op.plan.enable \subseteq UnitSet(op.b)
    BY <1>0, Holder DEF IInv, Shaped, IsOp
  <1>2. ASSUME boot' = [u \in Units |-> IF u \in op.plan.enable THEN op.doc.on ELSE boot[u]],
               Continue("act")
        PROVE  IInv'
    <2>1. /\ op'.who = op.who /\ op'.stage = "act" /\ op'.b = op.b /\ op'.doc = op.doc
          /\ op'.plan = op.plan /\ IsOp(op')
          /\ UNCHANGED <<attempts, watch, settled>>
      BY <1>0, <1>2, GoesOn DEF Planned
    <2>2. Boxed'
      BY <1>0, <1>1, <1>2 DEF Boxed
    <2>3. Shaped'
      BY <1>0, <1>1, <2>1, <2>2 DEF Shaped
    <2>4. ASSUME NEW b \in settled'
          PROVE  InForce(b)'
      <3>1. b \in settled /\ b # op.b
        BY <1>0, <2>1 DEF IInv, Progress
      <3> QED BY <1>0, <1>1, <1>2, <3>1, OthersInForce
    <2>5. PlanFits'
      BY <1>0, <2>1 DEF IInv, PlanFits, Planned
    <2>6. Progress'
      <3>1. op.b \notin settled /\ intent[op.b] = op.doc /\ op.plan.changes = {}
        BY <1>0 DEF IInv, Progress
      <3>2. ASSUME NEW v \in UnitSet(op.b) \ late
            PROVE  /\ v \notin op.plan.changes => file[v] = op.doc.text[v]
                   /\ boot'[v] = op.doc.on
                   /\ v \notin op.plan.work => state[v] # IF op.doc.on THEN "stopped" ELSE "running"
                   /\ v \in op.plan.work /\ op.plan.action[v] = "start" => state[v] # "running"
        <4>1. /\ v \notin op.plan.changes => file[v] = op.doc.text[v]
              /\ v \notin op.plan.enable => boot[v] = op.doc.on
              /\ v \notin op.plan.work => state[v] # IF op.doc.on THEN "stopped" ELSE "running"
              /\ v \in op.plan.work /\ op.plan.action[v] = "start" => state[v] # "running"
          BY <1>0, <3>2 DEF IInv, Progress, Planned
        <4>2. boot'[v] = op.doc.on
          BY <1>1, <1>2, <4>1
        <4> QED BY <4>1, <4>2
      <3> QED BY <1>0, <2>1, <3>1, <3>2 DEF Progress
    <2>7. Unasked'
      BY <1>0, <2>1 DEF IInv, Unasked, Planned
    <2> QED BY <2>3, <2>4, <2>5, <2>6, <2>7 DEF IInv
  <1>3. ASSUME NEW done \in SUBSET op.plan.enable,
               boot' = [u \in Units |-> IF u \in done THEN op.doc.on ELSE boot[u]], Failed
        PROVE  IInv'
    <2>1. Boxed'
      BY <1>0, <1>1, <1>3 DEF Boxed
    <2>2. \A u \in Units \ UnitSet(op.b) : boot'[u] = boot[u]
      BY <1>1, <1>3
    <2> QED BY <1>0, <1>3, <2>1, <2>2, FailedKeeps
  <1> QED BY <1>2, <1>3 DEF Check

(* What a unit action may do to the box: it touches one unit.              *)
LEMMA OneUnit ==
    ASSUME Boxed, NEW u \in Units, NEW a, Acted(u, a) \/ ActedBadly(u, a), UNCHANGED <<file, boot>>
    PROVE  /\ Boxed' /\ \A v \in Units \ {u} : state'[v] = state[v] /\ loaded'[v] = loaded[v]
  <1>1. /\ \/ state' = state
           \/ \E s \in {"stopped", "activating", "running"} : state' = [state EXCEPT ![u] = s]
        /\ loaded' = loaded \/ loaded' = [loaded EXCEPT ![u] = file[u]]
    BY DEF Acted, ActedBadly
  <1>2. state' = [v \in Units |-> state'[v]] /\ \A v \in Units \ {u} : state'[v] = state[v]
    BY <1>1 DEF Boxed
  <1>3. loaded' = [v \in Units |-> loaded'[v]] /\ \A v \in Units \ {u} : loaded'[v] = loaded[v]
    BY <1>1 DEF Boxed
  <1> QED BY <1>2, <1>3 DEF Boxed

(* The state a unit action that worked leaves the unit in.                 *)
LEMMA ActedState ==
    ASSUME Boxed, NEW u \in Units, NEW a, Acted(u, a)
    PROVE  /\ a = "stop" => state'[u] = "stopped"
           /\ a \in {"start", "reload", "restart"} => state'[u] = "running"
           /\ a \in {"stop", "start", "reload", "restart"}
  BY DEF Acted, Boxed

(* The record after a unit action.                                         *)
LEMMA UnitDone ==
    ASSUME IInv, op.stage = "act", NEW u, op' = [op EXCEPT !.plan.work = @ \ {u}]
    PROVE  /\ op'.who = op.who /\ op'.stage = "act" /\ op'.b = op.b /\ op'.doc = op.doc
           /\ op'.plan.changes = op.plan.changes /\ op'.plan.enable = op.plan.enable
           /\ op'.plan.work = op.plan.work \ {u} /\ op'.plan.action = op.plan.action
           /\ IsOp(op')
  <1>0. op.b \in Modules /\ op.doc \in Docs(op.b) /\ IsOp(op)
    BY Holder DEF IInv, Shaped
  <1> DEFINE p == [changes |-> op.plan.changes, enable |-> op.plan.enable,
                   work |-> op.plan.work \ {u}, action |-> op.plan.action]
  <1>1. op' = [who |-> op.who, stage |-> op.stage, b |-> op.b, doc |-> op.doc, plan |-> p]
    BY <1>0, OpSteps
  <1>2. /\ op'.who = op.who /\ op'.stage = "act" /\ op'.b = op.b /\ op'.doc = op.doc
        /\ op'.plan.changes = op.plan.changes /\ op'.plan.enable = op.plan.enable
        /\ op'.plan.work = op.plan.work \ {u} /\ op'.plan.action = op.plan.action
        /\ op'.plan = p
    BY <1>1
  <1>3. op'.plan = [changes |-> op'.plan.changes, enable |-> op'.plan.enable,
                    work |-> op'.plan.work, action |-> op'.plan.action]
    BY <1>2
  <1>4. op' = [who |-> op'.who, stage |-> op'.stage, b |-> op'.b, doc |-> op'.doc,
               plan |-> op'.plan]
    BY <1>1, <1>2
  <1>5. IsOp(op')
    BY <1>0, <1>2, <1>3, <1>4 DEF IsOp, Planned
  <1> QED BY <1>2, <1>5

LEMMA ActKeeps ==
    ASSUME IInv, Act
    PROVE  IInv'
  <1>0. op.stage = "act" /\ UNCHANGED <<intent, file, boot, late>>
    BY DEF Act, At
  <1>1. Shaped /\ op.b \in Modules /\ op.doc \in Docs(op.b) /\ IsOp(op) /\ Boxed
        /\ UnitSet(op.b) \subseteq Units /\ op.plan.work \subseteq UnitSet(op.b)
        /\ op.doc.on \in BOOLEAN
    BY <1>0, Holder DEF IInv, Shaped, IsOp
  <1>2. op.b \notin settled /\ intent[op.b] = op.doc /\ op.plan.changes = {}
    BY <1>0 DEF IInv, Progress
  <1>3. CASE op.plan.work = {} /\ Succeeded /\ UNCHANGED <<state, loaded>>
    <2>1. intent' = [intent EXCEPT ![op.b] = op.doc]
      BY <1>0, <1>1, <1>2 DEF Shaped
    <2>2. UNCHANGED box
      BY <1>0, <1>3 DEF box
    <2> QED BY <1>0, <1>2, <1>3, <2>1, <2>2, SuccessInForce
  <1>4. ASSUME NEW u \in op.plan.work, Acted(u, op.plan.action[u]),
               op' = [op EXCEPT !.plan.work = @ \ {u}], UNCHANGED <<attempts, watch, settled>>
        PROVE  IInv'
    <2>1. /\ op'.who = op.who /\ op'.stage = "act" /\ op'.b = op.b /\ op'.doc = op.doc
          /\ op'.plan.changes = op.plan.changes /\ op'.plan.enable = op.plan.enable
          /\ op'.plan.work = op.plan.work \ {u} /\ op'.plan.action = op.plan.action
          /\ IsOp(op')
      BY <1>0, <1>4, UnitDone
    <2>2. u \in UnitSet(op.b) /\ u \in Units
      BY <1>1, <1>4
    <2>3. Boxed' /\ \A v \in Units \ {u} : state'[v] = state[v]
      BY <1>0, <1>1, <1>4, <2>2, OneUnit
    <2>4. Shaped'
      BY <1>0, <1>1, <1>4, <2>1, <2>3 DEF Shaped
    <2>5. ASSUME NEW b \in settled'
          PROVE  InForce(b)'
      <3>1. b \in settled /\ b # op.b
        BY <1>2, <1>4
      <3> QED BY <1>0, <2>2, <2>3, <3>1, OthersInForce
    <2>6. PlanFits'
      BY <1>0, <2>1 DEF IInv, PlanFits, Planned
    <2>7. state'[u] # IF op.doc.on THEN "stopped" ELSE "running"
      <3>1. op.plan.action[u] \in IF op.doc.on THEN {"start", "reload", "restart"} ELSE {"stop"}
        BY <1>0, <1>4 DEF IInv, PlanFits, Planned
      <3>2. /\ op.plan.action[u] = "stop" => state'[u] = "stopped"
            /\ op.plan.action[u] \in {"start", "reload", "restart"} => state'[u] = "running"
        BY <1>1, <1>4, <2>2, ActedState
      <3> QED BY <1>1, <3>1, <3>2
    <2>8. Progress'
      <3>2. ASSUME NEW v \in UnitSet(op.b) \ late
            PROVE  /\ v \notin op.plan.changes => file[v] = op.doc.text[v]
                   /\ boot[v] = op.doc.on
                   /\ v \notin op.plan.work \ {u} =>
                        state'[v] # IF op.doc.on THEN "stopped" ELSE "running"
                   /\ v \in op.plan.work \ {u} /\ op.plan.action[v] = "start" => state'[v] # "running"
        <4>1. /\ v \notin op.plan.changes => file[v] = op.doc.text[v]
              /\ boot[v] = op.doc.on
              /\ v \notin op.plan.work => state[v] # IF op.doc.on THEN "stopped" ELSE "running"
              /\ v \in op.plan.work /\ op.plan.action[v] = "start" => state[v] # "running"
          BY <1>0, <3>2 DEF IInv, Progress, Planned
        <4>2. CASE v = u
          BY <2>7, <4>1, <4>2
        <4>3. CASE v # u
          BY <1>1, <2>3, <4>1, <4>3
        <4> QED BY <4>2, <4>3
      <3>3. op'.b \notin settled' /\ intent'[op'.b] = op'.doc /\ op'.plan.changes = {}
        BY <1>0, <1>2, <1>4, <2>1
      <3>4. ASSUME NEW v \in UnitSet(op'.b) \ late'
            PROVE  /\ v \notin op'.plan.changes => file'[v] = op'.doc.text[v]
                   /\ boot'[v] = op'.doc.on
                   /\ v \notin op'.plan.work =>
                        state'[v] # IF op'.doc.on THEN "stopped" ELSE "running"
                   /\ v \in op'.plan.work /\ op'.plan.action[v] = "start" => state'[v] # "running"
        BY <1>0, <2>1, <3>2
      <3> QED BY <3>3, <3>4 DEF Progress
    <2>9. Unasked'
      BY <1>0, <2>1 DEF IInv, Unasked, Planned
    <2> QED BY <2>4, <2>5, <2>6, <2>8, <2>9 DEF IInv
  <1>5. ASSUME NEW u \in op.plan.work, ActedBadly(u, op.plan.action[u]), Failed
        PROVE  IInv'
    <2>1. u \in UnitSet(op.b) /\ u \in Units
      BY <1>1, <1>5
    <2>2. Boxed' /\ \A v \in Units \ {u} : state'[v] = state[v]
      BY <1>0, <1>1, <1>5, <2>1, OneUnit
    <2> QED BY <1>0, <1>5, <2>1, <2>2, FailedKeeps
  <1> QED BY <1>3, <1>4, <1>5 DEF Act

(***************************************************************************)
(* systemd, a shell, the daemons, and crashes.                             *)
(***************************************************************************)
(* Somebody without the lock touches a unit: it counts as late.            *)
LEMMA TouchedKeeps ==
    ASSUME IInv, NEW u \in Units, UNCHANGED <<intent, boot, op, watch, attempts>>, Boxed',
           late' = late \cup {u}, settled' \subseteq settled,
           \A v \in Units \ {u} : file'[v] = file[v] /\ state'[v] = state[v],
           \A b \in settled' : u \in UnitSet(b) => InForce(b)'
    PROVE  IInv'
  <1>1. Shaped'
    BY DEF IInv, Shaped
  <1>2. ASSUME NEW b \in settled'
        PROVE  InForce(b)'
    <2>1. InForce(b) /\ b \in Modules /\ UnitSet(b) \subseteq Units
      BY UnitsAre DEF IInv, Shaped
    <2>2. CASE u \notin UnitSet(b)
      BY <2>1, <2>2 DEF InForce
    <2> QED BY <2>2
  <1>3. PlanFits'
    BY DEF IInv, PlanFits
  <1>4. op.stage \in Planned \/ op.who = "watch" => UnitSet(op.b) \subseteq Units
    BY Holder, FreeIsOp DEF IInv, Shaped, Planned, IsOp
  <1>5. Progress'
    <2>1. /\ op.stage \in {"write", "check", "act"} => op.b \notin settled' /\ intent[op.b] = op.doc
          /\ op.stage \in {"check", "act"} => op.plan.changes = {}
      BY DEF IInv, Progress
    <2>2. ASSUME op.stage \in Planned, NEW v \in UnitSet(op.b) \ late'
          PROVE  /\ v \notin op.plan.changes => file'[v] = op.doc.text[v]
                 /\ op.stage = "act" \/ v \notin op.plan.enable => boot[v] = op.doc.on
                 /\ v \notin op.plan.work => state'[v] # IF op.doc.on THEN "stopped" ELSE "running"
                 /\ v \in op.plan.work /\ op.plan.action[v] = "start" => state'[v] # "running"
      <3>1. v \in UnitSet(op.b) \ late /\ file'[v] = file[v] /\ state'[v] = state[v]
        BY <1>4, <2>2
      <3>2. /\ v \notin op.plan.changes => file[v] = op.doc.text[v]
            /\ op.stage = "act" \/ v \notin op.plan.enable => boot[v] = op.doc.on
            /\ v \notin op.plan.work => state[v] # IF op.doc.on THEN "stopped" ELSE "running"
            /\ v \in op.plan.work /\ op.plan.action[v] = "start" => state[v] # "running"
        BY <2>2, <3>1 DEF IInv, Progress
      <3> QED BY <3>1, <3>2
    <2> QED BY <2>1, <2>2 DEF Progress
  <1>6. Unasked'
    <2>1. ASSUME op.who = "watch", NEW v \in UnitSet(op.b) \ late'
          PROVE  v \in UnitSet(op.b) \ late /\ file'[v] = file[v]
      BY <1>4, <2>1
    <2> QED BY <2>1 DEF IInv, Unasked
  <1> QED BY <1>1, <1>2, <1>3, <1>5, <1>6 DEF IInv

LEMMA DieKeeps ==
    ASSUME IInv, NEW u \in Units, Die(u)
    PROVE  IInv'
  <1>1. /\ UNCHANGED <<intent, boot, op, watch, attempts, file, loaded>>
        /\ late' = late \cup {u} /\ settled' = settled \ Owner(u)
        /\ \E s \in {"activating", "stopped"} : state' = [state EXCEPT ![u] = s]
    BY DEF Die, Event
  <1>2. Boxed' /\ \A v \in Units \ {u} : file'[v] = file[v] /\ state'[v] = state[v]
    BY <1>1 DEF IInv, Shaped, Boxed
  <1>3. settled' \subseteq settled /\ \A b \in settled' : u \notin UnitSet(b)
    BY <1>1 DEF IInv, Shaped, Owner
  <1> QED BY <1>1, <1>2, <1>3, TouchedKeeps

LEMMA HandEditKeeps ==
    ASSUME IInv, NEW u \in Units, HandEdit(u)
    PROVE  IInv'
  <1>1. /\ UNCHANGED <<intent, boot, op, watch, attempts, state, loaded>>
        /\ late' = late \cup {u} /\ settled' = settled \ Owner(u)
        /\ file' = [file EXCEPT ![u] = Edited]
    BY DEF HandEdit, Event
  <1>2. Boxed' /\ \A v \in Units \ {u} : file'[v] = file[v] /\ state'[v] = state[v]
    BY <1>1 DEF IInv, Shaped, Boxed
  <1>3. settled' \subseteq settled /\ \A b \in settled' : u \notin UnitSet(b)
    BY <1>1 DEF IInv, Shaped, Owner
  <1> QED BY <1>1, <1>2, <1>3, TouchedKeeps

LEMMA ComeUpKeeps ==
    ASSUME IInv, NEW u \in Units, ComeUp(u)
    PROVE  IInv'
  <1>1. /\ UNCHANGED <<intent, file, boot, op, watch, attempts, settled>>
        /\ late' = late \cup {u}
        /\ state' = [state EXCEPT ![u] = "running"]
        /\ loaded' = [loaded EXCEPT ![u] = file[u]]
    BY DEF ComeUp
  <1>2. /\ Boxed' /\ \A v \in Units \ {u} : file'[v] = file[v] /\ state'[v] = state[v]
        /\ state'[u] = "running"
    BY <1>1 DEF IInv, Shaped, Boxed
  <1>3. ASSUME NEW b \in settled'
        PROVE  InForce(b)'
    <2>1. InForce(b) /\ UnitSet(b) \subseteq Units
      BY <1>1, UnitsAre DEF IInv, Shaped
    <2> QED BY <1>1, <1>2, <2>1 DEF InForce
  <1> QED BY <1>1, <1>2, <1>3, TouchedKeeps

LEMMA CrashKeeps ==
    ASSUME IInv, Crash
    PROVE  IInv'
  <1>1. /\ op' = Free /\ watch' = WatchIdle /\ attempts' = [b \in Modules |-> 0]
        /\ UNCHANGED <<intent, file, loaded, boot>>
        /\ \/ settled' \subseteq settled /\ state' = state
           \/ /\ settled' = {}
              /\ state' = [u \in Units |-> IF boot[u] THEN "activating" ELSE "stopped"]
    BY DEF Crash
  <1>2. PlanFits' /\ Progress' /\ Unasked' /\ IsOp(op')
    BY <1>1, FreeIsOp DEF PlanFits, Progress, Unasked, Planned
  <1>3. attempts' \in [Modules -> Nat] /\ IsWatch(watch')
    BY <1>1 DEF WatchIdle, IsWatch
  <1>4. Boxed'
    BY <1>1 DEF IInv, Shaped, Boxed
  <1>5. settled' \subseteq Modules /\ \A b \in settled' : InForce(b)'
    BY <1>1 DEF IInv, Shaped, InForce
  <1>6. Shaped'
    BY <1>1, <1>2, <1>3, <1>4, <1>5 DEF IInv, Shaped
  <1> QED BY <1>2, <1>5, <1>6 DEF IInv

(***************************************************************************)
(* What is proved.                                                         *)
(***************************************************************************)
LEMMA InitInv ==
    ASSUME Init
    PROVE  IInv
  <1>1. op = Free /\ watch = WatchIdle /\ settled = {}
    BY DEF Init
  <1>2. PlanFits /\ Progress /\ Unasked /\ IsOp(op)
    BY <1>1, FreeIsOp DEF PlanFits, Progress, Unasked, Planned
  <1>3. IsWatch(watch) /\ attempts \in [Modules -> Nat]
    BY <1>1 DEF Init, WatchIdle, IsWatch
  <1>4. Boxed
    BY DEF Init, Boxed
  <1>5. intent = [b \in Modules |-> intent[b]] /\ \A b \in Modules : intent[b] \in Docs(b)
    BY DEF Init
  <1>6. Shaped
    BY <1>1, <1>2, <1>3, <1>4, <1>5 DEF Shaped
  <1> QED BY <1>1, <1>2, <1>6 DEF IInv

LEMMA Kept ==
    ASSUME IInv, [Next]_vars
    PROVE  IInv'
  <1>1. CASE UNCHANGED vars
    <2>1. UNCHANGED <<intent, box, op, settled, late, attempts, watch>>
      BY <1>1 DEF vars, box
    <2>2. attempts' \in [Modules -> Nat] /\ IsWatch(watch')
      BY <2>1 DEF IInv, Shaped
    <2> QED BY <2>1, <2>2, BoxLeftAlone
  <1>2. CASE \E b \in Modules : \E d \in Docs(b) : Request(b, d)
    BY <1>2, RequestKeeps
  <1>3. CASE \E b \in Modules : StartModule(b) \/ Poll(b)
    BY <1>3, StartModuleKeeps, PollKeeps
  <1>4. CASE Tick \/ Recover
    BY <1>4, TickKeeps, RecoverKeeps
  <1>5. CASE Apply
    BY <1>5, PlanKeeps, StoreKeeps, WriteKeeps, CheckKeeps, ActKeeps DEF Apply
  <1>6. CASE \E u \in Units : Die(u) \/ HandEdit(u) \/ ComeUp(u)
    BY <1>6, DieKeeps, HandEditKeeps, ComeUpKeeps
  <1>7. CASE Crash
    BY <1>7, CrashKeeps
  <1> QED BY <1>1, <1>2, <1>3, <1>4, <1>5, <1>6, <1>7 DEF Next

(* The plan and the box stay in step: at every moment of an apply, for the *)
(* units nobody without the lock has touched since it looked, what is not  *)
(* left to do is done (ApplyChecked's order: store, files, boot, units).   *)
THEOREM PlanInStep == Spec => []IInv
  <1>1. Init => IInv
    BY InitInv
  <1>2. IInv /\ [Next]_vars => IInv'
    BY Kept
  <1> QED BY <1>1, <1>2, PTL DEF Spec

(* Re-applying finishes the job: an apply of dns or dhcp that reports      *)
(* success leaves files, units and boot settings as intent says, whatever  *)
(* failed before and whoever it was that applied.                          *)
THEOREM ReapplyFinishes == Spec => []ApplySettles
  <1>1. IInv => ApplySettles
    BY DEF IInv, InForce, ApplySettles
  <1> QED BY <1>1, PlanInStep, PTL

(***************************************************************************)
(* What a step may cost.                                                   *)
(***************************************************************************)
(* A step that leaves every unit alone that is not late.                   *)
LEMMA Untouched ==
    ASSUME \A u \in Units \ late' : file'[u] = file[u] /\ state'[u] = state[u] /\ loaded'[u] = loaded[u],
           Shaped
    PROVE  OrderlyStep
  <1>1. op.who = "watch" => UnitSet(op.b) \subseteq Units
    BY FreeIsOp, UnitsAre DEF Shaped, IsOp
  <1>2. StartsOnly
    BY <1>1 DEF StartsOnly
  <1>3. InOrder
    <2>1. \A b \in Modules : \A i \in DOMAIN UnitsOf[b] : UnitsOf[b][i] \in Units
      BY DEF Units, ToSet
    <2> QED BY <2>1 DEF InOrder
  <1> QED BY <1>2, <1>3 DEF OrderlyStep

(* Writing a file: the watch has none to write.                            *)
LEMMA WriteOrderly ==
    ASSUME IInv, Write
    PROVE  OrderlyStep
  <1>0. op.stage = "write" /\ UNCHANGED <<state, loaded>>
    BY DEF Write, At
  <1>1. file' = file \/ \E u \in op.plan.changes : file' = [file EXCEPT ![u] = op.doc.text[u]]
    BY DEF Write
  <1>2. UnitSet(op.b) \subseteq Units /\ op.plan.changes \subseteq UnitSet(op.b) /\ Boxed
    BY <1>0, Holder DEF IInv, Shaped, IsOp
  <1>3. ASSUME op.who = "watch", NEW v \in UnitSet(op.b) \ late
        PROVE  file'[v] = file[v]
    <2>1. v \notin op.plan.changes
      BY <1>0, <1>3 DEF IInv, Unasked, Planned
    <2> QED BY <1>1, <1>2, <2>1 DEF Boxed
  <1>4. StartsOnly
    BY <1>0, <1>3 DEF StartsOnly
  <1>5. InOrder
    BY <1>0 DEF InOrder, At
  <1> QED BY <1>4, <1>5 DEF OrderlyStep

(* A unit action: the watch only starts, and nothing goes out of order.    *)
LEMMA ActOrderly ==
    ASSUME IInv, Act
    PROVE  OrderlyStep
  <1>0. op.stage = "act" /\ UNCHANGED <<file, boot, late>>
    BY DEF Act, At
  <1>1. UnitSet(op.b) \subseteq Units /\ op.plan.work \subseteq UnitSet(op.b) /\ Boxed
        /\ Shaped /\ op.doc.on \in BOOLEAN /\ op.b \in Modules
    BY <1>0, Holder DEF IInv, Shaped, IsOp
  <1>2. CASE UNCHANGED <<state, loaded>>
    BY <1>0, <1>1, <1>2, Untouched
  <1>3. ASSUME NEW w \in op.plan.work, ServiceOrder(op.b, op.plan, w),
               \/ Acted(w, op.plan.action[w])
               \/ ActedBadly(w, op.plan.action[w]) /\ op' = Free
        PROVE  OrderlyStep
    <2>1. w \in UnitSet(op.b) /\ w \in Units
      BY <1>1, <1>3
    <2>2. \A v \in Units \ {w} : state'[v] = state[v] /\ loaded'[v] = loaded[v]
      BY <1>0, <1>1, <1>3, <2>1, OneUnit
    <2>3. StartsOnly
      <3>1. ASSUME op.who = "watch", NEW u \in UnitSet(op.b) \ late, state[u] = "running"
            PROVE  state'[u] = "running" /\ loaded'[u] = loaded[u]
        <4>1. u \in op.plan.work => op.plan.action[u] = "start"
          BY <1>0, <3>1 DEF IInv, Unasked, Planned
        <4>2. u \in op.plan.work => state[u] # "running"
          BY <1>0, <3>1, <4>1 DEF IInv, Progress, Planned
        <4>3. u # w /\ u \in Units
          BY <1>1, <1>3, <3>1, <4>2
        <4> QED BY <2>2, <3>1, <4>3
      <3> QED BY <1>0, <3>1 DEF StartsOnly
    <2>4. InOrder
      <3> SUFFICES ASSUME NEW b \in Modules, NEW i \in DOMAIN UnitsOf[b], NEW j \in DOMAIN UnitsOf[b],
                          i < j, op.b = b, UnitsOf[b][i] \notin late, UnitsOf[b][j] \notin late,
                          op' # Free
                   PROVE  /\ state[UnitsOf[b][j]] = "stopped" /\ state'[UnitsOf[b][j]] = "running"
                                => state[UnitsOf[b][i]] # "stopped"
                          /\ state[UnitsOf[b][i]] = "running" /\ state'[UnitsOf[b][i]] = "stopped"
                                => state[UnitsOf[b][j]] # "running"
        BY <1>0 DEF InOrder
      <3> DEFINE u == UnitsOf[b][i]
                 v == UnitsOf[b][j]
                 a == op.plan.action[w]
      <3>1. u \in UnitSet(op.b) \ late /\ v \in UnitSet(op.b) \ late /\ u # v
        BY DistinctUnitsAssumption DEF UnitSet, ToSet
      <3>2. Precedes(op.b, u, v)
        BY DEF Precedes
      <3>3. Acted(w, a)
        BY <1>3
      <3>4. /\ a = "stop" => state'[w] = "stopped"
            /\ a \in {"start", "reload", "restart"} => state'[w] = "running"
        BY <1>1, <2>1, <3>3, ActedState
      <3>5. a \in IF op.doc.on THEN {"start", "reload", "restart"} ELSE {"stop"}
        BY <1>0, <1>3 DEF IInv, PlanFits, Planned
      <3>6. \A x \in UnitSet(op.b) : op.plan.action[x] = "stop" => ~op.doc.on
        BY <1>0 DEF IInv, PlanFits, Planned
      <3>7. \A x \in UnitSet(op.b) \ late :
              x \notin op.plan.work => state[x] # IF op.doc.on THEN "stopped" ELSE "running"
        BY <1>0 DEF IInv, Progress, Planned
      <3> HIDE DEF u, v, a
      <3>8. ASSUME state[v] = "stopped", state'[v] = "running"
            PROVE  state[u] # "stopped"
        <4>1. v = w
          BY <1>1, <2>2, <3>1, <3>8
        <4>2. op.doc.on
          BY <1>1, <3>4, <3>5, <3>8, <4>1
        <4>3. ~ \E x \in UnitSet(op.b) : op.plan.action[x] = "stop"
          BY <3>6, <4>2
        <4>4. u \notin op.plan.work
          BY <1>3, <3>1, <3>2, <4>1, <4>3 DEF ServiceOrder
        <4> QED BY <3>1, <3>7, <4>2, <4>4
      <3>9. ASSUME state[u] = "running", state'[u] = "stopped"
            PROVE  state[v] # "running"
        <4>1. u = w
          BY <1>1, <2>2, <3>1, <3>9
        <4>2. ~op.doc.on /\ a = "stop"
          BY <1>1, <3>4, <3>5, <3>9, <4>1
        <4>3. \E x \in UnitSet(op.b) : op.plan.action[x] = "stop"
          BY <2>1, <4>2 DEF a
        <4>4. v \notin op.plan.work
          BY <1>3, <3>1, <3>2, <4>1, <4>3 DEF ServiceOrder
        <4> QED BY <3>1, <3>7, <4>2, <4>4
      <3> QED BY <3>8, <3>9 DEF u, v
    <2> QED BY <2>3, <2>4 DEF OrderlyStep
  <1> QED BY <1>2, <1>3 DEF Act, Failed, Release

(* A crash ends every apply, and counts no attempt.                        *)
LEMMA CrashOrderly ==
    ASSUME IInv, Crash
    PROVE  OrderlyStep
  <1>1. op' = Free /\ attempts' = [b \in Modules |-> 0] /\ attempts \in [Modules -> Nat]
    BY DEF Crash, IInv, Shaped
  <1>2. op.who = "watch" => op.b \in Modules
    BY FreeIsOp DEF IInv, Shaped, IsOp
  <1>3. StartsOnly
    <2>1. op'.who # "watch"
      BY <1>1, FreeIsOp
    <2>2. op.who = "watch" => ~(attempts'[op.b] > attempts[op.b])
      BY <1>1, <1>2
    <2> QED BY <2>1, <2>2 DEF StartsOnly
  <1>4. InOrder
    BY <1>1 DEF InOrder
  <1> QED BY <1>3, <1>4 DEF OrderlyStep

(* An apply takes no step that costs a service it was not told to touch:   *)
(* the watch's stops, rewrites and re-reads nothing (recoverBackend), and  *)
(* serviceOrder brings units up and down in their order.                   *)
THEOREM NoServiceLost == Spec => OrderlySteps
  <1>1. IInv /\ [Next]_vars => [OrderlyStep]_vars
    <2> SUFFICES ASSUME IInv, Next
                 PROVE  OrderlyStep
      OBVIOUS
    <2>0. Shaped
      BY DEF IInv
    <2>1. CASE UNCHANGED box
      BY <2>0, <2>1, Untouched DEF box
    <2>2. CASE \E u \in Units : Die(u) \/ HandEdit(u) \/ ComeUp(u)
      <3>1. PICK u \in Units : Die(u) \/ HandEdit(u) \/ ComeUp(u)
        BY <2>2
      <3>2. /\ late' = late \cup {u}
            /\ file' = file \/ file' = [file EXCEPT ![u] = Edited]
            /\ \/ state' = state
               \/ \E s \in {"stopped", "activating", "running"} : state' = [state EXCEPT ![u] = s]
            /\ loaded' = loaded \/ loaded' = [loaded EXCEPT ![u] = file[u]]
        BY <3>1 DEF Die, HandEdit, ComeUp, Event
      <3>3. \A v \in Units \ {u} :
              file'[v] = file[v] /\ state'[v] = state[v] /\ loaded'[v] = loaded[v]
        BY <2>0, <3>2 DEF Shaped, Boxed
      <3> QED BY <2>0, <3>2, <3>3, Untouched
    <2>3. CASE Write
      BY <2>3, WriteOrderly
    <2>4. CASE Check
      BY <2>0, <2>4, Untouched DEF Check
    <2>5. CASE Act
      BY <2>5, ActOrderly
    <2>6. CASE Crash
      BY <2>6, CrashOrderly
    <2>7. CASE Plan \/ Store \/ Tick \/ Recover
      BY <2>1, <2>7 DEF Plan, Store, Tick, Recover
    <2>8. CASE \/ \E b \in Modules : \E d \in Docs(b) : Request(b, d)
               \/ \E b \in Modules : StartModule(b) \/ Poll(b)
      BY <2>1, <2>8 DEF Request, StartModule, Poll
    <2> QED BY <2>2, <2>3, <2>4, <2>5, <2>6, <2>7, <2>8 DEF Next, Apply
  <1> QED BY <1>1, PlanInStep, PTL DEF Spec, OrderlySteps

=============================================================================
