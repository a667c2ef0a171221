--------------------------- MODULE GatewayProofs ---------------------------
(***************************************************************************)
(* What an apply of the gateway leaves in the kernel, for every set of     *)
(* valid configurations, every table of interfaces and every bound: a      *)
(* crash, a refused write or an earlier apply that stopped half way may    *)
(* have left any objects at all behind.                                    *)
(***************************************************************************)
EXTENDS Gateway, TLAPS

(* A route replaces the one with its table, family and metric, so a set of *)
(* routes can be installed only if no two of them share all three.         *)
OnePerSlot(routes) == \A r, q \in routes : SameSlot(r, q) => r = q

(* Of one exit and family, render.go makes at most one route with metric   *)
(* 0, and beside it at most the unreachable route with metric 100 that     *)
(* keeps the TUN's traffic from leaking when its interface goes.           *)
LEMMA ExitRoutes ==
    ASSUME NEW e, NEW links, NEW verdict
    PROVE  /\ \A r \in renderExit(e, links, verdict).routes : r.table = e.slot
           /\ OnePerSlot(renderExit(e, links, verdict).routes)
<1> DEFINE down == Down(verdict, e.name)
           one(fam) == IF isTun(e) /\ fam = 4 /\ ~down /\ ~links[Tun].up
                       THEN {Unreachable(e, fam, 0)} ELSE exitRoute(e, fam, down)
           routes(fam) == IF isTun(e) /\ Via(e, fam) \in one(fam)
                          THEN one(fam) \cup {Unreachable(e, fam, 100)} ELSE one(fam)
<1>1. ASSUME NEW fam \in Families
      PROVE  one(fam) \in {{}, {Unreachable(e, fam, 0)}, {Via(e, fam)}}
  BY DEF exitRoute
<1>2. ASSUME NEW fam \in Families, NEW r \in routes(fam)
      PROVE  /\ r \in {Unreachable(e, fam, 0), Via(e, fam), Unreachable(e, fam, 100)}
             /\ r.table = e.slot /\ r.fam = fam
             /\ \A q \in routes(fam) : r.metric = q.metric => r = q
  <2> HIDE DEF one
  <2> QED  BY <1>1, <1>2 DEF Unreachable, Via
<1>3. \/ renderExit(e, links, verdict).routes = {}
      \/ renderExit(e, links, verdict).routes = UNION {routes(fam) : fam \in Families}
  BY DEF renderExit
<1> HIDE DEF routes
<1>4. ASSUME NEW r \in UNION {routes(fam) : fam \in Families}
      PROVE  r.table = e.slot /\ r.fam \in Families /\ r \in routes(r.fam)
  BY <1>2
<1> QED  BY <1>2, <1>3, <1>4 DEF OnePerSlot, SameSlot

(* validateExits gives every exit a slot of its own, so the routes of a    *)
(* valid configuration can all be installed.                               *)
LEMMA RoutesInstallable ==
    ASSUME NEW c \in Docs, NEW h
    PROVE  OnePerSlot(Desired(c, h).routes)
<1> DEFINE parts == {renderExit(e, Links, h) : e \in UsedExits(c)}
<1>1. \A e, x \in UsedExits(c) : e.slot = x.slot => e = x
  BY DocsAssumption DEF Validate, validateExits, UsedExits
<1>2. \/ Desired(c, h).routes = {}
      \/ Desired(c, h).routes = UNION {x.routes : x \in parts}
  BY DEF Desired, Render
<1>3. ASSUME NEW r \in UNION {x.routes : x \in parts}
      PROVE  \E e \in UsedExits(c) : r \in renderExit(e, Links, h).routes
  BY DEF parts
<1> QED  BY <1>1, <1>2, <1>3, ExitRoutes DEF OnePerSlot, SameSlot

-----------------------------------------------------------------------------
(* The kernel and the apply under way, as records of the fields the model  *)
(* gives them.                                                             *)
Shaped ==
    /\ kern = [table |-> kern.table, rules |-> kern.rules, routes |-> kern.routes,
               sysctls |-> kern.sysctls]
    /\ job # NoJob =>
          job = [who |-> job.who, cfg |-> job.cfg, want |-> job.want, loop |-> job.loop,
                 addR |-> job.addR, addU |-> job.addU, nft |-> job.nft, delU |-> job.delU,
                 delR |-> job.delR, sys |-> job.sys]

(* At every write: what the apply still wants is in the kernel or among    *)
(* the writes to come, what the kernel has too much is among the deletions *)
(* to come, and no deletion is of a wanted object.                         *)
RoutesOnTheWay ==
    /\ OnePerSlot(job.want.routes)
    /\ job.addR \subseteq job.want.routes
    /\ job.delR \cap job.want.routes = {}
    /\ job.want.routes \subseteq kern.routes \cup job.addR
    /\ kern.routes \subseteq job.want.routes \cup job.delR

RulesOnTheWay ==
    /\ job.addU \subseteq job.want.rules
    /\ job.delU \cap job.want.rules = {}
    /\ job.want.rules \subseteq kern.rules \cup job.addU
    /\ kern.rules \subseteq job.want.rules \cup job.delU

OnTheWay ==
    job # NoJob =>
        /\ RoutesOnTheWay /\ RulesOnTheWay
        /\ ~job.nft => kern.table = job.want.table
        /\ job.want.sysctls \subseteq kern.sysctls \cup job.sys

Programming == config \in Docs /\ Shaped /\ OnTheWay

LEMMA JobOnTheWay ==
    ASSUME NEW who, NEW c \in Docs, NEW h, NEW extra,
           job' = Job(who, c, h, extra), kern' = kern, Shaped
    PROVE  Shaped' /\ OnTheWay'
<1> DEFINE d == Desired(c, h)
<1>1. OnePerSlot(d.routes)
  BY RoutesInstallable
<1>2. job' = [who |-> who, cfg |-> c, want |-> d, loop |-> extra,
              addR |-> d.routes \ kern.routes, addU |-> d.rules \ kern.rules, nft |-> TRUE,
              delU |-> kern.rules \ d.rules, delR |-> kern.routes \ d.routes,
              sys |-> d.sysctls \ kern.sysctls]
  BY DEF Job, diffRoutes, diffRules
<1> HIDE DEF d
<1> QED  BY <1>1, <1>2 DEF Shaped, OnTheWay, RoutesOnTheWay, RulesOnTheWay

(* An end of an apply leaves no apply, and the kernel as it is.            *)
LEMMA EndsProgramming ==
    ASSUME NEW ok, Programming, Ends(job, kern, ok)
    PROVE  Programming'
BY DEF Programming, Ends, Shaped, OnTheWay

LEMMA InitProgramming == Init => Programming
<1> SUFFICES ASSUME NEW c \in Docs, config = c,
                    kern = [table |-> NoTable, rules |-> {}, routes |-> {}, sysctls |-> {}],
                    job = NoJob \/ job = Job("boot", c, <<>>, 0)
             PROVE  Programming
  BY DEF Init
<1>1. CASE job = NoJob
  BY <1>1 DEF Programming, Shaped, OnTheWay
<1>2. CASE job = Job("boot", c, <<>>, 0)
  <2> DEFINE d == Desired(c, <<>>)
  <2>1. OnePerSlot(d.routes)
    BY RoutesInstallable
  <2>2. job = [who |-> "boot", cfg |-> c, want |-> d, loop |-> 0,
               addR |-> d.routes, addU |-> d.rules, nft |-> TRUE,
               delU |-> {}, delR |-> {}, sys |-> d.sysctls]
    BY <1>2 DEF Job, diffRoutes, diffRules
  <2> HIDE DEF d
  <2> QED  BY <2>1, <2>2 DEF Programming, Shaped, OnTheWay, RoutesOnTheWay, RulesOnTheWay
<1> QED  BY <1>1, <1>2

(* One write of the apply.  A route takes the place of the one in its      *)
(* slot: the displaced one was not wanted, because no two wanted routes    *)
(* share a slot.                                                           *)
LEMMA WriteProgramming ==
    ASSUME Programming, ApplyStep
    PROVE  Programming'
<1> USE DEF Programming
<1>0. Shaped /\ OnTheWay /\ config \in Docs
  OBVIOUS
<1>1. ASSUME NEW r \in job.addR, addRoute(r)
      PROVE  Programming'
  <2>1. /\ job # NoJob /\ config' = config
        /\ kern' = [kern EXCEPT !.routes = {q \in kern.routes : ~SameSlot(q, r)} \cup {r}]
        /\ job' = [job EXCEPT !.addR = job.addR \ {r}]
    BY <1>1 DEF addRoute, Write
  <2>2. \A q \in job.want.routes : SameSlot(q, r) => q = r
    BY <1>0, <1>1, <2>1 DEF OnTheWay, RoutesOnTheWay, OnePerSlot
  <2> QED  BY <1>0, <1>1, <2>1, <2>2 DEF Shaped, OnTheWay, RoutesOnTheWay, RulesOnTheWay
<1>2. ASSUME NEW u \in job.addU, addRule(u)
      PROVE  Programming'
  BY <1>0, <1>2 DEF addRule, Write, Shaped, OnTheWay, RoutesOnTheWay, RulesOnTheWay
<1>3. ASSUME applyNFT
      PROVE  Programming'
  BY <1>0, <1>3 DEF applyNFT, Write, Shaped, OnTheWay, RoutesOnTheWay, RulesOnTheWay
<1>4. ASSUME NEW u \in job.delU, delRule(u)
      PROVE  Programming'
  BY <1>0, <1>4 DEF delRule, Installed, Write, Shaped, OnTheWay, RoutesOnTheWay, RulesOnTheWay
<1>5. ASSUME NEW r \in job.delR, delRoute(r)
      PROVE  Programming'
  <2>1. CASE r \in kern.routes
    BY <1>0, <1>5, <2>1
       DEF delRoute, Installed, Write, Shaped, OnTheWay, RoutesOnTheWay, RulesOnTheWay
  <2>2. CASE r \notin kern.routes
    BY <1>5, <2>2, EndsProgramming DEF delRoute
  <2> QED  BY <2>1, <2>2
<1>6. ASSUME NEW s \in job.sys, setSysctl(s)
      PROVE  Programming'
  BY <1>0, <1>6 DEF setSysctl, Installed, Write, Shaped, OnTheWay, RoutesOnTheWay, RulesOnTheWay
<1>7. ASSUME applied
      PROVE  Programming'
  BY <1>7, EndsProgramming DEF applied
<1> QED  BY <1>1, <1>2, <1>3, <1>4, <1>5, <1>6, <1>7 DEF ApplyStep

(* The prober's goroutines write neither the kernel nor the configuration; *)
(* only their report starts an apply.                                      *)
LEMMA ProberProgramming ==
    ASSUME Programming, NEW l \in loops, LoopStep(l) \/ reapplyTimeout(l)
    PROVE  Programming'
<1>1. CASE reapplyGateway(l)
  <2>1. CASE job' = Job("reapply", config, health, l.id)
    BY <1>1, <2>1, JobOnTheWay DEF reapplyGateway, Save, Programming
  <2>2. CASE UNCHANGED job
    BY <1>1, <2>2 DEF reapplyGateway, Save, Programming, Shaped, OnTheWay,
                      RoutesOnTheWay, RulesOnTheWay
  <2> QED  BY <1>1, <2>1, <2>2 DEF reapplyGateway
<1>2. CASE DialThrough(l) \/ check(l) \/ record(l) \/ loopEnds(l) \/ reapplyTimeout(l)
  <2>1. UNCHANGED <<config, kern, job>>
    BY <1>2 DEF DialThrough, check, record, loopEnds, reapplyTimeout, Step
  <2> QED  BY <2>1 DEF Programming, Shaped, OnTheWay, RoutesOnTheWay, RulesOnTheWay
<1> QED  BY <1>1, <1>2 DEF LoopStep

LEMMA NextProgramming == Programming /\ [Next]_vars => Programming'
<1> SUFFICES ASSUME Programming, [Next]_vars
             PROVE  Programming'
  OBVIOUS
<1>0. ASSUME UNCHANGED <<config, kern, job>>
      PROVE  Programming'
  BY <1>0 DEF Programming, Shaped, OnTheWay, RoutesOnTheWay, RulesOnTheWay
<1>1. ASSUME NEW c \in Docs, mutateWith(c)
      PROVE  Programming'
  <2>1. config' = c /\ kern' = kern
    BY <1>1 DEF mutateWith, Save
  <2>2. CASE job' = Job("edit", c, health, 0)
    BY <2>1, <2>2, JobOnTheWay DEF Programming
  <2>3. CASE UNCHANGED job
    BY <2>1, <2>3 DEF Programming, Shaped, OnTheWay, RoutesOnTheWay, RulesOnTheWay
  <2> QED  BY <1>1, <2>2, <2>3 DEF mutateWith
<1>2. ASSUME NEW l \in loops, LoopStep(l) \/ reapplyTimeout(l)
      PROVE  Programming'
  BY <1>2, ProberProgramming
<1>3. CASE ApplyStep
  BY <1>3, WriteProgramming
<1>4. CASE WatchStep
  BY <1>0, <1>4 DEF WatchStep, watchSelect, watchStop, watchReturns, watchStart
<1>5. CASE writeFails
  BY <1>5, EndsProgramming DEF writeFails
<1>6. CASE startGateway
  <2>1. config' = config /\ kern' = kern
    BY <1>6 DEF startGateway
  <2>2. CASE job' = NoJob
    BY <2>1, <2>2 DEF Programming, Shaped, OnTheWay
  <2>3. CASE job' = Job("boot", config, <<>>, 0)
    BY <2>1, <2>3, JobOnTheWay DEF Programming
  <2> QED  BY <1>6, <2>2, <2>3 DEF startGateway
<1>7. ASSUME NEW n \in Networks, Flip(n)
      PROVE  Programming'
  BY <1>0, <1>7 DEF Flip
<1>8. CASE UNCHANGED vars
  BY <1>0, <1>8 DEF vars
<1> QED  BY <1>1, <1>2, <1>3, <1>4, <1>5, <1>6, <1>7, <1>8 DEF Next

(* Every apply of the gateway, at every write, is on its way to the        *)
(* objects Render made: the inductive invariant.                           *)
THEOREM AlwaysOnTheWay == Spec => []Programming
<1> QED  BY InitProgramming, NextProgramming, PTL DEF Spec

(* An apply that has nothing left to write has left exactly the desired    *)
(* routes, rules, tables and settings, whatever an apply that failed half  *)
(* way or a crash had left before it (kernel_linux.go, Apply).             *)
THEOREM AppliesConverge == Spec => []Converged
<1>1. Programming => Converged
  BY DEF Programming, OnTheWay, RoutesOnTheWay, RulesOnTheWay, Converged, Installed, Settled
<1> QED  BY <1>1, AlwaysOnTheWay, PTL
=============================================================================
