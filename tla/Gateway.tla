------------------------------ MODULE Gateway ------------------------------
(***************************************************************************)
(* The gateway inside the daemon: edits and re-applies that write the      *)
(* kernel one object at a time under the apply lock                        *)
(* (internal/gateway/http.go, apply.go, kernel_linux.go), and the prober   *)
(* whose verdicts are an input of Render and the cause of re-applies       *)
(* (probe.go, probe_linux.go, reapplyGateway and startGateway in           *)
(* internal/daemon/daemon.go).                                             *)
(*                                                                         *)
(* Packets cross the kernel between any two writes.  A request calls Watch *)
(* after it has let go of the lock, and a probe loop reads, records and    *)
(* reports in separate steps, without the lock until the report.           *)
(***************************************************************************)
EXTENDS GatewayPolicy

LOCAL INSTANCE FiniteSetsExt

CONSTANTS
    Docs,         \* gateway sections an edit may leave in the store, normalised
    Links,        \* interface -> [known, adopted, up, fams], fixed here
    Flows,        \* the packets looked at, with the mark of their connection
    Names,        \* exit names
    Threshold,    \* Probe.Failures and Probe.Successes
    Handlers,     \* bound: requests between their unlock and their answer
    MaxEdits, MaxFlips, MaxFaults   \* bounds on edits, exits failing, faults

ASSUME DocsAssumption == \A c \in Docs : Normalize(c) = c /\ Validate(c, Links)

VARIABLES
    config,       \* the stored section
    kern,         \* [table, rules, routes, sysctls]: what the kernel holds
    job,          \* the apply that holds the lock, or NoJob
    health, streaks, cancels,   \* the Prober's maps
    loops,        \* probe goroutines: [id, name, mark, live, pc, ok]
    watches,      \* Watch calls under way: [id, cfg, pc, stop, start]
    alive,        \* whether an exit really forwards traffic
    booting,      \* startGateway has not finished
    owner,        \* slot -> exits whose traffic the kernel may mark with it
    edits, flips, faults

vars == <<config, kern, job, health, streaks, cancels, loops, watches, alive,
          booting, owner, edits, flips, faults>>

NoJob == [who |-> "none"]

renderSysctls(c) ==
    IF ~c.enabled THEN {}
    ELSE {<<"ip_forward">>} \cup
         {<<"redirects", e.via.on>> : e \in {x \in UsedExits(c) : x.via.kind = "next_hop"}}

Desired(c, h) ==
    LET d == Render(c, Links, h)
    IN  [table |-> d.table, rules |-> d.rules, routes |-> d.routes, sysctls |-> renderSysctls(c)]

(* The plan is empty when the observed lines and settings are the desired. *)
Settled(k, d) ==
    k.table = d.table /\ k.rules = d.rules /\ k.routes = d.routes /\ d.sysctls \subseteq k.sysctls

(* Mutant of diffRoutes: routes that are no longer wanted stay.            *)
KeepsStale(have, want) == [add |-> want \ have, del |-> {}]

diffRoutes(have, want) == [add |-> want \ have, del |-> have \ want]
diffRules(have, want) == [add |-> want \ have, del |-> have \ want]

(* An apply that has saved its configuration and has these writes to make. *)
Job(who, c, h, extra) ==
    LET d == Desired(c, h)
        r == diffRoutes(kern.routes, d.routes)
        u == diffRules(kern.rules, d.rules)
    IN  [who |-> who, cfg |-> c, want |-> d, loop |-> extra,
         addR |-> r.add, addU |-> u.add, nft |-> TRUE, delU |-> u.del, delR |-> r.del,
         sys |-> d.sysctls \ kern.sysctls]

SlotOwners(c) ==
    [s \in 1..MaxSlot |-> {e.name : e \in {x \in UsedExits(c) : c.enabled /\ x.slot = s}}]

WatchOf(id, c) == [id |-> id, cfg |-> c, pc |-> "select", stop |-> {}, start |-> {}]

Watched(c) ==
    {n \in Names : Find(c, n) # {} /\ InUse(c, n) /\ Exit(c, n).probe
                   /\ Exit(c, n).via.kind # "blocked"}

NewId == CHOOSE i \in 1..(Cardinality(loops) + 1) : \A l \in loops : l.id # i
LoopOf(id, e) == [id |-> id, name |-> e.name, mark |-> e.slot, live |-> TRUE,
                  pc |-> "wait", ok |-> FALSE]

-----------------------------------------------------------------------------
(* The end of an apply.  A request that succeeded goes on to call Watch; a *)
(* re-apply returns to its probe loop; startGateway calls Watch whatever   *)
(* the apply returned, and nothing else runs yet.                          *)
Ends(j, k, ok) ==
    /\ job' = NoJob
    /\ owner' = IF ok THEN SlotOwners(j.cfg) ELSE owner
    /\ CASE j.who = "edit" ->
              /\ watches' = IF ok THEN watches \cup {WatchOf(edits, j.cfg)} ELSE watches
              /\ UNCHANGED <<health, streaks, cancels, loops, booting>>
         [] j.who = "reapply" ->
              /\ loops' = {IF l.id = j.loop THEN [l EXCEPT !.pc = "wait"] ELSE l : l \in loops}
              /\ UNCHANGED <<health, streaks, cancels, watches, booting>>
         [] j.who = "boot" ->
              LET order == CHOOSE f \in [Watched(j.cfg) -> 1..Cardinality(Names)] :
                              \A a, b \in Watched(j.cfg) : a < b => f[a] < f[b]
              IN  /\ booting' = FALSE
                  /\ health' = [n \in Watched(j.cfg) |-> TRUE]
                  /\ streaks' = [n \in Watched(j.cfg) |-> 0]
                  /\ cancels' = order
                  /\ loops' = {LoopOf(order[n], Exit(j.cfg, n)) : n \in Watched(j.cfg)}
                  /\ UNCHANGED watches
    /\ kern' = k
    /\ UNCHANGED <<config, alive, edits, flips>>

(* mutateWith up to the first kernel write: load, edit, validate, observe, *)
(* plan with the verdicts of this moment, save.  An edit whose plan is     *)
(* empty is stored and done.                                               *)
Save(c) ==
    /\ config' = c
    /\ owner' = [s \in 1..MaxSlot |-> owner[s] \cup SlotOwners(c)[s]]

mutateWith(c) ==
    /\ job = NoJob /\ ~booting /\ edits < MaxEdits /\ Cardinality(watches) < Handlers
    /\ c # config
    /\ Save(c)
    /\ edits' = edits + 1
    /\ IF Settled(kern, Desired(c, health))
       THEN watches' = watches \cup {WatchOf(edits + 1, c)} /\ UNCHANGED job
       ELSE job' = Job("edit", c, health, 0) /\ UNCHANGED watches
    /\ UNCHANGED <<kern, health, streaks, cancels, loops, alive, booting, flips, faults>>

(* reapplyGateway, once it has the lock.                                   *)
reapplyGateway(l) ==
    /\ job = NoJob /\ l \in loops /\ l.pc = "report"
    /\ Save(config)
    /\ IF Settled(kern, Desired(config, health))
       THEN /\ loops' = (loops \ {l}) \cup {[l EXCEPT !.pc = "wait"]}
            /\ UNCHANGED job
       ELSE job' = Job("reapply", config, health, l.id) /\ UNCHANGED loops
    /\ UNCHANGED <<kern, health, streaks, cancels, watches, alive, booting,
                   edits, flips, faults>>

(* Thirty seconds without the lock: the verdict is logged and dropped.     *)
reapplyTimeout(l) ==
    /\ job # NoJob /\ faults < MaxFaults /\ l \in loops /\ l.pc = "report" /\ job.loop # l.id
    /\ loops' = (loops \ {l}) \cup {[l EXCEPT !.pc = "wait"]}
    /\ faults' = faults + 1
    /\ UNCHANGED <<config, kern, job, health, streaks, cancels, watches, alive,
                   booting, owner, edits, flips>>

(* A crash of the daemon: the kernel keeps what it holds.  startGateway    *)
(* applies the stored configuration with no verdicts, unless it is empty   *)
(* and off.                                                                *)
startGateway ==
    /\ faults < MaxFaults
    /\ faults' = faults + 1
    /\ health' = <<>> /\ streaks' = <<>> /\ cancels' = <<>> /\ loops' = {} /\ watches' = {}
    /\ IF Empty(config) /\ ~config.enabled
       THEN booting' = FALSE /\ job' = NoJob /\ UNCHANGED owner
       ELSE /\ booting' = TRUE
            /\ job' = Job("boot", config, <<>>, 0)
            /\ owner' = [s \in 1..MaxSlot |-> owner[s] \cup SlotOwners(config)[s]]
    /\ UNCHANGED <<config, kern, alive, edits, flips>>

-----------------------------------------------------------------------------
(* LinuxKernel.Apply, one write at a time: routes, rules, the nftables     *)
(* tables in one transaction, then what is no longer wanted, then sysctls. *)
(* The order among routes, or among rules, is a map's.                     *)
Write(k, j) ==
    /\ kern' = k
    /\ job' = j
    /\ UNCHANGED <<config, health, streaks, cancels, loops, watches, alive, booting,
                   owner, edits, flips, faults>>

SameSlot(r, q) == r.table = q.table /\ r.fam = q.fam /\ r.metric = q.metric

addRoute(r) ==
    /\ job # NoJob /\ r \in job.addR
    /\ Write([kern EXCEPT !.routes = {q \in @ : ~SameSlot(q, r)} \cup {r}],
             [job EXCEPT !.addR = @ \ {r}])

addRule(u) ==
    /\ job # NoJob /\ job.addR = {} /\ u \in job.addU
    /\ Write([kern EXCEPT !.rules = @ \cup {u}], [job EXCEPT !.addU = @ \ {u}])

(* Mutant of applyNFT: packets are marked before the rules exist.          *)
MarksFirst ==
    /\ job # NoJob /\ job.nft
    /\ Write([kern EXCEPT !.table = job.want.table], [job EXCEPT !.nft = FALSE])

(* applyNFT and applyStat each replace their table in one transaction.     *)
applyNFT ==
    /\ job # NoJob /\ job.addR = {} /\ job.addU = {} /\ job.nft
    /\ Write([kern EXCEPT !.table = job.want.table], [job EXCEPT !.nft = FALSE])

Installed == job # NoJob /\ job.addR = {} /\ job.addU = {} /\ ~job.nft

delRule(u) ==
    /\ Installed /\ u \in job.delU
    /\ Write([kern EXCEPT !.rules = @ \ {u}], [job EXCEPT !.delU = @ \ {u}])

(* RouteDel of a route that a replace has already taken the place of finds *)
(* nothing (ESRCH), and the apply returns that error.                      *)
delRoute(r) ==
    /\ Installed /\ job.delU = {} /\ r \in job.delR
    /\ IF r \in kern.routes
       THEN Write([kern EXCEPT !.routes = @ \ {r}], [job EXCEPT !.delR = @ \ {r}])
       ELSE Ends(job, kern, FALSE) /\ UNCHANGED faults

setSysctl(s) ==
    /\ Installed /\ job.delU = {} /\ job.delR = {} /\ s \in job.sys
    /\ Write([kern EXCEPT !.sysctls = @ \cup {s}], [job EXCEPT !.sys = @ \ {s}])

applied ==
    /\ Installed /\ job.delU = {} /\ job.delR = {} /\ job.sys = {}
    /\ Ends(job, kern, TRUE)
    /\ UNCHANGED faults

(* A write the kernel refuses ends the apply where it is.                  *)
writeFails ==
    /\ job # NoJob /\ faults < MaxFaults
    /\ faults' = faults + 1
    /\ Ends(job, kern, FALSE)

-----------------------------------------------------------------------------
(* Prober.Watch.  Under its mutex it forgets the exits it is no longer to  *)
(* probe and picks the ones to start; it cancels and starts afterwards.    *)
watchSelect(w) ==
    /\ w \in watches /\ w.pc = "select"
    /\ LET want == Watched(w.cfg)
           gone == DOMAIN cancels \ want
           new  == want \ DOMAIN cancels
           keep == (DOMAIN health \ gone) \cup new
       IN  /\ cancels' = Restrict0(cancels, DOMAIN cancels \ gone)
           /\ health' = [n \in keep |-> IF n \in new THEN TRUE ELSE health[n]]
           /\ streaks' = [n \in (DOMAIN streaks \ gone) \cup new |->
                             IF n \in new THEN 0 ELSE streaks[n]]
           /\ watches' = (watches \ {w}) \cup
                {[w EXCEPT !.pc = "start", !.stop = {cancels[n] : n \in gone}, !.start = new]}
    /\ UNCHANGED <<config, kern, job, loops, alive, booting, owner, edits, flips, faults>>

watchStop(w) ==
    /\ w \in watches /\ w.pc = "start" /\ w.stop # {}
    /\ loops' = {IF l.id \in w.stop THEN [l EXCEPT !.live = FALSE] ELSE l : l \in loops}
    /\ watches' = (watches \ {w}) \cup {[w EXCEPT !.stop = {}]}
    /\ UNCHANGED <<config, kern, job, health, streaks, cancels, alive, booting, owner,
                   edits, flips, faults>>

watchStart(w, n) ==
    /\ w \in watches /\ w.pc = "start" /\ w.stop = {} /\ n \in w.start
    /\ cancels' = Put(cancels, n, NewId)
    /\ loops' = loops \cup {LoopOf(NewId, Exit(w.cfg, n))}
    /\ watches' = (watches \ {w}) \cup {[w EXCEPT !.start = @ \ {n}]}
    /\ UNCHANGED <<config, kern, job, health, streaks, alive, booting, owner,
                   edits, flips, faults>>

watchReturns(w) ==
    /\ w \in watches /\ w.pc = "start" /\ w.stop = {} /\ w.start = {}
    /\ watches' = watches \ {w}
    /\ UNCHANGED <<config, kern, job, health, streaks, cancels, loops, alive, booting,
                   owner, edits, flips, faults>>

-----------------------------------------------------------------------------
(* One probe loop.                                                         *)
Step(l, m) ==
    /\ loops' = (loops \ {l}) \cup m
    /\ UNCHANGED <<config, kern, job, cancels, watches, alive, booting, owner,
                   edits, flips, faults>>

(* The far end answers through the exit the kernel sends the probe to, and *)
(* through the box's own path always.                                      *)
Reaches(mark) ==
    LET f == Lookup(kern, [fam |-> 4, dst |-> "target"], mark)
    IN  \/ f = Main
        \/ f \notin {Main, Unreached, Box} /\ alive[f[2]]

(* DialThrough: a socket that carries the mark of the exit is routed as a  *)
(* forwarded packet with that mark would be.                               *)
DialThrough(l) ==
    /\ l \in loops /\ l.pc = "wait" /\ l.live
    /\ Step(l, {[l EXCEPT !.pc = "dialed", !.ok = Reaches(l.mark)]})
    /\ UNCHANGED <<health, streaks>>

(* check looks at its context once, before it records.                     *)
check(l) ==
    /\ l \in loops /\ l.pc = "dialed"
    /\ Step(l, {[l EXCEPT !.pc = IF l.live THEN "record" ELSE "wait"]})
    /\ UNCHANGED <<health, streaks>>

(* Mutant of record: a verdict that comes after a restart of the streak is *)
(* kept but not reported.                                                  *)
RecordsQuietly(l) ==
    /\ l \in loops /\ l.pc = "record"
    /\ health' = Put(health, l.name, l.ok)
    /\ streaks' = Put(streaks, l.name, 0)
    /\ Step(l, {[l EXCEPT !.pc = "wait"]})

record(l) ==
    /\ l \in loops /\ l.pc = "record"
    /\ LET was == IF l.name \in DOMAIN health THEN health[l.name] ELSE TRUE
           streak == IF l.name \in DOMAIN streaks THEN streaks[l.name] + 1 ELSE 1
           flip == l.ok # was /\ streak >= Threshold
       IN  /\ streaks' = Put(streaks, l.name, IF l.ok = was \/ flip THEN 0 ELSE streak)
           /\ health' = IF flip THEN Put(health, l.name, l.ok) ELSE health
           /\ Step(l, {[l EXCEPT !.pc = IF flip THEN "report" ELSE "wait"]})

loopEnds(l) ==
    /\ l \in loops /\ l.pc = "wait" /\ ~l.live
    /\ Step(l, {})
    /\ UNCHANGED <<health, streaks>>

(* External: what an exit is attached to stops or starts forwarding.       *)
Flip(on) ==
    /\ flips < MaxFlips
    /\ alive' = [alive EXCEPT ![on] = ~@]
    /\ flips' = flips + 1
    /\ UNCHANGED <<config, kern, job, health, streaks, cancels, loops, watches, booting,
                   owner, edits, faults>>

Init ==
    \E c \in Docs :
        /\ config = c
        /\ kern = [table |-> NoTable, rules |-> {}, routes |-> {}, sysctls |-> {}]
        /\ health = <<>> /\ streaks = <<>> /\ cancels = <<>> /\ loops = {} /\ watches = {}
        /\ alive = [n \in Networks |-> TRUE]
        /\ owner = SlotOwners(c)
        /\ IF Empty(c) /\ ~c.enabled THEN booting = FALSE /\ job = NoJob
           ELSE booting = TRUE /\ job = Job("boot", c, <<>>, 0)
        /\ edits = 0 /\ flips = 0 /\ faults = 0

ApplyStep ==
    \/ job # NoJob /\ \E r \in job.addR : addRoute(r)
    \/ job # NoJob /\ \E u \in job.addU : addRule(u)
    \/ applyNFT
    \/ job # NoJob /\ \E u \in job.delU : delRule(u)
    \/ job # NoJob /\ \E r \in job.delR : delRoute(r)
    \/ job # NoJob /\ \E s \in job.sys : setSysctl(s)
    \/ applied

WatchStep ==
    \E w \in watches : watchSelect(w) \/ watchStop(w) \/ watchReturns(w)
                       \/ \E n \in w.start : watchStart(w, n)

LoopStep(l) == DialThrough(l) \/ check(l) \/ record(l) \/ reapplyGateway(l) \/ loopEnds(l)

Next ==
    \/ \E c \in Docs : mutateWith(c)
    \/ \E l \in loops : LoopStep(l) \/ reapplyTimeout(l)
    \/ ApplyStep \/ WatchStep \/ writeFails \/ startGateway
    \/ \E n \in Networks : Flip(n)

Spec == Init /\ [][Next]_vars

(* The kernel answers every write, a goroutine that can run does, and the  *)
(* lock is granted to every waiter in the end.                             *)
LoopOfId(i) == \E l \in loops : l.id = i /\ LoopStep(l)
Fairness == /\ WF_vars(ApplyStep) /\ WF_vars(WatchStep)
            /\ \A i \in 1..(2 * Cardinality(Names)) : SF_vars(LoopOfId(i))
LiveSpec == Spec /\ Fairness

-----------------------------------------------------------------------------
(* A kernel write moves a packet only to where the finished apply will     *)
(* send it, to the exit the new configuration chose for it, or nowhere: no *)
(* intermediate state leaks it to main or to a third path, which is what   *)
(* the order of kernel.go:96-112 is for.  It is not promised to an edit    *)
(* that gives one exit the slot another may still be using.                *)
MovesToDesired ==
    [][ (job # NoJob /\ kern' # kern /\ \A s \in 1..MaxSlot : Cardinality(owner[s]) <= 1)
        => \A f \in Flows :
              Fate(kern', f) # Fate(kern, f) =>
                  Fate(kern', f) \in {Fate(job.want, f), Fate(Desired(job.cfg, <<>>), f),
                                      Unreached} ]_vars

(* An apply with nothing left to write has left exactly the desired        *)
(* objects, whatever a failed apply or a crash left before it              *)
(* (kernel_linux.go:1075-1163).                                            *)
Converged ==
    (Installed /\ job.delU = {} /\ job.delR = {} /\ job.sys = {}) => Settled(kern, job.want)

(* With no fault, an exit the prober holds for down stops being routed to: *)
(* a verdict recorded while another apply is between its plan and its      *)
(* writes is still programmed (probe.go:194, daemon.go:1821).              *)
RoutedTo(n) ==
    /\ config.enabled /\ Find(config, n) # {} /\ InUse(config, n)
    /\ \E r \in kern.routes : r.table = Exit(config, n).slot /\ r.type = "via"

VerdictProgrammed ==
    \A n \in Names :
        (faults = 0 /\ Down(health, n)) ~> (faults > 0 \/ ~Down(health, n) \/ ~RoutedTo(n))

(* An exit that forwards traffic for good, and stays watched, is taken for *)
(* up again: "coming back takes Successes" (probe.go:204).                 *)
Recovers ==
    \A n \in Names :
        <>[](n \in Watched(config) /\ n \in DOMAIN cancels /\ alive[Exit(config, n).via.on])
        => []<>(~Down(health, n))
=============================================================================
