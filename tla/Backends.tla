------------------------------ MODULE Backends ------------------------------
(***************************************************************************)
(* The modules that render files and drive systemd units, dns and dhcp:    *)
(* plan, ordered apply (internal/{dhcp,dns}/{plan,apply}.go), the start    *)
(* sequence's startDNS, and the watch that starts a backend intent says    *)
(* should be running (internal/daemon/supervise.go).                       *)
(*                                                                         *)
(* Whoever applies holds the apply lock; `op' is its program counter.      *)
(* systemd, an operator in a shell and the daemons themselves take no      *)
(* lock and act between any two of its steps.  A unit's rendered files are *)
(* one text; a unit that runs has loaded the text it last read.            *)
(***************************************************************************)
EXTENDS Naturals, SequencesExt

CONSTANTS
  Modules,      \* the supervised modules
  UnitsOf,      \* each module's units, in the order they come up
  Reloadable,   \* units that re-read their files on reload
  Rerendered,   \* modules re-rendered when the daemon starts
  Texts,        \* contents intent renders
  Edited,       \* contents nobody's intent renders
  GiveUpAfter,  \* giveUpAfter
  Faults,       \* subset of FaultKinds
  MaxApplies,   \* bound: requests
  MaxEvents,    \* bound: things systemd, a shell or a daemon does
  MaxFaults     \* bound: faults

FaultKinds ==
  { "read",    \* a file or the store cannot be read
    "bus",     \* systemd does not say what a unit is doing
    "store",   \* intent cannot be stored
    "write",   \* a rendered file cannot be written
    "refuse",  \* the unit is not installed, its port is taken, the bus fails
    "act",     \* start, stop, reload or restart fails, or the unit dies
    "crash" }  \* the daemon is killed

Units == UNION {ToSet(UnitsOf[b]) : b \in Modules}

\* No two modules share a unit, and no module lists one twice.
ASSUME DistinctUnitsAssumption ==
  /\ \A b, c \in Modules : b # c => ToSet(UnitsOf[b]) \cap ToSet(UnitsOf[c]) = {}
  /\ \A b \in Modules : \A i, j \in DOMAIN UnitsOf[b] : i < j => UnitsOf[b][i] # UnitsOf[b][j]

VARIABLES
  intent,    \* stored configuration of each module
  file,      \* rendered text on disk, of each unit
  state,     \* systemd's ActiveState, of each unit
  loaded,    \* text a running unit has read
  boot,      \* units enabled at boot
  op,        \* the holder of the apply lock and its next step
  starting,  \* modules the start sequence has still to look at
  watch,     \* superviseBackends: where it is, the module, the rest of the tick
  attempts,  \* superviseBackends: attempts since last seen healthy
  settled,   \* ghost: modules whose last apply succeeded, undisturbed since
  late,      \* ghost: units touched since the lock holder last looked, or
             \* that systemd did not tell it about
  applies, events, budget   \* bounds

vars == <<intent, file, state, loaded, boot, op, starting, watch, attempts,
          settled, late, applies, events, budget>>

box == <<file, state, loaded, boot>>

UnitSet(b) == ToSet(UnitsOf[b])
Docs(b) == [on : BOOLEAN, text : [UnitSet(b) -> Texts]]
Contents == Texts \cup {Edited}

Fault(f) == f \in Faults /\ budget > 0 /\ budget' = budget - 1
NoFault == UNCHANGED budget

-----------------------------------------------------------------------------
(* Planning: BuildPlan against what is observed. *)

\* Fault variant of ServiceAction: only a changed file makes work.
ServiceActionOfFiles(on, run, activating, changed, reloadOnly) ==
  IF ~changed THEN "none"
  ELSE IF on /\ ~run THEN "start"
  ELSE IF ~on THEN IF run THEN "stop" ELSE "none"
  ELSE IF reloadOnly THEN "reload" ELSE "restart"

ServiceAction(on, run, activating, changed, reloadOnly) ==
  IF on /\ ~run THEN IF activating THEN "none" ELSE "start"
  ELSE IF ~on THEN IF run THEN "stop" ELSE "none"
  ELSE IF ~changed THEN "none"
  ELSE IF reloadOnly THEN "reload" ELSE "restart"

Changed(d, u) == file[u] # d.text[u]

\* `dark' is the set of units whose status systemd did not give: they are
\* taken not to run and not to start.
ActionFor(d, u, dark) ==
  ServiceAction(d.on, u \notin dark /\ state[u] = "running",
                u \notin dark /\ state[u] = "activating",
                Changed(d, u), u \in Reloadable)

\* What an observation sees: every unit, or not all of them.
Observed(b, dark) ==
  \/ dark = {} /\ NoFault
  \/ dark \in (SUBSET UnitSet(b) \ {{}}) /\ Fault("bus")

\* serviceOrder: the plan's units in the order they come up, and in reverse
\* when one is to stop.  It is `u's turn when no unit with work left is before it.
Precedes(b, u, v) ==
  \E i, j \in DOMAIN UnitsOf[b] : i < j /\ UnitsOf[b][i] = u /\ UnitsOf[b][j] = v
ServiceOrder(b, plan, u) ==
  LET stopping == \E v \in UnitSet(b) : plan.action[v] = "stop"
  IN  \A v \in plan.work \ {u} : IF stopping THEN ~Precedes(b, u, v) ELSE ~Precedes(b, v, u)

\* BuildPlan: whether a unit whose status is unknown starts at boot is let be.
PlanFor(b, d, dark) ==
  [changes |-> {u \in UnitSet(b) : Changed(d, u)},
   enable  |-> {u \in UnitSet(b) \ dark : boot[u] # d.on},
   work    |-> {u \in UnitSet(b) : ActionFor(d, u, dark) # "none"},
   action  |-> [u \in UnitSet(b) |-> ActionFor(d, u, dark)]]

NoPlan == [changes |-> {}, enable |-> {}, work |-> {}, action |-> <<>>]

\* plan.StartsABackend, plan.RewritesFiles and Impact >= ImpactDisruptive.
StartsABackend(b, d, dark) ==
  \E u \in UnitSet(b) : ActionFor(d, u, dark) = "start"
RewritesFiles(b, d) == \E u \in UnitSet(b) : Changed(d, u)
Disruptive(b, d, dark) ==
  \E u \in UnitSet(b) : ActionFor(d, u, dark) = "stop"

StartIsTheWholeJob(b, d, dark) ==
  StartsABackend(b, d, dark) /\ ~RewritesFiles(b, d) /\ ~Disruptive(b, d, dark)

\* backend.pending.
Pending(b, dark) == intent[b].on /\ StartIsTheWholeJob(b, intent[b], dark)

-----------------------------------------------------------------------------
Free == [who |-> "free", stage |-> "free", b |-> "none", doc |-> <<>>,
         plan |-> NoPlan]
Holding(who, b, d) ==
  [who |-> who, stage |-> "plan", b |-> b, doc |-> d, plan |-> NoPlan]
At(st) == op.stage = st
Go(st) == op' = [op EXCEPT !.stage = st]

WatchIdle == [pc |-> "idle", b |-> "none", todo |-> {}]

Init ==
  /\ intent \in [Modules -> UNION {Docs(b) : b \in Modules}]
  /\ \A b \in Modules : intent[b] \in Docs(b) /\ ~intent[b].on
  /\ file = [u \in Units |-> CHOOSE t \in Texts : TRUE]
  /\ \A b \in Modules : \A u \in UnitSet(b) : intent[b].text[u] = file[u]
  /\ state = [u \in Units |-> "stopped"]
  /\ loaded = file
  /\ boot = [u \in Units |-> FALSE]
  /\ op = Free
  /\ starting = {}
  /\ watch = WatchIdle
  /\ attempts = [b \in Modules |-> 0]
  /\ settled = {} /\ late = {}
  /\ applies = 0 /\ events = 0 /\ budget = MaxFaults

-----------------------------------------------------------------------------
(* Who applies. *)

\* A request: PATCH, PUT or POST /apply takes the lock.
Request(b, d) ==
  /\ op = Free /\ starting = {}
  /\ applies < MaxApplies /\ applies' = applies + 1
  /\ op' = Holding("request", b, d)
  /\ UNCHANGED <<intent, box, starting, watch, attempts, settled, late, events,
                 budget>>

\* startDNS, before anything is served: re-render a module that is switched on
\* if a file or a unit is not as intent says and putting it back stops nothing.
StartModule(b) ==
  /\ op = Free /\ b \in starting
  /\ starting' = starting \ {b}
  /\ \/ \E dark \in SUBSET UnitSet(b) :
          /\ Observed(b, dark)
          /\ LET restores == /\ intent[b].on
                             /\ \/ RewritesFiles(b, intent[b])
                                \/ StartsABackend(b, intent[b], dark)
                             /\ ~Disruptive(b, intent[b], dark)
             IN  op' = IF restores THEN Holding("startup", b, intent[b]) ELSE op
     \/ Fault("read") /\ UNCHANGED op
  /\ UNCHANGED <<intent, box, watch, attempts, settled, late, applies, events>>

-----------------------------------------------------------------------------
(* superviseBackends. *)

\* The ticker fires.
Tick ==
  /\ watch = WatchIdle /\ starting = {}
  /\ watch' = [pc |-> "poll", b |-> "none", todo |-> Modules]
  /\ UNCHANGED <<intent, box, op, starting, attempts, settled, late, applies,
                 events, budget>>

\* On to the tick's next module.
Onward(todo) ==
  watch' = IF todo = {} THEN WatchIdle
           ELSE [pc |-> "poll", b |-> "none", todo |-> todo]

\* Fault variant of Poll: one attempt is all a backend gets.
PollOnce(b) ==
  /\ watch.pc = "poll" /\ b \in watch.todo
  /\ IF Pending(b, {}) /\ attempts[b] = 0
       THEN /\ watch' = [pc |-> "hinted", b |-> b, todo |-> watch.todo \ {b}]
            /\ UNCHANGED attempts
       ELSE /\ Onward(watch.todo \ {b})
            /\ attempts' = IF Pending(b, {}) THEN attempts
                                         ELSE [attempts EXCEPT ![b] = 0]
  /\ UNCHANGED <<intent, box, op, starting, settled, late, applies, events,
                 budget>>

\* The poll, without the lock: a hint.
Poll(b) ==
  /\ watch.pc = "poll" /\ b \in watch.todo
  /\ \/ \E dark \in SUBSET UnitSet(b) :
          /\ Observed(b, dark)
          /\ \/ /\ Pending(b, dark) /\ attempts[b] < GiveUpAfter
                /\ watch' = [pc |-> "hinted", b |-> b, todo |-> watch.todo \ {b}]
                /\ UNCHANGED attempts
             \/ /\ Pending(b, dark) /\ attempts[b] >= GiveUpAfter
                /\ Onward(watch.todo \ {b})
                /\ UNCHANGED attempts
             \/ /\ ~Pending(b, dark)
                /\ Onward(watch.todo \ {b})
                /\ attempts' = [attempts EXCEPT ![b] = 0]
     \/ /\ Fault("read")
        /\ Onward(watch.todo \ {b})
        /\ UNCHANGED attempts
  /\ UNCHANGED <<intent, box, op, starting, settled, late, applies, events>>

\* Fault variant of Recover: the hint is believed.
RecoverOnHint ==
  /\ watch.pc = "hinted" /\ op = Free
  /\ op' = Holding("watch", watch.b, intent[watch.b])
  /\ watch' = [watch EXCEPT !.pc = "applying"]
  /\ late' = {}
  /\ UNCHANGED <<intent, box, starting, attempts, settled, applies, events,
                 budget>>

\* recoverBackend: the lock, the recheck, and start's fresh read of intent.
Recover ==
  /\ watch.pc = "hinted" /\ op = Free
  /\ \/ \E dark \in SUBSET UnitSet(watch.b) :
          /\ Observed(watch.b, dark)
          /\ \/ /\ Pending(watch.b, dark)
                /\ op' = Holding("watch", watch.b, intent[watch.b])
                /\ watch' = [watch EXCEPT !.pc = "applying"]
                /\ late' = dark
                /\ UNCHANGED attempts
             \/ /\ ~Pending(watch.b, dark)
                /\ attempts' = [attempts EXCEPT ![watch.b] = 0]
                /\ Onward(watch.todo)
                /\ UNCHANGED <<op, late>>
     \/ /\ Fault("read")
        /\ Onward(watch.todo)
        /\ UNCHANGED <<attempts, op, late>>
  /\ UNCHANGED <<intent, box, starting, settled, applies, events>>

\* The end of an apply, whoever made it: the lock is released and the watch
\* counts its attempt, successful or not.
Release ==
  /\ op' = Free
  /\ IF op.who = "watch"
       THEN /\ attempts' = [attempts EXCEPT ![op.b] = @ + 1]
            /\ Onward(watch.todo)
       ELSE UNCHANGED <<attempts, watch>>

Failed == Release /\ settled' = settled \ {op.b}

\* Success; a unit that was touched meanwhile is not known to be as planned.
Succeeded ==
  /\ Release
  /\ settled' = IF late \cap UnitSet(op.b) = {} THEN settled \cup {op.b}
                                               ELSE settled \ {op.b}

Continue(st) == Go(st) /\ UNCHANGED <<attempts, watch, settled>>

-----------------------------------------------------------------------------
(* ApplyChecked. *)

\* Observe and BuildPlan.  A plan that cannot be made, and one that the gate
\* holds for the client to confirm, changes nothing.
Plan ==
  /\ At("plan")
  /\ \/ \E dark \in SUBSET UnitSet(op.b) :
          /\ Observed(op.b, dark)
          /\ op' = [[op EXCEPT !.plan = PlanFor(op.b, op.doc, dark)] EXCEPT !.stage = "store"]
          /\ late' = IF op.who = "watch" THEN late \cup dark ELSE dark
          /\ UNCHANGED <<attempts, watch, settled>>
     \/ /\ Fault("read") \/ (op.who = "request" /\ NoFault)
        /\ Release
        /\ UNCHANGED <<settled, late>>
  /\ UNCHANGED <<intent, box, starting, applies, events>>

\* plan.nothingToDo.
NothingToDo ==
  op.plan.changes = {} /\ op.plan.enable = {} /\ op.plan.work = {}

\* Intent is stored first; an empty plan ends there.
Store ==
  /\ At("store")
  /\ \/ /\ intent' = [intent EXCEPT ![op.b] = op.doc]
        /\ NoFault
        /\ IF NothingToDo
             THEN Succeeded
             ELSE /\ Go("write") /\ settled' = settled \ {op.b}
                  /\ UNCHANGED <<attempts, watch>>
     \/ Fault("store") /\ Release /\ UNCHANGED <<intent, settled>>
  /\ UNCHANGED <<box, starting, late, applies, events>>

\* The changed files, one after the other.
Write ==
  /\ At("write")
  /\ \/ /\ op.plan.changes = {} /\ Continue("check")
        /\ NoFault /\ UNCHANGED file
     \/ \E u \in op.plan.changes :
          /\ file' = [file EXCEPT ![u] = op.doc.text[u]]
          /\ op' = [op EXCEPT !.plan.changes = @ \ {u}]
          /\ NoFault /\ UNCHANGED <<attempts, watch, settled>>
     \/ op.plan.changes # {} /\ Fault("write") /\ Failed /\ UNCHANGED file
  /\ UNCHANGED <<intent, state, loaded, boot, starting, late, applies, events>>

\* checkInstalled and the port check, then enable or disable at boot.  A unit
\* that is to be started and runs after all holds its port itself.
Check ==
  /\ At("check")
  /\ \/ /\ boot' = [u \in Units |-> IF u \in op.plan.enable THEN op.doc.on
                                                            ELSE boot[u]]
        /\ Continue("act") /\ NoFault
     \/ /\ \/ Fault("refuse")
           \/ /\ \E u \in UnitSet(op.b) :
                   op.plan.action[u] = "start" /\ state[u] = "running"
              /\ NoFault
        /\ \E done \in SUBSET op.plan.enable :
             boot' = [u \in Units |-> IF u \in done THEN op.doc.on ELSE boot[u]]
        /\ Failed
  /\ UNCHANGED <<intent, file, state, loaded, starting, late, applies, events>>

\* The unit states an action ends in, when it works and when it does not.  A
\* unit that is started, or restarted, and verified has read its files.
Acted(u, a) ==
  \/ a = "stop" /\ state' = [state EXCEPT ![u] = "stopped"] /\ UNCHANGED loaded
  \/ a = "reload" /\ state[u] = "running" /\ UNCHANGED state
     /\ loaded' = [loaded EXCEPT ![u] = file[u]]
  \/ a = "start" /\ state[u] = "running" /\ UNCHANGED <<state, loaded>>
  \/ /\ a = "restart" \/ (a = "start" /\ state[u] # "running")
     /\ state' = [state EXCEPT ![u] = "running"]
     /\ loaded' = [loaded EXCEPT ![u] = file[u]]

ActedBadly(u, a) ==
  \/ UNCHANGED <<state, loaded>>
  \/ Acted(u, a)   \* it worked, and the client hung up before it was verified
  \/ /\ a \in {"start", "restart"}
     /\ \E s \in {"activating", "stopped"} : state' = [state EXCEPT ![u] = s]
     /\ UNCHANGED loaded

\* The unit actions, in order, each verified; the first failure ends the apply.
Act ==
  /\ At("act")
  /\ \/ /\ op.plan.work = {}
        /\ Succeeded /\ NoFault /\ UNCHANGED <<state, loaded>>
     \/ \E u \in op.plan.work :
          LET a == op.plan.action[u]
          IN  /\ ServiceOrder(op.b, op.plan, u)
              /\ \/ /\ Acted(u, a)
                    /\ op' = [op EXCEPT !.plan.work = @ \ {u}]
                    /\ NoFault /\ UNCHANGED <<attempts, watch, settled>>
                 \/ /\ ActedBadly(u, a)
                    /\ Failed
                    /\ Fault("act") \/ (a = "reload" /\ state[u] # "running" /\ NoFault)
  /\ UNCHANGED <<intent, file, boot, starting, late, applies, events>>

-----------------------------------------------------------------------------
(* systemd, a shell, the daemons, and crashes. *)

Owner(u) == {b \in Modules : u \in UnitSet(b)}

Event(u) ==
  /\ events < MaxEvents /\ events' = events + 1
  /\ late' = late \cup {u}
  /\ settled' = settled \ Owner(u)
  /\ UNCHANGED <<intent, boot, op, starting, watch, attempts, applies, budget>>

\* A unit dies (systemd may bring it back), or is stopped in a shell.
Die(u) ==
  /\ state[u] # "stopped"
  /\ \E s \in {"activating", "stopped"} \ {state[u]} :
       state' = [state EXCEPT ![u] = s]
  /\ Event(u) /\ UNCHANGED <<file, loaded>>

\* A rendered file is edited by hand.
HandEdit(u) ==
  /\ file[u] # Edited
  /\ file' = [file EXCEPT ![u] = Edited]
  /\ Event(u) /\ UNCHANGED <<state, loaded>>

\* systemd finishes bringing a unit up.
ComeUp(u) ==
  /\ state[u] = "activating"
  /\ state' = [state EXCEPT ![u] = "running"]
  /\ loaded' = [loaded EXCEPT ![u] = file[u]]
  /\ late' = late \cup {u}
  /\ UNCHANGED <<intent, file, boot, op, starting, watch, attempts, settled,
                 applies, events, budget>>

\* kill -9 and restart.  With the machine, every unit goes down too and the
\* ones enabled at boot are brought up.
Crash ==
  /\ Fault("crash")
  /\ op' = Free /\ watch' = WatchIdle
  /\ attempts' = [b \in Modules |-> 0]
  /\ starting' = Rerendered
  /\ \/ /\ settled' = IF op = Free THEN settled ELSE settled \ {op.b}
        /\ UNCHANGED state
     \/ /\ settled' = {}
        /\ state' = [u \in Units |-> IF boot[u] THEN "activating" ELSE "stopped"]
  /\ late' = {}
  /\ UNCHANGED <<intent, file, loaded, boot, applies, events>>

-----------------------------------------------------------------------------
Apply == Plan \/ Store \/ Write \/ Check \/ Act

Next ==
  \/ \E b \in Modules : \E d \in Docs(b) : Request(b, d)
  \/ \E b \in Modules : StartModule(b) \/ Poll(b)
  \/ Tick \/ Recover
  \/ Apply
  \/ \E u \in Units : Die(u) \/ HandEdit(u) \/ ComeUp(u)
  \/ Crash

Spec == Init /\ [][Next]_vars

\* The lock holder runs on, the start sequence too, and the watch ticks, polls
\* and gets the lock in its turn.
FairSpec ==
  /\ Spec
  /\ WF_vars(Apply) /\ WF_vars(Tick)
  /\ WF_vars(\E b \in Modules : Poll(b))
  /\ WF_vars(\E b \in Modules : StartModule(b))
  /\ SF_vars(Recover)
  /\ \A u \in Units : WF_vars(ComeUp(u))
-----------------------------------------------------------------------------
(* Properties. *)

\* The state has its declared shape.
TypeOK ==
  /\ \A b \in Modules : intent[b] \in Docs(b)
  /\ file \in [Units -> Contents] /\ loaded \in [Units -> Contents]
  /\ state \in [Units -> {"stopped", "activating", "running"}]
  /\ boot \in [Units -> BOOLEAN]
  /\ op.who \in {"free", "request", "startup", "watch"}
  /\ op.stage \in {"free", "plan", "store", "write", "check", "act"}
  /\ op # Free => op.b \in Modules /\ op.doc \in Docs(op.b)
  /\ starting \subseteq Modules
  /\ watch.pc \in {"idle", "poll", "hinted", "applying"}
  /\ watch.todo \subseteq Modules
  /\ (watch.pc = "applying") <=> (op.who = "watch")
  /\ attempts \in [Modules -> 0..GiveUpAfter]
  /\ settled \subseteq Modules /\ late \subseteq Units

\* Re-applying finishes the job: whatever failed before, an apply that reports
\* success leaves the rendered files as intent says, every unit that intent
\* wants up or on its way, and the boot setting in step.
ApplySettles ==
  \A b \in settled : \A u \in UnitSet(b) :
    /\ file[u] = intent[b].text[u]
    /\ intent[b].on => state[u] # "stopped"
    /\ boot[u] = intent[b].on

\* design.md: leave it partial and let a re-run finish the job -- so a unit
\* that runs after a successful apply runs on the files intent renders. TLC
\* refutes it: an apply that wrote the file and failed at the service action
\* leaves the re-run nothing to do.
ServesIntent ==
  \A b \in settled : \A u \in UnitSet(b) :
    intent[b].on /\ state[u] = "running" => loaded[u] = intent[b].text[u]

\* The watch only starts: it rewrites no file, and stops or re-reads no unit
\* that is running, unless somebody without the lock changed that unit after
\* the watch had rechecked it under the lock.
StartsOnly ==
  (op.who = "watch" /\ (op'.who = "watch" \/ attempts'[op.b] > attempts[op.b])) =>
       \A u \in UnitSet(op.b) \ late :
         /\ file'[u] # file[u] => u \in late'
         /\ state[u] = "running" =>
              u \in late' \/ (state'[u] = "running" /\ loaded'[u] = loaded[u])
\* Nobody is handed a failure that looks like a broken name: an apply never
\* starts a unit whose predecessors are down, and never stops one whose
\* successors serve, unless one of them was touched after the plan was made.
InOrder ==
  \A b \in Modules : \A i, j \in DOMAIN UnitsOf[b] :
       LET u == UnitsOf[b][i]
           v == UnitsOf[b][j]
       IN  (i < j /\ At("act") /\ op.b = b /\ {u, v} \cap late' = {} /\ op' # Free) =>
             /\ (state[v] = "stopped" /\ state'[v] = "running") => state[u] # "stopped"
             /\ (state[u] = "running" /\ state'[u] = "stopped") => state[v] # "running"

\* Both: an apply, and above all the one the watch makes by itself, takes no
\* step that costs a service it was not told to touch.
OrderlyStep == StartsOnly /\ InOrder
OrderlySteps == [][OrderlyStep]_vars
=============================================================================
