----------------------------- MODULE MCLoops --------------------------------
(***************************************************************************)
(* The loops that wait for the apply lock, checked in one run: the retry   *)
(* of a rollback, the delegated prefix and its follower, and the watch     *)
(* over the supervised backends. Each behaviour is one component's, and    *)
(* `which` says whose.                                                     *)
(***************************************************************************)
EXTENDS Naturals, FiniteSets

CONSTANTS NoValue

VARIABLES
    which,  \* the component this behaviour is of
    store, journal, trial, op, up, runtime, ids, budget, accepted, tried,
    want, running, cur, phase, cancelled, withdrawing, prefix, calls,
    waiting, record, nets, addrs, routes, leases, watches, rollbacks,
    applies, intent, file, state, loaded, boot, starting, watch, attempts,
    settled, late, events

all == <<which,
    store, journal, trial, op, up, runtime, ids, budget, accepted, tried,
    want, running, cur, phase, cancelled, withdrawing, prefix, calls,
    waiting, record, nets, addrs, routes, leases, watches, rollbacks,
    applies, intent, file, state, loaded, boot, starting, watch, attempts,
    settled, late, events>>

(* The components and their instances. *)
TheRecovery == INSTANCE Recovery WITH
    Docs <- {"d1", "d2"}, InitDoc <- "d1", NoDoc <- "none",
    Faults <- {"crash", "power", "read", "capture", "write", "dirsync", "saveDirsync", "beginDirsync", "confirmDirsync", "markDirsync", "unlink", "program"},
    MaxFaults <- 2, MaxTrials <- 1
CatchUp == INSTANCE Delegation WITH
    None <- NoValue, Keys <- {"k1"}, Delegable <- {"p1", "p2"},
    Loops <- {"l1", "l2"}, Requests <- {"r1"}, Faults <- {},
    MaxCallers <- 1, MaxLeases <- 3, MaxWatches <- 2, MaxRollbacks <- 1,
    MaxApplies <- 0, MaxFaults <- 0
Watching == INSTANCE Delegation WITH
    None <- NoValue, Keys <- {"k1"}, Delegable <- {"p1"},
    Loops <- {"l1", "l2", "l3"}, Requests <- {"r1"},
    Faults <- {"program", "timeout", "crash"}, MaxCallers <- 2,
    MaxLeases <- 1, MaxWatches <- 2, MaxRollbacks <- 1, MaxApplies <- 1,
    MaxFaults <- 1
TheBackends == INSTANCE Backends WITH
    Modules <- {"dns", "dhcp"},
    UnitsOf <- [dns |-> <<"relay">>, dhcp |-> <<"dnsmasq">>],
    Reloadable <- {"relay"}, Rerendered <- {"dns"}, Texts <- {"t1"},
    Edited <- "edited", GiveUpAfter <- 2, Faults <- {"read", "act"},
    MaxApplies <- 1, MaxEvents <- 3, MaxFaults <- 1

(* The variables of the other components stay at NA. *)
NA == 0

TheRecoveryInit ==
    /\ which = "recovery" /\ TheRecovery!Init
    /\ want = NA /\ running = NA /\ cur = NA /\ phase = NA
    /\ cancelled = NA /\ withdrawing = NA /\ prefix = NA /\ calls = NA
    /\ waiting = NA /\ record = NA /\ nets = NA /\ addrs = NA
    /\ routes = NA /\ leases = NA /\ watches = NA /\ rollbacks = NA
    /\ applies = NA /\ intent = NA /\ file = NA /\ state = NA
    /\ loaded = NA /\ boot = NA /\ starting = NA /\ watch = NA
    /\ attempts = NA /\ settled = NA /\ late = NA /\ events = NA
TheRecoveryRest ==
    UNCHANGED <<which,
        want, running, cur, phase, cancelled, withdrawing, prefix, calls,
        waiting, record, nets, addrs, routes, leases, watches, rollbacks,
        applies, intent, file, state, loaded, boot, starting, watch,
        attempts, settled, late, events>>
TheRecoveryNext ==
    which = "recovery" /\ TheRecovery!Next /\ TheRecoveryRest

CatchUpInit ==
    /\ which = "catchup" /\ CatchUp!Init
    /\ store = NA /\ journal = NA /\ trial = NA /\ up = NA /\ runtime = NA
    /\ ids = NA /\ accepted = NA /\ tried = NA /\ intent = NA /\ file = NA
    /\ state = NA /\ loaded = NA /\ boot = NA /\ starting = NA
    /\ watch = NA /\ attempts = NA /\ settled = NA /\ late = NA
    /\ events = NA
CatchUpRest ==
    UNCHANGED <<which,
        store, journal, trial, up, runtime, ids, accepted, tried, intent,
        file, state, loaded, boot, starting, watch, attempts, settled, late,
        events>>
CatchUpNext ==
    which = "catchup" /\ CatchUp!Next /\ CatchUpRest

WatchingInit ==
    /\ which = "watch" /\ Watching!Init
    /\ store = NA /\ journal = NA /\ trial = NA /\ up = NA /\ runtime = NA
    /\ ids = NA /\ accepted = NA /\ tried = NA /\ intent = NA /\ file = NA
    /\ state = NA /\ loaded = NA /\ boot = NA /\ starting = NA
    /\ watch = NA /\ attempts = NA /\ settled = NA /\ late = NA
    /\ events = NA
WatchingRest ==
    UNCHANGED <<which,
        store, journal, trial, up, runtime, ids, accepted, tried, intent,
        file, state, loaded, boot, starting, watch, attempts, settled, late,
        events>>
WatchingNext ==
    which = "watch" /\ Watching!Next /\ WatchingRest

TheBackendsInit ==
    /\ which = "backends" /\ TheBackends!Init
    /\ store = NA /\ journal = NA /\ trial = NA /\ up = NA /\ runtime = NA
    /\ ids = NA /\ accepted = NA /\ tried = NA /\ want = NA
    /\ running = NA /\ cur = NA /\ phase = NA /\ cancelled = NA
    /\ withdrawing = NA /\ prefix = NA /\ calls = NA /\ waiting = NA
    /\ record = NA /\ nets = NA /\ addrs = NA /\ routes = NA
    /\ leases = NA /\ watches = NA /\ rollbacks = NA
TheBackendsRest ==
    UNCHANGED <<which,
        store, journal, trial, up, runtime, ids, accepted, tried, want,
        running, cur, phase, cancelled, withdrawing, prefix, calls, waiting,
        record, nets, addrs, routes, leases, watches, rollbacks>>
TheBackendsNext ==
    which = "backends" /\ TheBackends!Next /\ TheBackendsRest

Init ==
    \/ TheRecoveryInit \/ CatchUpInit \/ WatchingInit \/ TheBackendsInit
Next ==
    \/ TheRecoveryNext \/ CatchUpNext \/ WatchingNext \/ TheBackendsNext


(* The fairness each component states, of its own behaviours. The four     *)
(* strongly fair actions wait for the apply lock, and are one condition    *)
(* here because a behaviour is of one component.                           *)
recoveryVars == TheRecovery!vars
delegationVars == CatchUp!vars
backendsVars == TheBackends!vars

Retries ==
    \/ which = "recovery" /\ TheRecovery!Tick /\ TheRecoveryRest
    \/ which = "catchup" /\ CatchUp!Reconcile /\ CatchUpRest
    \/ which = "watch" /\ Watching!Reconcile /\ WatchingRest
    \/ which = "backends" /\ TheBackends!Recover /\ TheBackendsRest

Fairness ==
    /\ WF_recoveryVars(which = "recovery" /\ TheRecovery!Step)
    /\ WF_recoveryVars(which = "recovery" /\ TheRecovery!Boot)
    /\ WF_recoveryVars(which = "recovery" /\ TheRecovery!DeadlinePasses)
    /\ \A l \in {"l1", "l2"} :
        /\ WF_delegationVars(which = "catchup" /\ CatchUp!LoopStop(l))
        /\ WF_delegationVars(which = "catchup" /\ CatchUp!LoopExit(l))
    /\ \A c \in CatchUp!Callers : WF_delegationVars(which = "catchup" /\ CatchUp!Watch(c))
    /\ WF_delegationVars(which = "catchup" /\ CatchUp!Follow)
    /\ WF_delegationVars(which = "catchup" /\ CatchUp!Record)
    /\ \A l \in {"l1", "l2", "l3"} :
        /\ WF_delegationVars(which = "watch" /\ Watching!LoopStop(l))
        /\ WF_delegationVars(which = "watch" /\ Watching!LoopExit(l))
    /\ \A c \in Watching!Callers : WF_delegationVars(which = "watch" /\ Watching!Watch(c))
    /\ WF_delegationVars(which = "watch" /\ Watching!Follow)
    /\ WF_delegationVars(which = "watch" /\ Watching!Record)
    /\ WF_backendsVars(which = "backends" /\ TheBackends!Apply)
    /\ WF_backendsVars(which = "backends" /\ TheBackends!Tick)
    /\ WF_backendsVars(which = "backends" /\ \E b \in {"dns", "dhcp"} : TheBackends!Poll(b))
    /\ WF_backendsVars(which = "backends" /\ \E b \in {"dns", "dhcp"} : TheBackends!StartModule(b))
    /\ \A u \in {"relay", "dnsmasq"} : WF_backendsVars(which = "backends" /\ TheBackends!ComeUp(u))
    /\ SF_all(Retries)

Spec == Init /\ [][Next]_all /\ Fairness

(***************************************************************************)
(* Properties.                                                             *)
(***************************************************************************)
(* Recovery: an open trial is eventually closed, by its operator or by the *)
(* runner, however often recovery fails first (core/recovery.go:157).      *)
TrialCloses ==
    (which = "recovery" /\ up /\ trial.id # 0) ~> (which = "recovery" => trial.id = 0)

(* Delegation: the follower catches up with a prefix that stays            *)
(* (daemon/delegation.go:57).                                              *)
FollowerCatchesUp == (which = "catchup" /\ record # prefix) ~> (which = "catchup" => record = prefix)

(* Delegation: a call of Watch returns, and with it the rollback that      *)
(* holds the lock: the loop it waits for never waits for the lock          *)
(* (dial/delegation.go).                                                   *)
WatchReturns ==
    \A c \in Watching!Callers :
        (which = "watch" /\ calls[c] # Watching!NoCall) ~> (which = "watch" => calls[c] = Watching!NoCall)

(* Backends: one that stays down is started or given up on, and one that   *)
(* somebody fixed comes back under supervision: if from some point on it   *)
(* is never pending, its attempts are forgotten (daemon/supervise.go:91).  *)
Supervised ==
    \A b \in {"dns", "dhcp"} :
        /\ (which = "backends" /\ TheBackends!Pending(b, {}))
              ~> (which = "backends" => ~TheBackends!Pending(b, {}) \/ attempts[b] = 2)
        /\ <>[](which = "backends" /\ ~TheBackends!Pending(b, {}))
              => <>[](which = "backends" => attempts[b] = 0)
=============================================================================
