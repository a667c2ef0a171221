----------------------------- MODULE Delegation -----------------------------
(***************************************************************************)
(* The delegated IPv6 prefix: the loop that leases it from the ISP         *)
(* (internal/dial/delegation.go), the client exchange under it             *)
(* (internal/dial/dhcpv6/client.go), the edits that start and stop the     *)
(* loop (internal/dial/http.go, Rollback in internal/daemon/daemon.go) and *)
(* the follower that moves the networks' router addresses after the prefix *)
(* (internal/daemon/delegation.go, FollowDelegation in                     *)
(* internal/link/apply.go).                                                *)
(*                                                                         *)
(* A loop publishes a prefix without the apply lock.  An edit of the       *)
(* uplink stores its document under the lock and calls Watch after it has  *)
(* let go of it; a rollback calls Watch with the lock in its hand, and     *)
(* startup before there is anything to lock out.  Every announced change   *)
(* starts a goroutine that waits for the lock.  A network's router address *)
(* is represented by the prefix it is numbered from.                       *)
(***************************************************************************)
EXTENDS Naturals, FiniteSets

CONSTANTS
  Keys,          \* uplinks (interface and length hint) a prefix is asked for on
  Delegable,     \* prefixes the ISP may delegate
  Loops,         \* identities of lease loops (goroutines running d.run)
  Requests,      \* API requests that edit the uplink
  None,          \* no uplink, no prefix, no loop
  Faults,        \* subset of FaultKinds
  MaxCallers,    \* calls of Watch in flight at once
  MaxLeases,     \* bound: leases granted or renewed in one behaviour
  MaxWatches,    \* bound: edits of the uplink
  MaxRollbacks,  \* bound: rollbacks
  MaxApplies,    \* bound: edits of the networks
  MaxFaults      \* bound: faults in one behaviour

FaultKinds ==
  { "program",  \* an edit of the uplink is stored but cannot be programmed
    "follow",   \* moving the router addresses fails part-way
    "save",     \* the applied prefix cannot be recorded
    "timeout",  \* the follower gives up waiting for the lock
    "crash" }   \* the daemon is killed

VARIABLES
  want,         \* the uplink the stored configuration asks for a prefix on
  running,      \* Delegation.running
  cur,          \* the loop Delegation.cancel and Delegation.done belong to
  phase,        \* what each loop is doing, "done" when it has closed `done'
  cancelled,    \* loops whose context has been cancelled
  withdrawing,  \* Delegation.withdrawing
  prefix,       \* Delegation.state.Prefix, the published prefix
  calls,        \* the calls of Watch in flight
  waiting,      \* follower goroutines that have not got the lock yet
  op,           \* the holder of the apply lock
  record,       \* the last applied prefix, on disk
  nets,         \* some network is numbered from the delegated prefix
  addrs,        \* prefixes the networks carry router addresses from
  routes,       \* prefixes with an unreachable route
  leases, watches, rollbacks, applies, budget   \* bounds

vars == <<want, running, cur, phase, cancelled, withdrawing, prefix, calls,
          waiting, op, record, nets, addrs, routes, leases, watches,
          rollbacks, applies, budget>>

\* What the loops own; what Watch owns; what the follower and link own.
loopVars == <<phase, cancelled, leases>>
watchVars == <<running, cur, withdrawing, calls>>
boxVars == <<record, nets, addrs, routes>>
editVars == <<want, watches, rollbacks, applies>>

Prefix == Delegable \cup {None}
Key == Keys \cup {None}
Callers == Requests \cup {"rollback", "boot"}

Phases == {"soliciting", "bound", "releasing", "done"}

NoCall == [pc |-> "idle", key |-> None, loop |-> None]
Call(pc, k, l) == [pc |-> pc, key |-> k, loop |-> l]
InFlight == {c \in Callers : calls[c] # NoCall}

Op(k, was, now) == [kind |-> k, was |-> was, now |-> now]
Free == Op("free", None, None)

Fault(f) == f \in Faults /\ budget > 0 /\ budget' = budget - 1

NoFault == UNCHANGED budget

Init ==
  /\ want = None /\ running = None /\ cur = None
  /\ phase = [l \in Loops |-> "done"] /\ cancelled = {}
  /\ withdrawing = FALSE
  /\ prefix = None /\ waiting = 0
  /\ calls = [c \in Callers |-> NoCall]
  /\ op = Free
  /\ record = None
  /\ nets = TRUE
  /\ addrs = {} /\ routes = {}
  /\ leases = 0 /\ watches = 0 /\ rollbacks = 0 /\ applies = 0
  /\ budget = MaxFaults

-----------------------------------------------------------------------------
(* The lease loops. *)

\* Fault variant of SetPrefix: only a new prefix is announced.
SetPrefixQuiet(p) ==
  /\ prefix' = p
  /\ waiting' = IF prefix = p \/ p = None THEN waiting ELSE waiting + 1

\* setPrefix: publish, and announce a change to a new follower goroutine.
SetPrefix(p) ==
  /\ prefix' = p
  /\ waiting' = IF prefix = p THEN waiting ELSE waiting + 1

\* Acquire answered.  It may answer although the loop was cancelled meanwhile;
\* the prefix is published all the same.  A failed attempt (no socket, no
\* server, a refusal) leaves the loop soliciting.
Grant(l, p) ==
  /\ phase[l] = "soliciting"
  /\ leases < MaxLeases
  /\ leases' = leases + 1
  /\ phase' = [phase EXCEPT ![l] = "bound"]
  /\ SetPrefix(p)
  /\ UNCHANGED <<cancelled, watchVars, op, boxVars, editVars, budget>>

\* Renew or Rebind answered, with the same prefix or with another.
Renew(l, p) ==
  /\ phase[l] = "bound" /\ l \notin cancelled
  /\ leases < MaxLeases
  /\ leases' = leases + 1
  /\ SetPrefix(p)
  /\ UNCHANGED <<phase, cancelled, watchVars, op, boxVars, editVars, budget>>

\* Neither answered before the lease ran out.
Expire(l) ==
  /\ phase[l] = "bound" /\ l \notin cancelled
  /\ phase' = [phase EXCEPT ![l] = "soliciting"]
  /\ SetPrefix(None)
  /\ UNCHANGED <<cancelled, leases, watchVars, op, boxVars, editVars, budget>>

\* The loop sees its context cancelled and asks whether it is being withdrawn.
\* If not it just ends.
LoopStop(l) ==
  /\ phase[l] \in {"soliciting", "bound"} /\ l \in cancelled
  /\ phase' = [phase EXCEPT ![l] = IF withdrawing THEN "releasing" ELSE "done"]
  /\ UNCHANGED <<cancelled, leases, prefix, waiting, watchVars, op, boxVars,
                 editVars, budget>>

\* Fault variant of LoopExit: Changed takes the apply lock itself.
LoopExitLocking(l) ==
  /\ phase[l] = "releasing"
  /\ op = Free
  /\ phase' = [phase EXCEPT ![l] = "done"]
  /\ SetPrefix(None)
  /\ UNCHANGED <<cancelled, leases, watchVars, op, boxVars, editVars, budget>>

\* The rest of the deferred exit of run: release the lease (best effort), take
\* the prefix back, close `done'.
LoopExit(l) ==
  /\ phase[l] = "releasing"
  /\ phase' = [phase EXCEPT ![l] = "done"]
  /\ SetPrefix(None)
  /\ UNCHANGED <<cancelled, leases, watchVars, op, boxVars, editVars, budget>>

-----------------------------------------------------------------------------
(* Edits of the uplink, and Watch. *)

\* A dial handler: store the document under the lock, release it, and call
\* Watch with what was stored.  If programming failed the document is stored
\* and Watch is not called.  Nothing is served before startup has called its
\* own.
EditUplink(r, k) ==
  /\ op = Free
  /\ calls[r] = NoCall /\ calls["boot"] = NoCall
  /\ Cardinality(InFlight) < MaxCallers
  /\ watches < MaxWatches /\ watches' = watches + 1
  /\ want' = k
  /\ \/ calls' = [calls EXCEPT ![r] = Call("called", k, None)] /\ NoFault
     \/ Fault("program") /\ UNCHANGED calls
  /\ UNCHANGED <<running, cur, withdrawing, prefix, waiting, loopVars, op,
                 boxVars, rollbacks, applies>>

\* The networks' router addresses once link has programmed `n' with the prefix
\* published now: networks that have one get an address from it, networks that
\* are gone lose the one from it (DesiredFor, RetiredFor).
Networks(n) ==
  IF n THEN addrs \cup ({prefix} \ {None})
       ELSE IF nets THEN addrs \ {prefix} ELSE addrs

\* Rollback: the previous document, the networks' addresses, then Watch, all
\* under the lock, which is released when Watch returns.
Rollback(k, n) ==
  /\ op = Free
  /\ Cardinality(InFlight) < MaxCallers
  /\ rollbacks < MaxRollbacks /\ rollbacks' = rollbacks + 1
  /\ want' = k
  /\ nets' = n /\ addrs' = Networks(n)
  /\ op' = Op("rollback", None, None)
  /\ calls' = [calls EXCEPT !["rollback"] = Call("called", k, None)]
  /\ UNCHANGED <<running, cur, withdrawing, prefix, waiting, loopVars, record,
                 routes, watches, applies, budget>>

\* Watch returns to its caller.
Return(c) ==
  /\ calls' = [calls EXCEPT ![c] = NoCall]
  /\ op' = IF c = "rollback" THEN Free ELSE op

\* Watch's first critical section: nothing to do, or the loop to be stopped.
WatchCheck(c) ==
  /\ calls[c].pc = "called"
  /\ IF calls[c].key = running
       THEN Return(c)
       ELSE /\ calls' = [calls EXCEPT ![c] = Call(IF cur = None THEN "start"
                                                  ELSE "stop", @.key, cur)]
            /\ UNCHANGED op
  /\ UNCHANGED <<running, cur, withdrawing, prefix, waiting, loopVars, boxVars,
                 editVars, budget>>

\* Tell the loop to give its prefix back, cancel it, and wait for `done'.
WatchStop(c) ==
  /\ calls[c].pc = "stop"
  /\ withdrawing' = TRUE
  /\ cancelled' = cancelled \cup {calls[c].loop}
  /\ calls' = [calls EXCEPT ![c].pc = "start"]
  /\ UNCHANGED <<running, cur, prefix, waiting, phase, leases, op, boxVars,
                 editVars, budget>>

\* Loops whose goroutine is gone and that nobody holds a handle on.
Unused == {l \in Loops : phase[l] = "done" /\ l # cur
                         /\ \A c \in Callers : calls[c].loop # l}

\* Watch's last critical section, once `done' is closed: forget the old state
\* and start a loop if one is wanted.
WatchStart(c) ==
  /\ calls[c].pc = "start"
  /\ calls[c].loop # None => phase[calls[c].loop] = "done"
  /\ withdrawing' = FALSE
  /\ running' = calls[c].key
  /\ prefix' = None
  /\ IF calls[c].key = None
       THEN cur' = None /\ UNCHANGED <<phase, cancelled>>
       ELSE \E l \in Unused :
              /\ cur' = l
              /\ phase' = [phase EXCEPT ![l] = "soliciting"]
              /\ cancelled' = cancelled \ {l}
  /\ Return(c)
  /\ UNCHANGED <<waiting, leases, boxVars, editVars, budget>>

-----------------------------------------------------------------------------
(* The networks and the follower, under the lock. *)

\* link.Applier.Apply, seen from the delegated prefix.
LinkApply(n) ==
  /\ op = Free
  /\ applies < MaxApplies /\ applies' = applies + 1
  /\ nets' = n /\ addrs' = Networks(n)
  /\ UNCHANGED <<want, prefix, waiting, loopVars, watchVars, op, record, routes,
                 watches, rollbacks, budget>>

\* reconcile gets the lock: the record on disk and the prefix as it is now,
\* not as it was announced.
Reconcile ==
  /\ op = Free /\ waiting > 0
  /\ waiting' = waiting - 1
  /\ op' = Op("reconcile", record, prefix)
  /\ UNCHANGED <<prefix, loopVars, watchVars, boxVars, editVars, budget>>

\* reconcile's 30 seconds are over before it got the lock.
ReconcileTimeout ==
  /\ op # Free /\ waiting > 0
  /\ Fault("timeout")
  /\ waiting' = waiting - 1
  /\ UNCHANGED <<prefix, loopVars, watchVars, op, boxVars, editVars>>

\* What FollowDelegation adds and takes off; nothing without such networks.
Added == IF nets THEN {op.now} \ {None} ELSE {}

Retired == IF nets THEN {op.was} \ {op.now} ELSE {}

\* FollowDelegation.  An error, or a record that cannot be read, ends the
\* reconciliation there.
Follow ==
  /\ op.kind = "reconcile"
  /\ \/ /\ addrs' = (addrs \cup Added) \ Retired
        /\ op' = [op EXCEPT !.kind = "record"]
        /\ NoFault
     \/ /\ Fault("follow")
        /\ \E new \in SUBSET Added, gone \in SUBSET Retired :
             addrs' = (addrs \cup new) \ gone
        /\ op' = Free
  /\ UNCHANGED <<prefix, waiting, loopVars, watchVars, record, nets, routes,
                 editVars>>

\* Fault variant of Record: the prefix is recorded as published now.
RecordPublished ==
  /\ op.kind = "record"
  /\ routes' = (routes \ {op.was}) \cup ({op.now} \ {None})
  /\ record' = prefix
  /\ op' = Free
  /\ UNCHANGED <<prefix, waiting, loopVars, watchVars, nets, addrs, editVars,
                 budget>>

\* Unreachable, save and the dependents.  A failed save is only reported.
Record ==
  /\ op.kind = "record"
  /\ routes' = (routes \ {op.was}) \cup ({op.now} \ {None})
  /\ \/ record' = op.now /\ NoFault
     \/ Fault("save") /\ UNCHANGED record
  /\ op' = Free
  /\ UNCHANGED <<prefix, waiting, loopVars, watchVars, nets, addrs, editVars>>

\* kill -9 and restart: memory goes, the record and the kernel stay, and
\* startDial asks again for the prefix the configuration wants.
Crash ==
  /\ Fault("crash")
  /\ running' = None /\ cur' = None
  /\ phase' = [l \in Loops |-> "done"] /\ cancelled' = {}
  /\ withdrawing' = FALSE
  /\ prefix' = None /\ waiting' = 0
  /\ op' = Free
  /\ calls' = [c \in Callers |-> IF c = "boot" /\ want # None
                                 THEN Call("called", want, None) ELSE NoCall]
  /\ UNCHANGED <<boxVars, leases, editVars>>

-----------------------------------------------------------------------------
Watch(c) == WatchCheck(c) \/ WatchStop(c) \/ WatchStart(c)

Next ==
  \/ \E l \in Loops, p \in Delegable : Grant(l, p) \/ Renew(l, p)
  \/ \E l \in Loops : Expire(l) \/ LoopStop(l) \/ LoopExit(l)
  \/ \E r \in Requests, k \in Key : EditUplink(r, k)
  \/ \E k \in Key, n \in BOOLEAN : Rollback(k, n)
  \/ \E c \in Callers : Watch(c)
  \/ \E n \in BOOLEAN : LinkApply(n)
  \/ Reconcile \/ ReconcileTimeout \/ Follow \/ Record
  \/ Crash

Spec == Init /\ [][Next]_vars

\* A cancelled loop returns (every exchange it may be in takes its context and
\* its release is cut off after three seconds), a call of Watch and the lock
\* holder run on, and a goroutine queued on the lock's channel gets it in its
\* turn.
FairSpec ==
  /\ Spec
  /\ \A l \in Loops : WF_vars(LoopStop(l)) /\ WF_vars(LoopExit(l))
  /\ \A c \in Callers : WF_vars(Watch(c))
  /\ WF_vars(Follow) /\ WF_vars(Record)
  /\ SF_vars(Reconcile)

-----------------------------------------------------------------------------
(* Properties. *)

\* The state has its declared shape.
TypeOK ==
  /\ want \in Key /\ running \in Key /\ cur \in Loops \cup {None}
  /\ phase \in [Loops -> Phases] /\ cancelled \subseteq Loops
  /\ withdrawing \in BOOLEAN
  /\ prefix \in Prefix
  /\ calls \in [Callers -> [pc : {"idle", "called", "stop", "start"}, key : Key,
                            loop : Loops \cup {None}]]
  /\ waiting \in Nat
  /\ op \in [kind : {"free", "rollback", "reconcile", "record"},
             was : Prefix, now : Prefix]
  /\ record \in Prefix
  /\ nets \in BOOLEAN
  /\ addrs \subseteq Delegable /\ routes \subseteq Delegable
  /\ leases \in Nat /\ watches \in Nat /\ rollbacks \in Nat /\ applies \in Nat
  /\ budget \in Nat

\* Nothing about the prefix is on its way.
Settled == op = Free /\ waiting = 0 /\ InFlight = {}

\* delegation.go: Watch stops the old loop and waits for it before it starts
\* another, so there is never more than one loop publishing a prefix.
OneLoop == \A k, l \in Loops : phase[k] # "done" /\ phase[l] # "done" => k = l

\* delegation.go: Watch starts, restarts or stops the loop to match the
\* configuration: once every call has returned, the loop runs on the uplink
\* the stored document asks for.
LoopMatchesStored == InFlight = {} => running = want

\* However announcements, edits of the uplink and the follower interleave, a
\* box at rest whose record was written has recorded and routed the prefix
\* published, and no other (the goroutine reconciles against the prefix as it
\* is when it gets the lock, so two announcements land as one).
RecordCurrent ==
  Settled => record = prefix /\ routes = {prefix} \ {None}

\* daemon/delegation.go, link/apply.go: the networks' router addresses follow
\* the prefix, and a network that has just gone takes its address with it --
\* so a box at rest carries addresses from the published prefix and no other.
AddressesCurrent ==
  Settled => addrs = IF nets THEN {prefix} \ {None} ELSE {}

\* As long as nobody has programmed the networks themselves, the follower
\* alone keeps their addresses right, however many prefixes come and go.
AddressesFollow == (applies = 0 /\ rollbacks = 0) => AddressesCurrent

\* A call of Watch returns, and with it the rollback that holds the lock: the
\* loop it waits for never waits for the lock.
WatchReturns == \A c \in Callers : (calls[c] # NoCall) ~> (calls[c] = NoCall)

\* The follower catches up with a prefix that stays.
FollowerCatchesUp == (record # prefix) ~> (record = prefix)
=============================================================================
