----------------------------- MODULE Equipment ------------------------------
(***************************************************************************)
(* Managed network equipment (internal/network): the inventory, and the    *)
(* one operation that changes a device, disconnecting a wireless client.   *)
(*                                                                         *)
(* An operation is planned first.  The plan asks the device whether it can *)
(* be done and hands out a confirmation, which is good for one execution   *)
(* of that operation on that device as it was configured, for five         *)
(* minutes.  Requests to one device wait for each other in a lane.  Edits  *)
(* of the inventory and executions hold the apply lock, plans do not.      *)
(***************************************************************************)
EXTENDS Naturals, FiniteSets, Sequences

CONSTANTS
    Ids,         \* device IDs
    LaneOf,      \* ID -> the lane its hash falls in
    Records,     \* what a device can be configured as (Device)
    Operators,   \* records whose adapter can operate (openwrt, not mercury)
    Ops,         \* operations: kind, target, client
    Tokens,      \* confirmations rand can return
    Requests,
    Window,      \* how long a confirmation is good for
    MaxPending,  \* limit: confirmations kept at once
    MaxTime,     \* bound: ticks
    MaxEdits,    \* bound: edits of the inventory
    MaxFaults    \* bound: restarts

VARIABLES
    devices,    \* the inventory: ID -> record, for the IDs it has
    pending,    \* token -> [id, dev, op, expires]
    flight,     \* the requests that hold a lane: request -> what it is doing
    now,
    decisions,  \* every confirmation ever handed out: token -> as in pending
    calls,      \* operations sent to devices: <<[token, id, dev, op]>>
    edits, faults

vars == <<devices, pending, flight, now, decisions, calls, edits, faults>>

Holding(kind) == {r \in DOMAIN flight : flight[r].kind = kind}
LaneFree(id) == \A r \in DOMAIN flight : LaneOf[flight[r].id] # LaneOf[id]
LockFree == Holding("execute") = {}

Begin(r, f) == flight' = [q \in DOMAIN flight \cup {r} |-> IF q = r THEN f ELSE flight[q]]
End(r) == flight' = [q \in DOMAIN flight \ {r} |-> flight[q]]

Without(f, ks) == [k \in DOMAIN f \ ks |-> f[k]]
With(f, k, v) == [j \in DOMAIN f \cup {k} |-> IF j = k THEN v ELSE f[j]]

Expired(p) == now > p.expires

(***************************************************************************)
(* Plan.                                                                   *)
(***************************************************************************)
(* The request takes the lane, reads the inventory and asks the device.    *)
PlanBegin == \E r \in Requests \ DOMAIN flight, id \in DOMAIN devices, op \in Ops :
    /\ LaneFree(id) /\ devices[id] \in Operators
    /\ Begin(r, [kind |-> "plan", id |-> id, dev |-> devices[id], op |-> op])
    /\ UNCHANGED <<devices, pending, now, decisions, calls, edits, faults>>

(* The device can do it: expired confirmations are dropped and a new one   *)
(* is kept, if there is room.  A confirmation is never drawn twice.        *)
PlanEnd == \E r \in Holding("plan"), t \in Tokens \ DOMAIN decisions :
    LET live == Without(pending, {k \in DOMAIN pending : Expired(pending[k])})
        p == [id |-> flight[r].id, dev |-> flight[r].dev, op |-> flight[r].op,
              expires |-> now + Window]
    IN  /\ IF Cardinality(DOMAIN live) < MaxPending
           THEN pending' = With(live, t, p) /\ decisions' = With(decisions, t, p)
           ELSE pending' = live /\ UNCHANGED decisions
        /\ End(r)
        /\ UNCHANGED <<devices, now, calls, edits, faults>>

(* The device cannot be asked, or cannot do it.                            *)
PlanRefused == \E r \in Holding("plan") :
    /\ End(r)
    /\ UNCHANGED <<devices, pending, now, decisions, calls, edits, faults>>

(***************************************************************************)
(* Execute.                                                                *)
(***************************************************************************)
Confirmed(t, id, op) ==
    /\ t \in DOMAIN pending
    /\ ~Expired(pending[t])
    /\ pending[t].id = id /\ pending[t].dev = devices[id] /\ pending[t].op = op

(* Mutant of Consume: a confirmation is deleted once the device answered.  *)
ConsumeLater(t) == pending

Consume(t) == Without(pending, {t})

(* Under the apply lock and in the lane the confirmation is consumed,      *)
(* whatever it was for, and only then is the device called.                *)
Execute == \E r \in Requests \ DOMAIN flight, id \in DOMAIN devices, op \in Ops,
              t \in DOMAIN decisions :
    /\ LockFree /\ LaneFree(id)
    /\ pending' = Consume(t)
    /\ IF Confirmed(t, id, op) /\ devices[id] \in Operators
       THEN /\ Begin(r, [kind |-> "execute", id |-> id])
            /\ calls' = Append(calls, [token |-> t, id |-> id,
                                       dev |-> devices[id], op |-> op])
       ELSE UNCHANGED <<flight, calls>>
    /\ UNCHANGED <<devices, now, decisions, edits, faults>>

(* The client is disconnected, or the device refuses or is not reached; a  *)
(* lost answer leaves the caller not knowing.  Either way nothing is kept  *)
(* that could send it again.                                               *)
Answer == \E r \in Holding("execute") :
    /\ End(r)
    /\ UNCHANGED <<devices, pending, now, decisions, calls, edits, faults>>

(***************************************************************************)
(* The inventory, and time.                                                *)
(***************************************************************************)
putDevice == \E id \in Ids, d \in Records :
    /\ LockFree /\ edits < MaxEdits
    /\ edits' = edits + 1
    /\ devices' = With(devices, id, d)
    /\ UNCHANGED <<pending, flight, now, decisions, calls, faults>>

putConfig == \E ids \in SUBSET Ids :
    /\ LockFree /\ edits < MaxEdits
    /\ edits' = edits + 1
    /\ devices' \in [ids -> Records]
    /\ UNCHANGED <<pending, flight, now, decisions, calls, faults>>

deleteDevice == \E id \in DOMAIN devices :
    /\ LockFree /\ edits < MaxEdits
    /\ edits' = edits + 1
    /\ devices' = Without(devices, {id})
    /\ UNCHANGED <<pending, flight, now, decisions, calls, faults>>

Tick ==
    /\ now < MaxTime
    /\ now' = now + 1
    /\ UNCHANGED <<devices, pending, flight, decisions, calls, edits, faults>>

(* The daemon restarts: confirmations are kept in memory only.             *)
Restart ==
    /\ faults < MaxFaults
    /\ faults' = faults + 1
    /\ pending' = [t \in {} |-> 0] /\ flight' = [r \in {} |-> 0]
    /\ UNCHANGED <<devices, now, decisions, calls, edits>>

Init ==
    /\ devices \in [Ids -> Operators]
    /\ pending = [t \in {} |-> 0] /\ flight = [r \in {} |-> 0]
    /\ now = 0
    /\ decisions = [t \in {} |-> 0] /\ calls = <<>>
    /\ edits = 0 /\ faults = 0

Next ==
    \/ PlanBegin \/ PlanEnd \/ PlanRefused \/ Execute \/ Answer
    \/ putDevice \/ putConfig \/ deleteDevice \/ Tick \/ Restart

Spec == Init /\ [][Next]_vars

(***************************************************************************)
(* Properties.                                                             *)
(***************************************************************************)
(* Every call sent to a device is the operation a decision was about, on   *)
(* the device as it was configured when the decision was made and is       *)
(* again, no later than a confirmation is good for; and no decision is     *)
(* ever sent a second time, whatever was edited, planned, retried or lost  *)
(* in between (service.go:162, :175).                                      *)
CallsAsDecided ==
    \A i \in Len(calls) + 1 .. Len(calls') :
        LET c == calls'[i] IN
        /\ c.token \in DOMAIN decisions
        /\ decisions[c.token].id = c.id /\ decisions[c.token].op = c.op
        /\ decisions[c.token].dev = c.dev /\ c.dev = devices[c.id]
        /\ now <= decisions[c.token].expires
        /\ \A j \in DOMAIN calls : calls[j].token # c.token
=============================================================================
